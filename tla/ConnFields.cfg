\* A writer making up to three setter calls against a reader calling
\* conn_get_selected_file() over and over.
CONSTANTS
    Files = {"f1", "f2"}
    Defaults = {"d1"}
    NameLen <- MC_NameLen
    Chans = {"chA", "chB"}
    DefaultFile <- MC_DefaultFile
    RetronetEnabled <- MC_RetronetEnabled
    NULL = NULL
    MaxWrites = 3
SPECIFICATION Spec
PROPERTY ReaderMemorySafe
PROPERTY GetTerminates
