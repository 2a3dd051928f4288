----------------------------- MODULE ConnFields -----------------------------
(***************************************************************************)
(* The selection fields of one connection in src/nabud/conn.c, guarded by *)
(* conn->mutex: l_channel, retronet_enabled and the owned string           *)
(* l_selected_file.  A writer (the connection's worker, handling           *)
(* CHANGE_CHANNEL or a sub-protocol's file selection) calls                *)
(* conn_set_channel() and conn_set_selected_file(), which swap the string  *)
(* out under the lock and free the old one after unlocking.  A reader (a  *)
(* registry enumerator) calls conn_get_selected_file(), which sizes the   *)
(* selection under the lock, allocates with the lock dropped, and copies  *)
(* under the lock again if the selection still fits, else retries.        *)
(* A string is a model value; only its length matters to the code.        *)
(***************************************************************************)
EXTENDS Naturals

CONSTANTS
    Files,            \* strings the writer may install (fresh allocations)
    Defaults,         \* channels' default_file strings (static)
    NameLen,          \* strlen() of each string
    Chans,            \* channels in the channel table
    DefaultFile,      \* each channel's default_file, or NULL
    RetronetEnabled,  \* each channel's retronet_enabled
    NULL,             \* a NULL pointer
    MaxWrites         \* bound on the writer's calls

Strings == Files \cup Defaults

ASSUME /\ Files \cap Defaults = {}
       /\ NameLen \in [Strings -> Nat \ {0}]
       /\ DefaultFile \in [Chans -> Defaults \cup {NULL}]
       /\ RetronetEnabled \in [Chans -> BOOLEAN]

VARIABLES
    selFile,     \* conn->l_selected_file
    chan,        \* conn->l_channel
    rnEnabled,   \* conn->retronet_enabled
    used,        \* strings of Files the writer has installed so far
    freed,       \* strings of Files that have been free()d
    wpc,         \* the writer: "idle", or "free" after unlocking
    toFree,      \* the old string the writer frees after unlocking
    writes,      \* writer calls made
    rpc,         \* the reader: "idle", "first", "malloc", "second"
    len,         \* the reader's len
    result       \* what the reader's last call returned

vars == <<selFile, chan, rnEnabled, used, freed, wpc, toFree, writes,
          rpc, len, result>>

\* conn_create_common(): a fresh connection, its channel maybe selected
\* (conn_set_channel() with no selection to free), then l_selected_file
\* set to args->selected_file: NULL, or a TCP client's fresh copy of its
\* listener's selection.
Init ==
    /\ selFile \in Files \cup {NULL}
    /\ chan \in Chans \cup {NULL}
    /\ rnEnabled = (chan # NULL /\ RetronetEnabled[chan])
    /\ used = IF selFile = NULL THEN {} ELSE {selFile}
    /\ freed = {}
    /\ wpc = "idle"
    /\ toFree = NULL
    /\ writes = 0
    /\ rpc = "idle"
    /\ len = 0
    /\ result = NULL

\* conn_get_selected_file_logic(): the explicit selection, else the
\* channel's default file, else NULL.
Effective ==
    IF selFile # NULL THEN selFile
    ELSE IF chan # NULL THEN DefaultFile[chan]
    ELSE NULL

-----------------------------------------------------------------------------
(* The writer.                                                            *)

\* conn_set_selected_file(conn, name) up to the unlock.
SetSelectedFile(f) ==
    /\ wpc = "idle"
    /\ writes < MaxWrites
    /\ f \notin used
    /\ selFile' = f
    /\ toFree' = selFile
    /\ used' = used \cup {f}
    /\ writes' = writes + 1
    /\ wpc' = "free"
    /\ UNCHANGED <<chan, rnEnabled, freed, rpc, len, result>>

\* Mutant: conn_set_channel() hands the old selection to free() but leaves
\* l_selected_file pointing at it.
SetChannelNoClear(c) ==
    /\ wpc = "idle"
    /\ writes < MaxWrites
    /\ chan' = c
    /\ rnEnabled' = RetronetEnabled[c]
    /\ toFree' = selFile
    /\ writes' = writes + 1
    /\ wpc' = "free"
    /\ UNCHANGED <<selFile, used, freed, rpc, len, result>>

\* conn_set_channel(conn, chan) up to the unlock: changing the channel
\* clears the selected file.
SetChannel(c) ==
    /\ wpc = "idle"
    /\ writes < MaxWrites
    /\ chan' = c
    /\ rnEnabled' = RetronetEnabled[c]
    /\ toFree' = selFile
    /\ selFile' = NULL
    /\ writes' = writes + 1
    /\ wpc' = "free"
    /\ UNCHANGED <<used, freed, rpc, len, result>>

\* The tail of both setters: free() the old string, outside the lock.
WriterFree ==
    /\ wpc = "free"
    /\ freed' = IF toFree = NULL THEN freed ELSE freed \cup {toFree}
    /\ toFree' = NULL
    /\ wpc' = "idle"
    /\ UNCHANGED <<selFile, chan, rnEnabled, used, writes, rpc, len, result>>

-----------------------------------------------------------------------------
(* The reader: conn_get_selected_file().                                  *)

\* The call begins with len = 0.
GetStart ==
    /\ rpc = "idle"
    /\ rpc' = "first"
    /\ len' = 0
    /\ UNCHANGED <<selFile, chan, rnEnabled, used, freed, wpc, toFree, writes, result>>

\* Mutant: len is only measured on the first pass of the loop.
FirstLockStaleLen ==
    /\ rpc = "first"
    /\ IF Effective = NULL
       THEN rpc' = "idle" /\ result' = NULL /\ UNCHANGED len
       ELSE /\ len' = IF len = 0 THEN NameLen[Effective] ELSE len
            /\ rpc' = "malloc"
            /\ UNCHANGED result
    /\ UNCHANGED <<selFile, chan, rnEnabled, used, freed, wpc, toFree, writes>>

\* Lock, take the selection and its strlen(), unlock; NULL returns NULL.
FirstLock ==
    /\ rpc = "first"
    /\ IF Effective = NULL
       THEN rpc' = "idle" /\ result' = NULL /\ UNCHANGED len
       ELSE len' = NameLen[Effective] /\ rpc' = "malloc" /\ UNCHANGED result
    /\ UNCHANGED <<selFile, chan, rnEnabled, used, freed, wpc, toFree, writes>>

\* malloc(len + 1) with the lock dropped; failure returns NULL.
Malloc ==
    /\ rpc = "malloc"
    /\ \/ rpc' = "second" /\ UNCHANGED result
       \/ rpc' = "idle" /\ result' = NULL
    /\ UNCHANGED <<selFile, chan, rnEnabled, used, freed, wpc, toFree, writes, len>>

\* Relock and re-evaluate: copy and return the selection if it still
\* fits in len + 1 bytes, else free the buffer and go round again.
SecondLock ==
    /\ rpc = "second"
    /\ IF Effective # NULL /\ NameLen[Effective] <= len
       THEN rpc' = "idle" /\ result' = Effective
       ELSE rpc' = "first" /\ UNCHANGED result
    /\ UNCHANGED <<selFile, chan, rnEnabled, used, freed, wpc, toFree, writes, len>>

-----------------------------------------------------------------------------

Next ==
    \/ \E f \in Files : SetSelectedFile(f)
    \/ \E c \in Chans : SetChannel(c)
    \/ WriterFree
    \/ GetStart \/ FirstLock \/ Malloc \/ SecondLock

\* Both threads keep running; the writer's calls are bounded, the reader
\* calls again whenever it likes.
Fairness ==
    /\ WF_vars(WriterFree)
    /\ WF_vars(FirstLock) /\ WF_vars(Malloc) /\ WF_vars(SecondLock)

Spec == Init /\ [][Next]_vars /\ Fairness

-----------------------------------------------------------------------------

TypeOK ==
    /\ selFile \in Files \cup {NULL}
    /\ chan \in Chans \cup {NULL}
    /\ rnEnabled \in BOOLEAN
    /\ used \subseteq Files /\ freed \subseteq used
    /\ wpc \in {"idle", "free"}
    /\ toFree \in Files \cup {NULL}
    /\ writes \in 0..MaxWrites
    /\ rpc \in {"idle", "first", "malloc", "second"}
    /\ len \in Nat
    /\ result \in Strings \cup {NULL}

\* Spec 4.4: the reader's strlen() and strcpy() only touch a string that
\* has not been freed, even though the setters free outside the lock, and
\* strcpy() never writes more than the len + 1 bytes allocated.
ReaderMemorySafe ==
    [][/\ (rpc \in {"first", "second"} /\ rpc' # rpc /\ Effective # NULL)
              => Effective \notin freed
       /\ (rpc = "second" /\ rpc' = "idle") => NameLen[result'] <= len]_vars

\* Spec 4.4: the retry loop ends: once the writer stops changing the
\* selection, conn_get_selected_file() returns.
GetTerminates ==
    rpc = "first" ~> rpc = "idle"

=============================================================================
