CONSTANTS
    Clients <- MC_Clients
    Listener = L
    Enumerators = {e1, e2}
    NoConn = NoConn
    MaxEnumerations <- MC_MaxEnumerations
SPECIFICATION Spec
PROPERTY EnumerateSeesAllLive
CHECK_DEADLOCK FALSE
