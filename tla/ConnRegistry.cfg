\* The registry protocol: borrows, removal and the conn_list bookkeeping.
CONSTANTS
    Clients <- MC_Clients
    Listener = L
    Enumerators = {e1, e2}
    NoConn = NoConn
    MaxEnumerations <- MC_MaxEnumerations
SPECIFICATION Spec
INVARIANT TypeOK
INVARIANT RegistryConsistent
INVARIANT CursorOnList
PROPERTY DestroyCompletes
\* Every connection and every enumeration is bounded, so behaviours end
\* once all threads are done; DestroyCompletes checks nobody is stuck.
CHECK_DEADLOCK FALSE
