\* Both builds, every argument combination, every failure point.
CONSTANTS
    Native = 111860
    Fallback = 115200
    Configured = 9600
    OldSpeed = 300
SPECIFICATION Spec
INVARIANT TypeOK
INVARIANT PortMatchesConnection
PROPERTY BringupEnds
\* conn_add_serial() returns: every behaviour stops in phase "done".
CHECK_DEADLOCK FALSE
