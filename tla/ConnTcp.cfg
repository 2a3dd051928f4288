\* Two addresses (IPv4 and IPv6), two clients, valid and invalid ports.
CONSTANTS
    NumAddrs = 2
    Clients = {c1, c2}
    Ports = {0, 1, 65535, 65536}
    NULL = NULL
SPECIFICATION Spec
INVARIANT SocketsReleased
\* conn_add_tcp() returns and every thread may end: a run can stop.
CHECK_DEADLOCK FALSE
