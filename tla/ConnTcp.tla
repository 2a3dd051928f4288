------------------------------- MODULE ConnTcp -------------------------------
(***************************************************************************)
(* TCP connections in src/nabud/conn.c and who owns what they allocate.   *)
(* conn_add_tcp() walks getaddrinfo()'s list and, for every address that  *)
(* it can socket(), bind() and listen() on, creates a listener connection *)
(* with conn_create_common() from the same args.  Each listener thread,   *)
(* conn_tcp_thread(), accepts clients and seeds each new connection with  *)
(* a strdup() of its file_root, a copy of its selected file and a         *)
(* strdup() of the peer's name; the client's worker later calls           *)
(* conn_destroy().  Every allocation is an object of a table that says    *)
(* whether it is live or freed; a free of a dead object or a read of a    *)
(* freed one is recorded in errors.                                       *)
(***************************************************************************)
EXTENDS Naturals

CONSTANTS
    NumAddrs,   \* entries getaddrinfo() returns (IPv4, IPv6, ...)
    Clients,    \* peers that connect
    Ports,      \* port numbers strtol() may yield from the configuration
    NULL        \* a NULL pointer

Addrs == 1..NumAddrs

\* conn_add_tcp()'s progress: before getaddrinfo(), at an address, returned.
Start == 0
Done == NumAddrs + 1

\* The configuration's file_root string, handed to conn_add_tcp() in args.
CfgRoot == <<"cfgroot", 0>>

\* A listener's socket, name and structure; a client's socket, name,
\* file_root copy, selected-file copy and structure.
ListenerObjs(a) == {<<k, a>> : k \in {"lsock", "lname", "lconn"}}
ClientObjs(c) == {<<k, c>> : k \in {"sock", "name", "root", "sel", "conn"}}
Objs == {CfgRoot} \cup UNION {ListenerObjs(a) : a \in Addrs}
                  \cup UNION {ClientObjs(c) : c \in Clients}

VARIABLES
    mpc,       \* conn_add_tcp(): Start, the address being tried, Done
    lpc,       \* each listener thread: "none", "accept", "spawn", "dead"
    cur,       \* the client a listener has just accepted
    cstate,    \* each client: "new", "accepted", "running", "done"
    mem,       \* each object: "none" (not allocated), "live", "freed"
    errors,    \* <<"free", o>> or <<"read", o>> memory errors so far
    hasRoot,   \* the configuration gives a file_root
    hasSel     \* the listener has a selection conn_get_selected_file() copies

vars == <<mpc, lpc, cur, cstate, mem, errors, hasRoot, hasSel>>

Init ==
    /\ mpc = Start
    /\ lpc = [a \in Addrs |-> "none"]
    /\ cur = [a \in Addrs |-> NULL]
    /\ cstate = [c \in Clients |-> "new"]
    /\ hasRoot \in BOOLEAN
    /\ hasSel \in BOOLEAN
    /\ mem = [o \in Objs |-> IF o = CfgRoot /\ hasRoot THEN "live" ELSE "none"]
    /\ errors = {}

\* One step's effect on the heap: allocate A, free F, read R.  Freeing
\* what is not live, or reading what is freed, is an error.
MemStep(A, F, R) ==
    /\ mem' = [o \in Objs |-> IF o \in F THEN "freed"
                              ELSE IF o \in A THEN "live" ELSE mem[o]]
    /\ errors' = errors \cup {<<"free", o>> : o \in {x \in F \ A : mem[x] # "live"}}
                        \cup {<<"read", o>> : o \in {x \in R : mem[x] = "freed"}}

\* The objects a pointer set holds: those of S that were allocated.
Held(S) == {o \in S : mem[o] # "none"}

\* The listener's conn->file_root: args->file_root, the configuration's.
RootOf == IF hasRoot THEN {CfgRoot} ELSE {}

\* conn_destroy() of listener a: free(conn->file_root), the endpoint
\* (conn_io_fini closes the socket and frees the name), free(conn).
DestroyListener(a) == ListenerObjs(a) \cup RootOf

\* conn_destroy() of client c: the same, with the client's own strings.
\* l_selected_file is not among them.
DestroyClient(c) == {<<"conn", c>>, <<"sock", c>>, <<"name", c>>, <<"root", c>>}

-----------------------------------------------------------------------------
(* conn_add_tcp().                                                        *)

\* strtol() the port and check 1..UINT16_MAX, then getaddrinfo().
AddTcp ==
    /\ mpc = Start
    /\ \E port \in Ports :
          IF port < 1 \/ port > 65535 THEN mpc' = Done
          ELSE mpc' \in {Done, 1}
    /\ UNCHANGED <<lpc, cur, cstate, mem, errors, hasRoot, hasSel>>

\* Mutant: a socket whose bind() or listen() failed is not closed.
SetupAddrNoClose(a) ==
    /\ mpc = a
    /\ \E outcome \in {"socket", "bind", "calloc", "io", "ok"}, named \in BOOLEAN :
         LET sock == {<<"lsock", a>>}
             made == CASE outcome = "socket" -> {}
                       [] outcome = "bind"   -> sock
                       [] outcome = "calloc" -> sock \cup (IF named THEN {<<"lname", a>>} ELSE {})
                       [] OTHER -> sock \cup {<<"lconn", a>>} \cup (IF named THEN {<<"lname", a>>} ELSE {})
             gone == CASE outcome = "calloc" -> sock
                       [] outcome = "io"     -> made \cup RootOf
                       [] OTHER -> {}
         IN /\ MemStep(made, gone, {})
            /\ lpc' = [lpc EXCEPT ![a] = IF outcome = "ok" THEN "accept" ELSE "none"]
    /\ mpc' = a + 1
    /\ UNCHANGED <<cur, cstate, hasRoot, hasSel>>

\* One address: socket() fails; bind() or listen() fails and the socket
\* is closed; or conn_create_common(strdup(name), sock, args, ...) with
\* the same args for every address: calloc() fails and the socket is
\* closed (the name is not freed), conn_io_init() or conn_io_start()
\* fails and conn_destroy() runs, or the listener starts.  strdup(name)
\* may return NULL.
SetupAddr(a) ==
    /\ mpc = a
    /\ \E outcome \in {"socket", "bind", "calloc", "io", "ok"}, named \in BOOLEAN :
         LET sock == {<<"lsock", a>>}
             made == CASE outcome = "socket" -> {}
                       [] outcome = "bind"   -> sock
                       [] outcome = "calloc" -> sock \cup (IF named THEN {<<"lname", a>>} ELSE {})
                       [] OTHER -> sock \cup {<<"lconn", a>>} \cup (IF named THEN {<<"lname", a>>} ELSE {})
             gone == CASE outcome \in {"bind", "calloc"} -> sock
                       [] outcome = "io"     -> made \cup RootOf
                       [] OTHER -> {}
         IN /\ MemStep(made, gone, {})
            /\ lpc' = [lpc EXCEPT ![a] = IF outcome = "ok" THEN "accept" ELSE "none"]
    /\ mpc' = a + 1
    /\ UNCHANGED <<cur, cstate, hasRoot, hasSel>>

-----------------------------------------------------------------------------
(* conn_tcp_thread() of listener a, and the clients' workers.              *)

\* conn_io_accept(): a client's socket, or an error that ends the loop
\* and destroys the listener.
Accept(a) ==
    /\ lpc[a] = "accept"
    /\ \/ /\ lpc' = [lpc EXCEPT ![a] = "dead"]
          /\ MemStep({}, Held(DestroyListener(a)), {})
          /\ UNCHANGED <<cur, cstate>>
       \/ \E c \in Clients :
             /\ cstate[c] = "new"
             /\ cstate' = [cstate EXCEPT ![c] = "accepted"]
             /\ cur' = [cur EXCEPT ![a] = c]
             /\ lpc' = [lpc EXCEPT ![a] = "spawn"]
             /\ MemStep({<<"sock", c>>}, {}, {})
    /\ UNCHANGED <<mpc, hasRoot, hasSel>>

\* The rest of the loop body: getnameinfo() fails and the socket is
\* closed; or the args are seeded (strdup(conn->file_root), which reads
\* the listener's file_root, conn_get_selected_file() and strdup(host),
\* each of which may yield NULL) and conn_create_common() runs: calloc()
\* fails and only the socket is closed; conn_io_init() fails (before the
\* selection is stored) or conn_io_start() fails, and conn_destroy()
\* runs; or the worker starts.
Spawn(a) ==
    /\ lpc[a] = "spawn"
    /\ LET c == cur[a]
           sock == {<<"sock", c>>}
       IN \/ /\ MemStep({}, sock, {})
             /\ cstate' = [cstate EXCEPT ![c] = "done"]
          \/ \E root \in IF hasRoot THEN BOOLEAN ELSE {FALSE},
                sel \in IF hasSel THEN BOOLEAN ELSE {FALSE},
                named \in BOOLEAN,
                outcome \in {"calloc", "io_init", "io_start", "ok"} :
               LET strs == (IF root THEN {<<"root", c>>} ELSE {})
                           \cup (IF sel THEN {<<"sel", c>>} ELSE {})
                           \cup (IF named THEN {<<"name", c>>} ELSE {})
                   made == strs \cup (IF outcome = "calloc" THEN {} ELSE {<<"conn", c>>})
                   gone == CASE outcome = "calloc" -> sock
                             [] outcome = "ok"     -> {}
                             [] OTHER -> sock \cup (made \cap DestroyClient(c))
               IN /\ MemStep(made, gone, RootOf)
                  /\ cstate' = [cstate EXCEPT ![c] = IF outcome = "ok" THEN "running"
                                                     ELSE "done"]
    /\ lpc' = [lpc EXCEPT ![a] = "accept"]
    /\ UNCHANGED <<mpc, cur, hasRoot, hasSel>>

\* conn_thread(): the adaptor loop returns and conn_destroy() runs.
WorkerExit(c) ==
    /\ cstate[c] = "running"
    /\ cstate' = [cstate EXCEPT ![c] = "done"]
    /\ MemStep({}, Held(DestroyClient(c)), {})
    /\ UNCHANGED <<mpc, lpc, cur, hasRoot, hasSel>>

Next ==
    \/ AddTcp
    \/ \E a \in Addrs : SetupAddr(a) \/ Accept(a) \/ Spawn(a)
    \/ \E c \in Clients : WorkerExit(c)

Spec == Init /\ [][Next]_vars

-----------------------------------------------------------------------------

TypeOK ==
    /\ mpc \in Start..Done
    /\ lpc \in [Addrs -> {"none", "accept", "spawn", "dead"}]
    /\ cur \in [Addrs -> Clients \cup {NULL}]
    /\ cstate \in [Clients -> {"new", "accepted", "running", "done"}]
    /\ mem \in [Objs -> {"none", "live", "freed"}]
    /\ errors \subseteq {"free", "read"} \X Objs
    /\ hasRoot \in BOOLEAN /\ hasSel \in BOOLEAN

\* Nothing is running: conn_add_tcp() has returned, every listener has
\* died or never started, and every accepted client has been destroyed.
Quiescent ==
    /\ mpc = Done
    /\ \A a \in Addrs : lpc[a] \in {"none", "dead"}
    /\ \A c \in Clients : cstate[c] \in {"new", "done"}

Sockets == {<<k, x>> \in Objs : k \in {"sock", "lsock"}}

\* Every socket conn_add_tcp() or a listener opens is closed again, on
\* the failure paths of socket set-up, getnameinfo() and connection
\* creation, and when listeners and workers end.
SocketsReleased ==
    Quiescent => \A s \in Sockets : mem[s] # "live"

\* Spec 4.4 and 3 (a connection owns its file_root): the heap is used
\* safely: nothing is freed twice and nothing freed is read, across all
\* the listeners conn_add_tcp() creates from one args.
NoMemoryErrors ==
    errors = {}

\* Spec 3, lifecycle: once a client's connection is gone, whether it ran
\* and was destroyed or conn_create_common() failed part-way, nothing
\* allocated for it is left: its name, its file_root copy and its
\* selected-file copy.
ClientStringsReleased ==
    \A c \in Clients : cstate[c] = "done" => \A o \in ClientObjs(c) : mem[o] # "live"

=============================================================================
