---------------------------- MODULE ConnRegistry ----------------------------
(***************************************************************************)
(* The connection registry of nabud (src/nabud/conn.c): the global        *)
(* conn_list guarded by conn_list_mutex, the per-connection on_list flag  *)
(* and enum_count borrow counter, the condition variable conn_list_enum_cv *)
(* on which conn_remove() waits, and the threads that use them:           *)
(*   - the TCP listener thread (conn_tcp_thread) that accepts clients and *)
(*     creates a connection for each with conn_create_common();           *)
(*   - one worker thread per connection (conn_thread) that runs the       *)
(*     adaptor loop and then destroys its connection;                      *)
(*   - administrative enumerators calling conn_enumerate().                *)
(* Every critical section of conn_list_mutex is one atomic step; a thread *)
(* that blocks in pthread_cond_wait() is in wpc "wait" until a broadcast. *)
(***************************************************************************)
EXTENDS Naturals, Sequences, SequencesExt, FiniteSets

CONSTANTS
    Clients,          \* connections the listener may accept (model values)
    Listener,         \* the listener's own connection
    Enumerators,      \* threads that call conn_enumerate()
    NoConn,           \* the NULL connection pointer
    MaxEnumerations   \* bound on conn_enumerate() calls per enumerator

ASSUME /\ Listener \notin Clients
       /\ NoConn \notin Clients \cup {Listener}
       /\ MaxEnumerations \in Nat

Conns == Clients \cup {Listener}

VARIABLES
    connList,   \* conn_list, in TAILQ order
    connCount,  \* conn_count
    onList,     \* conn->on_list
    enumCount,  \* conn->enum_count
    mem,        \* the connection structure: "unalloc", "live" or "freed"
    wpc,        \* where each connection's thread is
    pending,    \* the client the listener started but has not inserted yet
    epc,        \* "idle" or "callback" (inside func() of conn_enumerate)
    cursor,     \* the conn an enumerator has borrowed
    enumsDone,  \* enumerations completed by each enumerator
    snap,       \* history: connections on the list when this enumeration began
    visited,    \* history: connections handed to func() in this enumeration
    finished    \* history: the last enumeration walked to the end of the list

regVars == <<connList, connCount, onList, enumCount, mem, wpc, pending>>
enumVars == <<epc, cursor, enumsDone, snap, visited, finished>>
vars == <<regVars, enumVars>>

ThreadStates == {"none", "loop", "destroy", "remove", "wait", "free", "done"}

\* TAILQ_NEXT(conn, link): the successor of c on conn_list, or NULL.
NextConn(c) ==
    LET i == CHOOSE j \in 1..Len(connList) + 1 :
                 j = Len(connList) + 1 \/ connList[j] = c
    IN  IF i < Len(connList) THEN connList[i + 1] ELSE NoConn

\* pthread_cond_broadcast(&conn_list_enum_cv): every waiter re-checks.
Broadcast == [t \in Conns |-> IF wpc[t] = "wait" THEN "remove" ELSE wpc[t]]

Init ==
    \* conn_add_tcp() has created and inserted the listener, whose thread
    \* is in its accept loop; no client has been accepted yet.
    /\ connList = <<Listener>>
    /\ connCount = 1
    /\ onList = [c \in Conns |-> c = Listener]
    /\ enumCount = [c \in Conns |-> 0]
    /\ mem = [c \in Conns |-> IF c = Listener THEN "live" ELSE "unalloc"]
    /\ wpc = [c \in Conns |-> IF c = Listener THEN "loop" ELSE "none"]
    /\ pending = NoConn
    /\ epc = [e \in Enumerators |-> "idle"]
    /\ cursor = [e \in Enumerators |-> NoConn]
    /\ enumsDone = [e \in Enumerators |-> 0]
    /\ snap = [e \in Enumerators |-> {}]
    /\ visited = [e \in Enumerators |-> {}]
    /\ finished = [e \in Enumerators |-> FALSE]

-----------------------------------------------------------------------------
(* The listener thread: conn_tcp_thread() and conn_create_common().       *)

\* An accept that fails before the worker starts: getnameinfo() or calloc()
\* fails (nothing allocated), or conn_io_init()/conn_io_start() fails and
\* conn_destroy() frees the never-listed structure at once.
AcceptFails(c) ==
    /\ wpc[Listener] = "loop"
    /\ pending = NoConn
    /\ mem[c] = "unalloc"
    /\ mem' = [mem EXCEPT ![c] = "freed"]
    /\ UNCHANGED <<connList, connCount, onList, enumCount, wpc, pending, enumVars>>

\* conn_create_common() up to conn_io_start(): the connection's worker is
\* running before conn_insert() is called.
AcceptStart(c) ==
    /\ wpc[Listener] = "loop"
    /\ pending = NoConn
    /\ mem[c] = "unalloc"
    /\ mem' = [mem EXCEPT ![c] = "live"]
    /\ wpc' = [wpc EXCEPT ![c] = "loop"]
    /\ pending' = c
    /\ UNCHANGED <<connList, connCount, onList, enumCount, enumVars>>

\* conn_insert(): link at the tail, set on_list, bump conn_count.
conn_insert ==
    /\ pending # NoConn
    /\ connList' = Append(connList, pending)
    /\ onList' = [onList EXCEPT ![pending] = TRUE]
    /\ connCount' = connCount + 1
    /\ pending' = NoConn
    /\ UNCHANGED <<enumCount, mem, wpc, enumVars>>

\* conn_io_accept() fails: the listener leaves its loop to destroy itself.
ListenerExit ==
    /\ wpc[Listener] = "loop"
    /\ pending = NoConn
    /\ wpc' = [wpc EXCEPT ![Listener] = "destroy"]
    /\ UNCHANGED <<connList, connCount, onList, enumCount, mem, pending, enumVars>>

-----------------------------------------------------------------------------
(* A connection's thread: conn_thread() and conn_destroy().               *)

\* adaptor_event_loop() returns: the client closed or the endpoint aborted.
ClientExit(c) ==
    /\ wpc[c] = "loop"
    /\ wpc' = [wpc EXCEPT ![c] = "destroy"]
    /\ UNCHANGED <<connList, connCount, onList, enumCount, mem, pending, enumVars>>

\* conn_remove() reads on_list without holding conn_list_mutex.
DestroyBegin(t) ==
    /\ wpc[t] = "destroy"
    /\ wpc' = [wpc EXCEPT ![t] = IF onList[t] THEN "remove" ELSE "free"]
    /\ UNCHANGED <<connList, connCount, onList, enumCount, mem, pending, enumVars>>

\* conn_remove() with the lock held and enum_count != 0: cond_wait.
RemoveWait(t) ==
    /\ wpc[t] = "remove"
    /\ enumCount[t] # 0
    /\ wpc' = [wpc EXCEPT ![t] = "wait"]
    /\ UNCHANGED <<connList, connCount, onList, enumCount, mem, pending, enumVars>>

\* Mutant: conn_remove() without its while (enum_count != 0) wait.
RemoveUnlinkNoWait(t) ==
    /\ wpc[t] = "remove"
    /\ connList' = Remove(connList, t)
    /\ onList' = [onList EXCEPT ![t] = FALSE]
    /\ connCount' = connCount - 1
    /\ wpc' = [wpc EXCEPT ![t] = "free"]
    /\ UNCHANGED <<enumCount, mem, pending, enumVars>>

\* Mutant: conn_remove() unlinks but leaves on_list set.
RemoveUnlinkKeepFlag(t) ==
    /\ wpc[t] = "remove"
    /\ enumCount[t] = 0
    /\ connList' = Remove(connList, t)
    /\ connCount' = connCount - 1
    /\ wpc' = [wpc EXCEPT ![t] = "free"]
    /\ UNCHANGED <<onList, enumCount, mem, pending, enumVars>>

\* conn_remove() with the lock held and enum_count == 0: unlink.
RemoveUnlink(t) ==
    /\ wpc[t] = "remove"
    /\ enumCount[t] = 0
    /\ connList' = Remove(connList, t)
    /\ onList' = [onList EXCEPT ![t] = FALSE]
    /\ connCount' = connCount - 1
    /\ wpc' = [wpc EXCEPT ![t] = "free"]
    /\ UNCHANGED <<enumCount, mem, pending, enumVars>>

\* The rest of conn_destroy(): drop the last image, conn_reboot(),
\* conn_io_fini() and free(conn).
Free(t) ==
    /\ wpc[t] = "free"
    /\ mem' = [mem EXCEPT ![t] = "freed"]
    /\ wpc' = [wpc EXCEPT ![t] = "done"]
    /\ UNCHANGED <<connList, connCount, onList, enumCount, pending, enumVars>>

-----------------------------------------------------------------------------
(* conn_enumerate().                                                      *)

\* Lock, take the first conn, bump its enum_count, unlock, call func().
EnumStart(e) ==
    /\ epc[e] = "idle"
    /\ enumsDone[e] < MaxEnumerations
    /\ connList # <<>>
    /\ cursor' = [cursor EXCEPT ![e] = Head(connList)]
    /\ enumCount' = [enumCount EXCEPT ![Head(connList)] = @ + 1]
    /\ epc' = [epc EXCEPT ![e] = "callback"]
    /\ snap' = [snap EXCEPT ![e] = ToSet(connList)]
    /\ visited' = [visited EXCEPT ![e] = {Head(connList)}]
    /\ UNCHANGED <<connList, connCount, onList, mem, wpc, pending, enumsDone, finished>>

\* Mutant: the loop advances to TAILQ_NEXT before dropping the borrow, so
\* the decrement hits the successor.
EnumReturnSwapped(e, rv) ==
    LET nxt == IF rv THEN NextConn(cursor[e]) ELSE NoConn
        tgt == IF nxt = NoConn THEN cursor[e] ELSE nxt
    IN  /\ epc[e] = "callback"
        /\ wpc' = Broadcast
        /\ enumCount' = [enumCount EXCEPT ![tgt] = @ - 1]
        /\ IF nxt = NoConn
           THEN /\ epc' = [epc EXCEPT ![e] = "idle"]
                /\ cursor' = [cursor EXCEPT ![e] = NoConn]
                /\ enumsDone' = [enumsDone EXCEPT ![e] = @ + 1]
                /\ finished' = [finished EXCEPT ![e] = rv]
                /\ snap' = [snap EXCEPT ![e] = {}]
                /\ visited' = [visited EXCEPT ![e] = {}]
           ELSE /\ cursor' = [cursor EXCEPT ![e] = nxt]
                /\ visited' = [visited EXCEPT ![e] = @ \cup {nxt}]
                /\ UNCHANGED <<epc, enumsDone, finished, snap>>
        /\ UNCHANGED <<connList, connCount, onList, mem, pending>>

\* Mutant: conn_enumerate() drops the borrow without the broadcast.
EnumReturnNoBroadcast(e, rv) ==
    LET c   == cursor[e]
        nxt == IF rv THEN NextConn(c) ELSE NoConn
        dec == [enumCount EXCEPT ![c] = @ - 1]
    IN  /\ epc[e] = "callback"
        /\ IF nxt = NoConn
           THEN /\ enumCount' = dec
                /\ epc' = [epc EXCEPT ![e] = "idle"]
                /\ cursor' = [cursor EXCEPT ![e] = NoConn]
                /\ enumsDone' = [enumsDone EXCEPT ![e] = @ + 1]
                /\ finished' = [finished EXCEPT ![e] = rv]
                /\ snap' = [snap EXCEPT ![e] = {}]
                /\ visited' = [visited EXCEPT ![e] = {}]
           ELSE /\ enumCount' = [dec EXCEPT ![nxt] = @ + 1]
                /\ cursor' = [cursor EXCEPT ![e] = nxt]
                /\ visited' = [visited EXCEPT ![e] = @ \cup {nxt}]
                /\ UNCHANGED <<epc, enumsDone, finished, snap>>
        /\ UNCHANGED <<connList, connCount, onList, mem, pending, wpc>>

\* func() returns rv; relock, drop the borrow, broadcast, then stop if rv
\* is false or the list ends, else borrow TAILQ_NEXT and unlock.
EnumReturn(e, rv) ==
    LET c   == cursor[e]
        nxt == IF rv THEN NextConn(c) ELSE NoConn
        dec == [enumCount EXCEPT ![c] = @ - 1]
    IN  /\ epc[e] = "callback"
        /\ wpc' = Broadcast
        /\ IF nxt = NoConn
           THEN /\ enumCount' = dec
                /\ epc' = [epc EXCEPT ![e] = "idle"]
                /\ cursor' = [cursor EXCEPT ![e] = NoConn]
                /\ enumsDone' = [enumsDone EXCEPT ![e] = @ + 1]
                /\ finished' = [finished EXCEPT ![e] = rv]
                /\ snap' = [snap EXCEPT ![e] = {}]
                /\ visited' = [visited EXCEPT ![e] = {}]
           ELSE /\ enumCount' = [dec EXCEPT ![nxt] = @ + 1]
                /\ cursor' = [cursor EXCEPT ![e] = nxt]
                /\ visited' = [visited EXCEPT ![e] = @ \cup {nxt}]
                /\ UNCHANGED <<epc, enumsDone, finished, snap>>
        /\ UNCHANGED <<connList, connCount, onList, mem, pending>>

-----------------------------------------------------------------------------

Next ==
    \/ \E c \in Clients : AcceptFails(c) \/ AcceptStart(c) \/ ClientExit(c)
    \/ conn_insert
    \/ ListenerExit
    \/ \E t \in Conns : DestroyBegin(t) \/ RemoveWait(t) \/ RemoveUnlink(t) \/ Free(t)
    \/ \E e \in Enumerators : EnumStart(e) \/ \E rv \in BOOLEAN : EnumReturn(e, rv)

\* Fairness: a thread that has left its loop keeps running conn_destroy();
\* the listener calls conn_insert() right after conn_io_start(); func()
\* returns.  Clients, the listener's accept errors and enumeration requests
\* are the environment and need not happen.
Fairness ==
    /\ WF_vars(conn_insert)
    /\ \A t \in Conns : WF_vars(DestroyBegin(t)) /\ WF_vars(RemoveWait(t))
                        /\ WF_vars(RemoveUnlink(t)) /\ WF_vars(Free(t))
    /\ \A e \in Enumerators : WF_vars(\E rv \in BOOLEAN : EnumReturn(e, rv))

Spec == Init /\ [][Next]_vars /\ Fairness

-----------------------------------------------------------------------------

TypeOK ==
    /\ connList \in Seq(Conns)
    /\ connCount \in Nat
    /\ onList \in [Conns -> BOOLEAN]
    /\ enumCount \in [Conns -> Nat]
    /\ mem \in [Conns -> {"unalloc", "live", "freed"}]
    /\ wpc \in [Conns -> ThreadStates]
    /\ pending \in Clients \cup {NoConn}
    /\ epc \in [Enumerators -> {"idle", "callback"}]
    /\ cursor \in [Enumerators -> Conns \cup {NoConn}]
    /\ enumsDone \in [Enumerators -> 0..MaxEnumerations]

\* Spec invariant 1 and the bookkeeping of conn_insert()/conn_remove(): a
\* conn is linked at most once, exactly when its on_list flag is set, and
\* conn_count counts the links, whatever the threads interleave.
RegistryConsistent ==
    /\ \A c \in Conns : onList[c] <=> Contains(connList, c)
    /\ Len(connList) = Cardinality(ToSet(connList))
    /\ connCount = Len(connList)

\* conn_enumerate() follows TAILQ_NEXT of the borrowed conn after it
\* relocks: that is only sound if the conn is still linked, i.e. no
\* conn_remove() unlinked it while func() ran.
CursorOnList ==
    \A e \in Enumerators :
        epc[e] = "callback" => Contains(connList, cursor[e])

\* Spec 8.4: no connection is freed by conn_destroy() while an enumerator
\* holds a borrow on it (func() may dereference it until it returns).
BorrowedNotFreed ==
    [][\A c \in Conns :
          (mem[c] = "live" /\ mem'[c] = "freed") => enumCount[c] = 0]_vars

\* A thread that enters conn_destroy() eventually finishes it: a remover
\* blocked on conn_list_enum_cv is always woken once borrows drop to zero.
DestroyCompletes ==
    \A t \in Conns : wpc[t] = "destroy" ~> wpc[t] = "done"

\* Spec 8.4: conn_enumerate() passes to func() every connection that was
\* on the list when it first took the lock (checked at the step in which a
\* walk reaches the end of the list).
EnumerateSeesAllLive ==
    [][\A e \in Enumerators :
          (epc[e] = "callback" /\ epc'[e] = "idle" /\ finished'[e])
              => snap[e] \subseteq visited[e]]_vars

=============================================================================
