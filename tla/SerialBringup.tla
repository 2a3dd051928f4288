---------------------------- MODULE SerialBringup ----------------------------
(***************************************************************************)
(* Bringing up a serial connection: conn_add_serial() and                  *)
(* conn_serial_setparam() of src/nabud/conn.c.  The port is opened, the   *)
(* stop bits default to 2, and the line is configured at the configured   *)
(* rate, or at the NABU-native rate with a fall back to 115200; on        *)
(* success the connection is created with the parameters, on failure the  *)
(* descriptor is closed.  Every system call may fail.  Both builds are     *)
(* covered: with termios2 (Linux) the attributes are set with tcsetattr() *)
(* and the speed afterwards; without it cfsetspeed() and one tcsetattr().  *)
(* The port keeps what a call before a failure applied to it.             *)
(***************************************************************************)
EXTENDS Naturals

CONSTANTS
    Native,      \* NABU_NATIVE_BPS
    Fallback,    \* NABU_FALLBACK_BPS
    Configured,  \* a baud rate given in the configuration
    OldSpeed     \* the speed the port had before it was opened

Speeds == {Native, Fallback, Configured, OldSpeed}

\* The line settings nabud cares about: speed, CSTOPB, CRTSCTS, raw mode.
Lines == [speed : Speeds, cstopb : BOOLEAN, crtscts : BOOLEAN, raw : BOOLEAN]

VARIABLES
    phase,     \* where conn_add_serial() is
    termios2,  \* the build has HAVE_LINUX_TERMIOS2
    args,      \* struct conn_add_args: baud, stop_bits, flow_control
    port,      \* the line settings of the open port
    fdOpen,    \* the descriptor is open
    conn       \* the created connection's baud/stop/flow, or NoSerial

vars == <<phase, termios2, args, port, fdOpen, conn>>

\* No connection has been created.
NoSerial == [baud |-> 0, stop |-> 0, flow |-> FALSE]

Init ==
    /\ phase = "open"
    /\ termios2 \in BOOLEAN
    /\ args \in [baud : {0, Configured}, stop : {0, 1, 2}, flow : BOOLEAN]
    /\ port \in [speed : {OldSpeed}, cstopb : BOOLEAN, crtscts : BOOLEAN, raw : BOOLEAN]
    /\ fdOpen = FALSE
    /\ conn = NoSerial

\* The termios image conn_serial_setparam() builds from tcgetattr():
\* cfmakeraw(), 8 data bits, CSTOPB and CRTSCTS from the arguments.
Raw(t, a) == [t EXCEPT !.raw = TRUE, !.cstopb = (a.stop = 2), !.crtscts = a.flow]

\* Mutant: the termios2 build goes on to return true when
\* conn_serial_setspeed_linux() fails (the goto failed is dropped).
SetParamIgnoreSpeedFail(p, a, linux) ==
    LET t == Raw(p, a)
    IN  IF linux
        THEN {<<FALSE, p>>, <<TRUE, t>>, <<TRUE, [t EXCEPT !.speed = a.baud]>>}
        ELSE {<<FALSE, p>>, <<TRUE, [t EXCEPT !.speed = a.baud]>>}

\* conn_serial_setparam(fd, args) on a port with settings p: the pairs
\* <<returned, settings afterwards>> its failure points allow.
conn_serial_setparam(p, a, linux) ==
    LET t == Raw(p, a)
    IN  IF linux
        THEN \* tcgetattr or tcsetattr fails; setspeed fails; success
             {<<FALSE, p>>, <<FALSE, t>>, <<TRUE, [t EXCEPT !.speed = a.baud]>>}
        ELSE \* tcgetattr, cfsetspeed or tcsetattr fails; success
             {<<FALSE, p>>, <<TRUE, [t EXCEPT !.speed = a.baud]>>}

-----------------------------------------------------------------------------

\* Mutant: the stop bits are left at 0 when the configuration gives none.
OpenPortNoStopDefault ==
    /\ phase = "open"
    /\ \/ phase' = "done" /\ UNCHANGED <<args, fdOpen>>
       \/ /\ fdOpen' = TRUE
          /\ args' = [args EXCEPT !.baud = IF @ = 0 THEN Native ELSE @]
          /\ phase' = IF args.baud # 0 THEN "configured" ELSE "native"
    /\ UNCHANGED <<termios2, port, conn>>

\* open() the port; on success default the stop bits to 2 and choose the
\* configured rate or the native one.
OpenPort ==
    /\ phase = "open"
    /\ \/ phase' = "done" /\ UNCHANGED <<args, fdOpen>>
       \/ /\ fdOpen' = TRUE
          /\ args' = [args EXCEPT !.stop = IF @ = 0 THEN 2 ELSE @,
                                  !.baud = IF @ = 0 THEN Native ELSE @]
          /\ phase' = IF args.baud # 0 THEN "configured" ELSE "native"
    /\ UNCHANGED <<termios2, port, conn>>

\* One call of conn_serial_setparam() and what conn_add_serial() does
\* with its result: create on success; on a failed native rate retry at
\* the fallback rate; otherwise goto bad.
SetParam ==
    /\ phase \in {"configured", "native", "fallback"}
    /\ \E r \in conn_serial_setparam(port, args, termios2) :
          /\ port' = r[2]
          /\ IF r[1] THEN phase' = "create" /\ UNCHANGED args
             ELSE IF phase = "native"
             THEN phase' = "fallback" /\ args' = [args EXCEPT !.baud = Fallback]
             ELSE phase' = "bad" /\ UNCHANGED args
    /\ UNCHANGED <<termios2, fdOpen, conn>>

\* conn_create_common(): the connection takes baud, stop bits and flow
\* control from args; if it fails it is destroyed, closing the endpoint.
Create ==
    /\ phase = "create"
    /\ \/ conn' = [baud |-> args.baud, stop |-> args.stop, flow |-> args.flow]
          /\ UNCHANGED fdOpen
       \/ fdOpen' = FALSE /\ UNCHANGED conn
    /\ phase' = "done"
    /\ UNCHANGED <<termios2, args, port>>

\* Mutant: the failure path returns without close(fd).
BadNoClose ==
    /\ phase = "bad"
    /\ phase' = "done"
    /\ UNCHANGED <<termios2, args, port, fdOpen, conn>>

\* bad: close(fd).
Bad ==
    /\ phase = "bad"
    /\ fdOpen' = FALSE
    /\ phase' = "done"
    /\ UNCHANGED <<termios2, args, port, conn>>

Next == OpenPort \/ SetParam \/ Create \/ Bad

Spec == Init /\ [][Next]_vars /\ WF_vars(Next)

-----------------------------------------------------------------------------

TypeOK ==
    /\ phase \in {"open", "configured", "native", "fallback", "create", "bad", "done"}
    /\ args \in [baud : {0} \cup Speeds, stop : {0, 1, 2}, flow : BOOLEAN]
    /\ port \in Lines
    /\ fdOpen \in BOOLEAN
    /\ conn \in {NoSerial} \cup [baud : Speeds, stop : {1, 2}, flow : BOOLEAN]

\* A created serial connection records the line the port really runs:
\* its speed, CSTOPB for 2 stop bits, CRTSCTS for flow control, raw mode,
\* on either build and after any failed first attempt.
PortMatchesConnection ==
    conn # NoSerial =>
        port = [speed |-> conn.baud, cstopb |-> (conn.stop = 2),
                crtscts |-> conn.flow, raw |-> TRUE]

\* Bring-up ends, and when it has ended the descriptor is open exactly when
\* a connection owns it.
BringupEnds ==
    <>[](phase = "done" /\ (fdOpen <=> conn # NoSerial))

=============================================================================
