----------------------------- MODULE AdaptorLoop -----------------------------
(***************************************************************************)
(* One connection's worker running adaptor_event_loop() of                 *)
(* src/nabud/adaptor.c against an arbitrary NABU client, then              *)
(* conn_destroy() of src/nabud/conn.c.  Each receive of the loop or of a   *)
(* handler is one step whose outcome is chosen by the client: the bytes it *)
(* sends, a watchdog timeout (only while the watchdog is armed), or the    *)
(* endpoint closing.  Sends never block and are recorded in "out", the     *)
(* reply to the current request.  The image loader, the RetroNet and NHACP *)
(* handlers and the byte I/O layer are not under src/; they are modelled   *)
(* from the spec (sections 4.1, 4.3 and 6).                                *)
(***************************************************************************)
EXTENDS Naturals, Sequences, Framing

CONSTANTS
    Channels,       \* channels that image_channel_select() can find
    PakChannels,    \* those of type IMAGE_CHANNEL_PAK
    BadChannel,     \* a channel code that names no channel
    NoChannel,      \* l_channel == NULL
    Images,         \* image numbers the loader has in every channel
    ImageLength,    \* their lengths in bytes
    MissingImage,   \* an image number image_load() cannot find
    TimeImage,      \* NABU_IMAGE_TIME
    NoImage,        \* a NULL image pointer
    MaxSegment      \* segment numbers requested are 0..MaxSegment

ASSUME /\ PakChannels \subseteq Channels
       /\ ImageLength \in [Images -> Nat]

\* adaptor_msg_types[]: the classic handlers, at HANDLER_INDEX(opcode) + 1
\* (opcodes 0x80 to 0x85), and adaptor_msg_type_count.
adaptor_msg_types == <<"RESET", "MYSTERY", "GET_STATUS", "START_UP",
                       "PACKET_REQUEST", "CHANGE_CHANNEL">>
adaptor_msg_type_count == Len(adaptor_msg_types)

\* Spec 4.7: classic opcodes are 0x80 to 0xEF, indexed from the first.
NABU_MSG_CLASSIC_FIRST == 128
NABU_MSG_IS_CLASSIC(b) == b \in 128..239

\* The request bytes a client sends: every opcode of the table, 0x86 (the
\* index just past it), 0x8F (an unknown classic opcode, spec S6) and
\* 0xF0 (not classic, offered to RetroNet and NHACP).
Opcodes == (128..134) \cup {143, 240}

StatusTypes == {"SIGNAL", "TRANSMIT", "Other"}

\* How a receive inside a request fails: conn_recv() times out on the
\* watchdog, or the peer closes and the endpoint is aborted.
Failures == {"timeout", "closed"}

Segments == 0..MaxSegment

\* An image object held by the worker or cached in l_last_image.
ImageObjs == [id : Images, pak : BOOLEAN]

VARIABLES
    pc,          \* where the worker is
    msg,         \* the opcode of the current (or last) request
    watchdog,    \* conn_start_watchdog() in force
    aborted,     \* the endpoint state is CONN_STATE_ABORTED
    channel,     \* l_channel
    lastImage,   \* l_last_image
    img,         \* the image adaptor_msg_packet_request() holds
    isLast,      \* the value adaptor_send_image() will return
    liveImages,  \* image objects loaded and not yet released
    retronet,    \* conn->retronet != NULL
    nhacp,       \* ! LIST_EMPTY(&conn->nhacp_sessions)
    out,         \* what the worker sent for the current request
    ackPos,      \* adaptor_expect_sequence()'s i: the ACK byte awaited next
    ackRcvd      \* history: the bytes adaptor_expect_ack() read this request

vars == <<pc, msg, watchdog, aborted, channel, lastImage, img, isLast,
          liveImages, retronet, nhacp, out, ackPos, ackRcvd>>

InRequest == {"mystery_recv", "status_recv", "pkt_recv", "pkt_ack",
              "unauth_ack", "chan_recv"}
States == {"idle", "destroy", "done", "crashed"} \cup InRequest

Init ==
    \* conn_create_common(): a channel may have been configured.
    /\ pc = "idle"
    /\ msg = 0
    /\ watchdog = FALSE
    /\ aborted = FALSE
    /\ channel \in Channels \cup {NoChannel}
    /\ lastImage = NoImage
    /\ img = NoImage
    /\ isLast = FALSE
    /\ liveImages = 0
    /\ retronet = FALSE
    /\ nhacp = FALSE
    /\ out = <<>>
    /\ ackPos = 1
    /\ ackRcvd = <<>>

-----------------------------------------------------------------------------
(* Helpers.                                                               *)

\* Whether a receive may fail this way: a timeout needs an armed watchdog.
CanFail(f) == f = "closed" \/ watchdog

\* Whether a receive may deliver bytes: only on a healthy endpoint.
CanRecv == ~aborted

\* conn_reboot(): tear down NHACP and RetroNet state.
conn_reboot == retronet' = FALSE /\ nhacp' = FALSE

\* conn_get_channel(): l_channel, read under the connection's mutex.
conn_get_channel == channel

\* image_release() of an image object (NoImage is ignored).
Released(n, o) == IF o = NoImage THEN n ELSE n - 1

\* Mutant: image_release() without its NULL check on the cached image.
image_unload_NoNullCheck(last) ==
    /\ lastImage' = IF last THEN NoImage ELSE img
    /\ liveImages' = IF last THEN liveImages - 2
                             ELSE Released(liveImages, lastImage)
    /\ img' = NoImage

\* image_unload(conn, img, last) (spec 4.3): with last the caller's
\* reference and the cached one are both released; otherwise the caller's
\* reference becomes l_last_image and the one it replaces is released.
image_unload(last) ==
    /\ lastImage' = IF last THEN NoImage ELSE img
    /\ liveImages' = IF last THEN Released(Released(liveImages, img), lastImage)
                             ELSE Released(liveImages, lastImage)
    /\ img' = NoImage

\* The end of adaptor_msg_packet_request(): unload the image if one was
\* loaded (the time image and failed loads hold none).
FinishPacketRequest ==
    IF img = NoImage
    THEN UNCHANGED <<lastImage, liveImages, img>>
    ELSE image_unload(isLast)

-----------------------------------------------------------------------------
(* adaptor_event_loop().                                                  *)

\* conn_stop_watchdog(), then conn_recv_byte() fails: exit the loop if the
\* endpoint is aborted (conn_check_state()), else wait again.
IdleRecvFails ==
    /\ pc = "idle"
    /\ \E closed \in BOOLEAN :
          /\ aborted' = (aborted \/ closed)
          /\ pc' = IF aborted' THEN "destroy" ELSE "idle"
    /\ watchdog' = FALSE
    /\ UNCHANGED <<ackPos, ackRcvd, msg, channel, lastImage, img, isLast, liveImages, retronet, nhacp, out>>

\* adaptor_msg_reset(): conn_reboot(), then ACK and CONFIRMED.
adaptor_msg_reset ==
    /\ conn_reboot
    /\ out' = <<"ACK", "CONFIRMED">>
    /\ pc' = "idle"

\* adaptor_msg_start_up(): ACK and CONFIRMED, nothing else.
adaptor_msg_start_up ==
    /\ out' = <<"ACK", "CONFIRMED">>
    /\ pc' = "idle"
    /\ UNCHANGED <<ackPos, ackRcvd, retronet, nhacp>>

\* adaptor_msg_classic() with a classic opcode: run its handler up to the
\* handler's first receive (the sends before it are recorded).
DispatchClassic(op) ==
    CASE op = "RESET"    -> adaptor_msg_reset
      [] op = "START_UP" -> adaptor_msg_start_up
      [] op \in {"MYSTERY", "GET_STATUS", "PACKET_REQUEST", "CHANGE_CHANNEL"} ->
            /\ out' = <<"ACK">>
            /\ pc' = CASE op = "MYSTERY"        -> "mystery_recv"
                       [] op = "GET_STATUS"     -> "status_recv"
                       [] op = "PACKET_REQUEST" -> "pkt_recv"
                       [] op = "CHANGE_CHANNEL" -> "chan_recv"
            /\ UNCHANGED <<ackPos, ackRcvd, retronet, nhacp>>

\* adaptor_msg_classic(b): the handler it runs, or "none" when it returns
\* false.  idx > adaptor_msg_type_count lets idx = adaptor_msg_type_count
\* through, and adaptor_msg_types[idx] is then read past the array's end:
\* undefined, so the pointer found there is NULL (an unknown opcode) or
\* garbage that the worker calls.
adaptor_msg_classic(b) ==
    LET idx == b - NABU_MSG_CLASSIC_FIRST
    IN  CASE ~NABU_MSG_IS_CLASSIC(b)         -> {"none"}
          [] idx > adaptor_msg_type_count    -> {"none"}
          [] idx < adaptor_msg_type_count    -> {adaptor_msg_types[idx + 1]}
          [] OTHER                           -> {"none", "garbage"}

\* No classic handler took the byte: retronet_request() and then
\* nhacp_request() may claim it (creating their session state), else it
\* is logged and ignored.  Which bytes they claim is decided outside src/.
DispatchOther ==
    /\ out' = <<>>
    /\ pc' = "idle"
    /\ \E claim \in {"RetroNet", "NHACP", "none"} :
          /\ retronet' = (retronet \/ claim = "RetroNet")
          /\ nhacp' = (nhacp \/ claim = "NHACP")

\* The dispatch of request byte b: a classic handler, a call through a
\* garbage pointer (the process crashes), or the sub-protocols.
Dispatch(b) ==
    \E h \in adaptor_msg_classic(b) :
       \/ h \notin {"none", "garbage"} /\ DispatchClassic(h)
       \/ h = "garbage" /\ pc' = "crashed" /\ out' = <<>>
          /\ UNCHANGED <<retronet, nhacp>>
       \/ h = "none" /\ DispatchOther

\* Mutant: the loop dispatches without conn_start_watchdog().
IdleRecvOpcode_NoWatchdog(op) ==
    /\ pc = "idle"
    /\ CanRecv
    /\ msg' = op
    /\ watchdog' = FALSE
    /\ Dispatch(op)
    /\ ackRcvd' = <<>>
    /\ UNCHANGED <<ackPos, aborted, channel, lastImage, img, isLast, liveImages>>

\* conn_recv_byte() returns a request byte; conn_start_watchdog(conn, 10)
\* and dispatch.
IdleRecvOpcode(op) ==
    /\ pc = "idle"
    /\ CanRecv
    /\ msg' = op
    /\ watchdog' = TRUE
    /\ Dispatch(op)
    /\ ackRcvd' = <<>>
    /\ UNCHANGED <<ackPos, aborted, channel, lastImage, img, isLast, liveImages>>

-----------------------------------------------------------------------------
(* The classic handlers, from their first receive on.                     *)

\* adaptor_msg_mystery(): two bytes arrive or not; CONFIRMED either way.
MysteryRecv ==
    /\ pc = "mystery_recv"
    /\ \/ CanRecv /\ UNCHANGED <<ackPos, ackRcvd, aborted>>
       \/ \E f \in Failures : CanFail(f) /\ aborted' = (aborted \/ f = "closed")
    /\ out' = Append(out, "CONFIRMED")
    /\ pc' = "idle"
    /\ UNCHANGED <<ackPos, ackRcvd, msg, watchdog, channel, lastImage, img, isLast, liveImages, retronet, nhacp>>

\* adaptor_msg_get_status(): the status type, then the channel status
\* (YES iff conn_get_channel() is not NULL) or the transmit status.
StatusRecv ==
    /\ pc = "status_recv"
    /\ \/ /\ CanRecv
          /\ UNCHANGED <<ackPos, ackRcvd, aborted>>
          /\ \E st \in StatusTypes :
                out' = out \o
                   (CASE st = "SIGNAL" ->
                           <<IF conn_get_channel # NoChannel THEN "STATUS_YES" ELSE "STATUS_NO",
                             "FINISHED">>
                      [] st = "TRANSMIT" -> <<"STATUS_YES", "FINISHED">>
                      [] OTHER -> <<>>)
       \/ \E f \in Failures :
             CanFail(f) /\ aborted' = (aborted \/ f = "closed") /\ UNCHANGED <<ackPos, ackRcvd, out>>
    /\ pc' = "idle"
    /\ UNCHANGED <<ackPos, ackRcvd, msg, watchdog, channel, lastImage, img, isLast, liveImages, retronet, nhacp>>

\* adaptor_send_time(): the clock is read (a failed time() gives a zeroed
\* date, which is only data) and sent as segment 0 of a one-segment image
\* with no channel, through adaptor_send_image(): its packet buffer's
\* malloc() may fail, which sends UNAUTHORIZED.  No image is loaded.
adaptor_send_time ==
    \E mallocOk \in BOOLEAN :
        IF mallocOk
        THEN out' = out \o <<"CONFIRMED", "AUTHORIZED">> /\ pc' = "pkt_ack"
        ELSE out' = out \o <<"CONFIRMED", "UNAUTHORIZED">> /\ pc' = "unauth_ack"

\* adaptor_msg_packet_request() after its 4-byte receive succeeded: send
\* CONFIRMED, then the time packet, or image_load() and adaptor_send_image()
\* up to the AUTHORIZED or UNAUTHORIZED byte that waits for the ACK.  A
\* failed malloc() of the packet buffer sends UNAUTHORIZED.
PacketRequested(segment, image) ==
    LET pakOf  == channel \in PakChannels
        sl     == IF pakOf THEN PakSegment(ImageLength[image], segment)
                           ELSE RawSegment(ImageLength[image], segment)
        loaded == image \in Images /\ channel # NoChannel
    IN  CASE image = TimeImage /\ segment = 0 ->
               adaptor_send_time /\ UNCHANGED <<ackPos, ackRcvd, img, isLast, liveImages>>
          [] image = TimeImage ->
               \* Any other segment of the time image is refused.
               /\ out' = out \o <<"CONFIRMED", "UNAUTHORIZED">>
               /\ pc' = "unauth_ack"
               /\ UNCHANGED <<ackPos, ackRcvd, img, isLast, liveImages>>
          [] ~loaded ->
               /\ out' = out \o <<"CONFIRMED", "UNAUTHORIZED">>
               /\ pc' = "unauth_ack"
               /\ UNCHANGED <<ackPos, ackRcvd, img, isLast, liveImages>>
          [] OTHER ->
               /\ img' = [id |-> image, pak |-> pakOf]
               /\ liveImages' = liveImages + 1
               /\ isLast' = sl.last
               /\ \E mallocOk \in BOOLEAN :
                     IF sl.ok /\ mallocOk
                     THEN out' = out \o <<"CONFIRMED", "AUTHORIZED">> /\ pc' = "pkt_ack"
                     ELSE out' = out \o <<"CONFIRMED", "UNAUTHORIZED">> /\ pc' = "unauth_ack"

\* The 4-byte receive of adaptor_msg_packet_request(): on failure the
\* endpoint is set to CONN_STATE_ABORTED and the handler returns.
PktRecv ==
    /\ pc = "pkt_recv"
    /\ \/ /\ CanRecv
          /\ UNCHANGED <<ackPos, ackRcvd, aborted>>
          /\ \E segment \in Segments, image \in Images \cup {MissingImage, TimeImage} :
                PacketRequested(segment, image)
       \/ \E f \in Failures :
             /\ CanFail(f)
             /\ aborted' = TRUE
             /\ pc' = "idle"
             /\ UNCHANGED <<ackPos, ackRcvd, out, img, isLast, liveImages>>
    /\ UNCHANGED <<ackPos, ackRcvd, msg, watchdog, channel, lastImage, retronet, nhacp>>

\* nabu_msg_ack, NABU_MSGSEQ_ACK = {0x10, 0x06}, and the bytes a client may
\* send while adaptor_expect_ack() waits: those of ACK, and 0xE1, the
\* second byte of FINISHED.
nabu_msg_ack == <<16, 6>>
AckBytes == {16, 6, 225}

\* Mutant: adaptor_expect_sequence() stops one byte short of seqlen.
adaptor_expect_byte_ShortSeq(i, c) ==
    IF c # nabu_msg_ack[i] THEN "fail"
    ELSE IF i < Len(nabu_msg_ack) - 1 THEN "next" ELSE "ok"

\* adaptor_expect_byte() of byte i of nabu_msg_ack received as c, within
\* adaptor_expect_sequence(): "next" on a match before the last byte,
\* else what the sequence returns: "ok" (true) or "fail" (false).
adaptor_expect_byte(i, c) ==
    IF c # nabu_msg_ack[i] THEN "fail"
    ELSE IF i < Len(nabu_msg_ack) THEN "next" ELSE "ok"

\* The worker at p in adaptor_expect_ack(): one conn_recv_byte().  A byte
\* that matches and is not the last waits for the next one.  Otherwise
\* the handler goes on: reply is sent only if the ACK arrived whole (a
\* failed receive returns FALSE, and a closed peer aborts the endpoint),
\* then image_unload() with the value adaptor_send_image() returned.
ExpectAck(p, reply) ==
    /\ pc = p
    /\ \/ /\ CanRecv
          /\ UNCHANGED aborted
          /\ \E c \in AckBytes :
               LET r == adaptor_expect_byte(ackPos, c)
               IN  /\ ackRcvd' = Append(ackRcvd, c)
                   /\ IF r = "next"
                      THEN /\ ackPos' = ackPos + 1
                           /\ UNCHANGED <<pc, out, lastImage, liveImages, img>>
                      ELSE /\ out' = IF r = "ok" THEN out \o reply ELSE out
                           /\ ackPos' = 1
                           /\ pc' = "idle"
                           /\ FinishPacketRequest
       \/ \E f \in Failures :
             /\ CanFail(f)
             /\ aborted' = (aborted \/ f = "closed")
             /\ ackPos' = 1
             /\ pc' = "idle"
             /\ UNCHANGED <<out, ackRcvd>>
             /\ FinishPacketRequest
    /\ UNCHANGED <<msg, watchdog, channel, isLast, retronet, nhacp>>

\* adaptor_send_packet() from adaptor_expect_ack() on: the packet and
\* FINISHED follow only a good ACK; the buffer is freed either way.
PktAck == ExpectAck("pkt_ack", <<"PACKET", "FINISHED">>)

\* adaptor_send_unauthorized() from adaptor_expect_ack() on: the result
\* is only logged.
UnauthAck == ExpectAck("unauth_ack", <<>>)

\* adaptor_msg_change_channel(): the 2-byte code, image_channel_select()
\* (which installs a channel it finds with conn_set_channel()), CONFIRMED.
\* A failed receive aborts the endpoint.
ChanRecv ==
    /\ pc = "chan_recv"
    /\ \/ /\ CanRecv
          /\ UNCHANGED <<ackPos, ackRcvd, aborted>>
          /\ \E code \in Channels \cup {BadChannel} :
                channel' = IF code = BadChannel THEN channel ELSE code
          /\ out' = Append(out, "CONFIRMED")
       \/ \E f \in Failures :
             CanFail(f) /\ aborted' = TRUE /\ UNCHANGED <<ackPos, ackRcvd, channel, out>>
    /\ pc' = "idle"
    /\ UNCHANGED <<ackPos, ackRcvd, msg, watchdog, lastImage, img, isLast, liveImages, retronet, nhacp>>

\* Mutant: conn_destroy() without conn_set_last_image(conn, NULL).
Destroy_NoRelease ==
    /\ pc = "destroy"
    /\ conn_reboot
    /\ pc' = "done"
    /\ UNCHANGED <<ackPos, ackRcvd, msg, watchdog, aborted, channel, lastImage, img, isLast, liveImages, out>>

\* conn_destroy() once the loop has returned: release l_last_image and
\* conn_reboot().
Destroy ==
    /\ pc = "destroy"
    /\ lastImage' = NoImage
    /\ liveImages' = Released(liveImages, lastImage)
    /\ conn_reboot
    /\ pc' = "done"
    /\ UNCHANGED <<ackPos, ackRcvd, msg, watchdog, aborted, channel, img, isLast, out>>

-----------------------------------------------------------------------------

Next ==
    \/ IdleRecvFails
    \/ \E op \in Opcodes : IdleRecvOpcode(op)
    \/ MysteryRecv \/ StatusRecv \/ PktRecv \/ PktAck \/ UnauthAck \/ ChanRecv
    \/ Destroy

\* A receive inside a request while the watchdog is armed: it returns,
\* with bytes or with a timeout, within the watchdog's 10 seconds.
TimeoutStep ==
    /\ watchdog
    /\ pc \in InRequest
    /\ \/ MysteryRecv \/ StatusRecv \/ PktRecv \/ PktAck \/ UnauthAck \/ ChanRecv

\* The worker runs whenever it is not blocked; a receive under an armed
\* watchdog returns within 10 seconds.  The client need not send anything.
Fairness == WF_vars(Destroy) /\ WF_vars(TimeoutStep)

Spec == Init /\ [][Next]_vars /\ Fairness

-----------------------------------------------------------------------------

TypeOK ==
    /\ pc \in States
    /\ msg \in 0..255
    /\ watchdog \in BOOLEAN
    /\ aborted \in BOOLEAN
    /\ channel \in Channels \cup {NoChannel}
    /\ lastImage \in ImageObjs \cup {NoImage}
    /\ img \in ImageObjs \cup {NoImage}
    /\ isLast \in BOOLEAN
    /\ liveImages \in Nat
    /\ retronet \in BOOLEAN /\ nhacp \in BOOLEAN
    /\ ackPos \in 1..Len(nabu_msg_ack)
    /\ ackRcvd \in Seq(AckBytes)
    /\ out \in Seq({"ACK", "CONFIRMED", "STATUS_YES", "STATUS_NO", "FINISHED",
                    "AUTHORIZED", "UNAUTHORIZED", "PACKET"})

\* Every image object loaded by a packet request is released exactly once:
\* the live ones are the handler's and l_last_image, and none survives
\* conn_destroy(), whatever sequence of segments, errors and timeouts the
\* client causes.
ImageRefsAccounted ==
    /\ liveImages = (IF img = NoImage THEN 0 ELSE 1)
                    + (IF lastImage = NoImage THEN 0 ELSE 1)
    /\ pc \in {"idle", "done"} => img = NoImage
    /\ pc = "done" => liveImages = 0

\* adaptor_send_packet() sends the packet only after adaptor_expect_ack()
\* has read the whole NABU_MSGSEQ_ACK: a client that sends 0x10 alone,
\* or 0x10 and then FINISHED's 0xE1, or stalls, never gets the packet.
PacketOnlyAfterAck ==
    (\E i \in DOMAIN out : out[i] = "PACKET") => ackRcvd = nabu_msg_ack

\* Every request the worker starts it finishes: no receive inside a
\* request can block forever, since the watchdog is armed after the
\* opcode, however the client stalls.
RequestCompletes ==
    pc \in InRequest ~> pc \in {"idle", "destroy", "done"}

\* Spec 4.7 and 9: RESET reboots the connection, clearing sub-protocol
\* state and dropping the cached image.
ResetDropsSession ==
    (pc = "idle" /\ msg = NABU_MSG_CLASSIC_FIRST) => (~retronet /\ ~nhacp /\ lastImage = NoImage)

\* Spec 4.7 and 8 (S6): an unknown classic opcode is logged and ignored,
\* and the connection keeps serving requests: adaptor_msg_classic()'s
\* bound test keeps every classic byte off the end of adaptor_msg_types[].
UnknownClassicIgnored ==
    pc # "crashed"

=============================================================================
