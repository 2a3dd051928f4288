------------------------------- MODULE Framing -------------------------------
(***************************************************************************)
(* The segment arithmetic of src/nabud/adaptor.c: which slice of an image  *)
(* adaptor_send_image() (raw images) and adaptor_send_pak() (pre-framed    *)
(* PAK images) send for a requested segment, whether they refuse it, and   *)
(* whether it is the last one; and the escape encoding of                  *)
(* adaptor_escape_packet().  Sizes are constants so that a model can scale *)
(* NABU_MAXPAYLOADSIZE (991) down while keeping every comparison.          *)
(***************************************************************************)
EXTENDS Naturals, Sequences

CONSTANTS
    MaxPayload,   \* NABU_MAXPAYLOADSIZE
    HeaderSize,   \* NABU_HEADERSIZE
    FooterSize,   \* NABU_FOOTERSIZE
    Escape        \* NABU_MSG_ESCAPE

ASSUME /\ MaxPayload \in Nat \ {0}
       /\ HeaderSize \in Nat
       /\ FooterSize \in Nat

\* NABU_TOTALPAYLOADSIZE: a whole framed segment.
TotalPayload == HeaderSize + MaxPayload + FooterSize

\* The outcome of extracting a segment: refused (UNAUTHORIZED) or sent, the
\* value returned as "last", and the slice [off, off + len) of the image.
Slice(ok, last, off, len) == [ok |-> ok, last |-> last, off |-> off, len |-> len]

\* Mutant: the last-segment test uses > where the code has >=.
RawSegmentStrict(length, segment) ==
    LET off == segment * MaxPayload
    IN  IF off >= length
        THEN Slice(FALSE, FALSE, off, 0)
        ELSE IF off + MaxPayload > length
             THEN Slice(TRUE, TRUE, off, length - off)
             ELSE Slice(TRUE, FALSE, off, MaxPayload)

\* adaptor_send_image() for an image that is not on a PAK channel.
RawSegment(length, segment) ==
    LET off == segment * MaxPayload
    IN  IF off >= length
        THEN Slice(FALSE, FALSE, off, 0)
        ELSE IF off + MaxPayload >= length
             THEN Slice(TRUE, TRUE, off, length - off)
             ELSE Slice(TRUE, FALSE, off, MaxPayload)

\* Mutant: the offset forgets the segment's own 2-byte prefix.
PakSegmentNoOwnPrefix(length, segment) ==
    LET off  == segment * TotalPayload + (2 * segment)
        last == off + TotalPayload >= length
        len  == IF last THEN length - off ELSE TotalPayload
    IN  IF off >= length
        THEN Slice(FALSE, FALSE, off, 0)
        ELSE Slice(len >= HeaderSize + FooterSize, last, off, len)

\* adaptor_send_pak(): segment s starts after s whole segments, each with
\* its 2-byte length prefix, and after its own prefix.
PakSegment(length, segment) ==
    LET off  == segment * TotalPayload + (2 * segment + 2)
        last == off + TotalPayload >= length
        len  == IF last THEN length - off ELSE TotalPayload
    IN  IF off >= length
        THEN Slice(FALSE, FALSE, off, 0)
        ELSE Slice(len >= HeaderSize + FooterSize, last, off, len)

\* Mutant: the escape byte is copied once, like any other.
EscapeNone(buf) == buf

\* adaptor_escape_packet(): every Escape byte is sent twice.
RECURSIVE EscapeBytes(_)
EscapeBytes(buf) ==
    IF buf = <<>> THEN <<>>
    ELSE (IF Head(buf) = Escape THEN <<Escape, Escape>> ELSE <<Head(buf)>>)
            \o EscapeBytes(Tail(buf))

=============================================================================
