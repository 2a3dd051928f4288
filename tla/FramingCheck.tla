---------------------------- MODULE FramingCheck ----------------------------
(***************************************************************************)
(* Checks the segment arithmetic and escape encoding of Framing against    *)
(* reference definitions written independently of the code: the tiling of *)
(* a raw image into payload-sized chunks, the layout of a PAK file as       *)
(* length-prefixed framed segments, and an escape decoder.  Each state is  *)
(* one input; Init enumerates them all and Next keeps it.                   *)
(***************************************************************************)
EXTENDS Naturals, Sequences, SequencesExt, Framing

CONSTANTS
    MaxImage,     \* raw images of 0..MaxImage bytes
    MaxPakSegs,   \* PAK files of 1..MaxPakSegs segments
    MaxBuf,       \* buffers of up to MaxBuf bytes to escape
    Bytes         \* the byte values in those buffers (Escape among them)

VARIABLE input

RawInputs == [kind : {"raw"}, length : 0..MaxImage]

\* A PAK file is its segments' lengths: every segment but the last is a
\* whole framed segment; the last is whole or shorter (possibly shorter
\* than a header and footer, as in a damaged file).
PakInputs ==
    {[kind |-> "pak", segs |-> s] :
        s \in {Append([i \in 1..n |-> TotalPayload], l) :
                  n \in 0..MaxPakSegs - 1, l \in 1..TotalPayload}}

BufInputs == [kind : {"buf"}, buf : BoundedSeq(Bytes, MaxBuf)]

Init == input \in RawInputs \cup PakInputs \cup BufInputs

Next == UNCHANGED input

Spec == Init /\ [][Next]_input

-----------------------------------------------------------------------------
(* Reference definitions.                                                 *)

\* The chunks [off, off + len) of a raw image, in order.
RECURSIVE ChunksFrom(_, _)
ChunksFrom(off, length) ==
    IF off >= length THEN <<>>
    ELSE << <<off, IF length - off < MaxPayload THEN length - off ELSE MaxPayload>> >>
         \o ChunksFrom(off + MaxPayload, length)

\* Where segment i of a PAK file starts: after each earlier segment and its
\* 2-byte length prefix, and after its own prefix.
PakStart(segs, i) ==
    FoldLeft(LAMBDA acc, l : acc + 2 + l, 0, SubSeq(segs, 1, i - 1)) + 2

PakFileLength(segs) == FoldLeft(LAMBDA acc, l : acc + 2 + l, 0, segs)

\* Decoding an escaped stream: a doubled Escape is one byte.  The result
\* is the set of decodings: empty when a lone Escape makes it invalid.
RECURSIVE Unescape(_)
Unescape(s) ==
    IF s = <<>> THEN {<<>>}
    ELSE IF Head(s) # Escape
         THEN {<<Head(s)>> \o r : r \in Unescape(Tail(s))}
         ELSE IF Len(s) >= 2 /\ s[2] = Escape
              THEN {<<Escape>> \o r : r \in Unescape(SubSeq(s, 3, Len(s)))}
              ELSE {}

-----------------------------------------------------------------------------

\* Spec 8.3: the client that asks for segments 0, 1, ... until one is
\* marked last gets the image's chunks exactly once and in order, the last
\* flag exactly on the final chunk, and every later segment is refused;
\* an empty image refuses segment 0.
RawSegmentsTile ==
    input.kind = "raw" =>
        LET ch == ChunksFrom(0, input.length)
        IN  \A s \in 0..Len(ch) + 1 :
                LET r == RawSegment(input.length, s)
                IN  IF s < Len(ch)
                    THEN /\ r.ok
                         /\ <<r.off, r.len>> = ch[s + 1]
                         /\ r.last <=> s = Len(ch) - 1
                    ELSE ~r.ok

\* Spec 4.2 and 9: on a PAK file adaptor_send_pak() sends exactly the
\* stored segment s (without its length prefix) for every segment of the
\* file, marks only the final one last, refuses a final segment shorter
\* than a header and footer, and refuses every segment past the end.
PakSegmentsMatch ==
    input.kind = "pak" =>
        LET segs == input.segs
            len  == PakFileLength(segs)
        IN  \A s \in 0..Len(segs) :
                LET r == PakSegment(len, s)
                IN  IF s < Len(segs)
                    THEN /\ r.ok <=> segs[s + 1] >= HeaderSize + FooterSize
                         /\ r.ok => /\ r.off = PakStart(segs, s + 1)
                                    /\ r.len = segs[s + 1]
                                    /\ r.last <=> s = Len(segs) - 1
                    ELSE ~r.ok

\* Spec 8.1 and invariant 4: the escaped packet decodes to the buffer, and
\* is at least as long and at most twice as long.
EscapeRoundTrip ==
    input.kind = "buf" =>
        LET e == EscapeBytes(input.buf)
        IN  /\ Unescape(e) = {input.buf}
            /\ Len(input.buf) <= Len(e)
            /\ Len(e) <= 2 * Len(input.buf)

=============================================================================
