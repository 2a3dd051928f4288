\* Segment extraction and escaping over every small input, with the
\* payload scaled to 2 bytes, a 1-byte header and footer (a 4-byte frame).
CONSTANTS
    MaxPayload = 2
    HeaderSize = 1
    FooterSize = 1
    Escape = 16
    MaxImage = 12
    MaxPakSegs = 4
    MaxBuf = 4
    Bytes = {0, 1, 16}
SPECIFICATION Spec
INVARIANT RawSegmentsTile
INVARIANT PakSegmentsMatch
INVARIANT EscapeRoundTrip
