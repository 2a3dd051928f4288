\* One connection's adaptor loop against an arbitrary client.
CONSTANTS
    MaxPayload = 2
    HeaderSize = 1
    FooterSize = 1
    Escape = 16
    Channels = {raw, pak}
    PakChannels = {pak}
    BadChannel = BadChannel
    NoChannel = NoChannel
    Images = {"i1", "i2"}
    ImageLength <- MC_ImageLength
    MissingImage = MissingImage
    TimeImage = TimeImage
    NoImage = NoImage
    MaxSegment = 2
SPECIFICATION Spec
\* The worker thread really ends: after conn_destroy() ("done"), or when a
\* garbage handler pointer crashes the process ("crashed").
CHECK_DEADLOCK FALSE
INVARIANT UnknownClassicIgnored
