\* Two images; the first is cached when the cache is empty.
CONSTANTS
    Images = {i1, i2}
    NULL = NULL
SPECIFICATION Spec
INVARIANT CachedImageHeld
CHECK_DEADLOCK FALSE
