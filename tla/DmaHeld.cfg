\* Logging starts, and the bitmap is read, while a device holds a list.
SPECIFICATION Spec
CONSTANTS
    Threads = {t1}
    MaxRegions = 2
    Spans <- AdjacentSpans
    Requests <- PinRequests
    Probes <- PinRequests
    PgSizes = {2}
    Word = 32
    LenLimit = 16
    SerialCalls = TRUE
    FreshSg = TRUE
    AddAllocates = TRUE
    NULL = NULL
INVARIANT HeldWritesLogged
