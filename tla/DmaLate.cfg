\* A region is registered while logging is on and gets no bitmap.
SPECIFICATION Spec
CONSTANTS
    Threads = {t1}
    MaxRegions = 2
    Spans <- AdjacentSpans
    Requests <- PinRequests
    Probes <- PinRequests
    PgSizes = {2}
    Word = 32
    LenLimit = 16
    SerialCalls = TRUE
    FreshSg = TRUE
    AddAllocates = FALSE
    NULL = NULL
INVARIANT MarkedRegionHasBitmap
