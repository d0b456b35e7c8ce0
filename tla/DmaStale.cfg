SPECIFICATION Spec
CONSTANTS
    Threads = {t1}
    MaxRegions = 3
    Spans <- RowSpans
    Requests <- PinRequests
    Probes <- PinRequests
    PgSizes = {}
    Word = 32
    LenLimit = 16
    SerialCalls = TRUE
    FreshSg = FALSE
    AddAllocates = TRUE
    NULL = NULL
INVARIANT UnmapStaysInsideTable
