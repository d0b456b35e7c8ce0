SPECIFICATION Spec
CONSTANTS
    Threads = {t1, t2}
    MaxRegions = 2
    Spans <- AdjacentSpans
    Requests <- PinRequests
    Probes <- PinRequests
    PgSizes = {}
    Word = 32
    LenLimit = 16
    SerialCalls = FALSE
    FreshSg = TRUE
    AddAllocates = TRUE
    NULL = NULL
SYMMETRY ThreadSymmetry
INVARIANT RefcountMatchesMappings
