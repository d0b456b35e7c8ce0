SPECIFICATION Spec
CONSTANTS
    Threads = {}
    MaxRegions = 3
    Spans <- MixedSpans
    Requests <- PinRequests
    Probes <- AllRequests
    PgSizes = {}
    Word = 32
    LenLimit = 16
    SerialCalls = TRUE
    FreshSg = TRUE
    AddAllocates = TRUE
    NULL = NULL
INVARIANTS
    TranslationSound
    HintIndependence
