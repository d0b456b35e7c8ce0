\* Tables only: spans whose end wraps and lengths beyond LenLimit.
SPECIFICATION Spec
CONSTANTS
    Threads = {}
    MaxRegions = 2
    Spans <- LongSpans
    Requests <- EdgeRequests
    Probes <- EdgeRequests
    PgSizes = {}
    Word = 32
    LenLimit = 8
    SerialCalls = TRUE
    FreshSg = TRUE
    AddAllocates = TRUE
    NULL = NULL
INVARIANT TranslationSound
