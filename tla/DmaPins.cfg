\* Two device threads translate, map and unmap while the server registers
\* and removes regions and starts, reads and stops dirty-page logging.
SPECIFICATION Spec
CONSTANTS
    Threads = {t1, t2}
    MaxRegions = 3
    Spans <- MixedSpans
    Requests <- DeviceRequests
    Probes <- DeviceRequests
    PgSizes = {2}
    Word = 32
    LenLimit = 16
    SerialCalls = TRUE
    FreshSg = TRUE
    AddAllocates = TRUE
    NULL = NULL
SYMMETRY ThreadSymmetry
INVARIANTS
    TypeOK
    RefcountMatchesMappings
    IovPointsIntoTranslatedRegion
    UnmapStaysInsideTable
    OwedPagesLogged
PROPERTY ImplementsPinning
