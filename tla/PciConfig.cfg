SPECIFICATION FairSpec
CONSTANTS
    RegLimit = 2048
    SizeLimit = 8192
    BarSize <- MCBarSize
    BarIsMem <- MCBarIsMem
    Caps <- MCCaps
    Callbacks = {TRUE, FALSE}
    CbReturns <- WholeHalfOrError
    Accesses <- MCAccesses
    Ids = {1}
    Classes = {2}
    Setups <- MCSetups
    PciTypes = {"conventional", "express"}
    NULL = NULL
INVARIANTS
    TypeOK
    SegmentsFollowAreas
    ProbedBarTellsSize
PROPERTIES
    AccessReturns
    AccessTellsWhatItDid
