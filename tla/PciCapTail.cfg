SPECIFICATION Spec
CONSTANTS
    RegLimit = 2048
    SizeLimit = 8192
    BarSize <- MCBarSize
    BarIsMem <- MCBarIsMem
    Caps <- MCCaps
    Callbacks = {TRUE}
    CbReturns <- WholeHalfOrError
    Accesses <- TailAccesses
    Ids = {1}
    Classes = {2}
    Setups <- MCSetups
    PciTypes = {"conventional", "express"}
    NULL = NULL
INVARIANT SegmentsFollowAreas
