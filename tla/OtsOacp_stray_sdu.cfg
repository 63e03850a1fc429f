\* A client that sends outside a Write: can an SDU be forwarded with a wrapped length?
CONSTANTS
    Alloc <- MCAlloc
    SizeMod <- MCSizeMod
    MaxSdu <- MCMaxSdu
    MaxInd = 1
    ObjProps <- MCObjProps
    FeatPatch = TRUE
    WriteSupport = TRUE
    CurObjSelected = TRUE
    DirListObj = FALSE
    HasReadCb = TRUE
    HasWriteCb = TRUE
    IndicateMayFail = FALSE
    ConformingClient = FALSE
    ClientOps <- MCClientOps
SPECIFICATION Spec
INVARIANT ForwardWithinSdu
