\* Can the read engine run while the object is not in the Read state?
CONSTANTS
    Alloc <- MCAlloc
    SizeMod <- MCSizeMod
    MaxSdu <- MCMaxSdu
    MaxInd = 1
    ObjProps <- MCObjProps
    FeatPatch = TRUE
    WriteSupport = TRUE
    CurObjSelected = TRUE
    DirListObj = FALSE
    HasReadCb = TRUE
    HasWriteCb = TRUE
    IndicateMayFail = FALSE
    ConformingClient = TRUE
    ClientOps <- MCClientOps
SPECIFICATION Spec
INVARIANT ReadQuiescentWhenIdle
