\* No current object selected: is the indication callback safe?
CONSTANTS
    Alloc <- MCAlloc
    SizeMod <- MCSizeMod
    MaxSdu <- MCMaxSdu
    MaxInd = 1
    ObjProps <- MCObjProps
    FeatPatch = TRUE
    WriteSupport = TRUE
    CurObjSelected = FALSE
    DirListObj = FALSE
    HasReadCb = TRUE
    HasWriteCb = TRUE
    IndicateMayFail = FALSE
    ConformingClient = TRUE
    ClientOps <- MCClientOps
SPECIFICATION Spec
INVARIANT NoNullCurObjDeref
