\* A conforming client reading across a lost channel: is it ever refused with OBJ_LOCKED?
CONSTANTS
    Alloc <- MCAlloc
    SizeMod <- MCSizeMod
    MaxSdu <- MCMaxSdu
    MaxInd = 1
    ObjProps <- MCObjProps
    FeatPatch = TRUE
    WriteSupport = TRUE
    CurObjSelected = TRUE
    DirListObj = FALSE
    HasReadCb = TRUE
    HasWriteCb = TRUE
    IndicateMayFail = FALSE
    ConformingClient = TRUE
    ClientOps <- MCReadOps
SPECIFICATION Spec
INVARIANT NoSpuriousLock
