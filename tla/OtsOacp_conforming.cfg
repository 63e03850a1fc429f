\* A client that runs one procedure at a time; every feature of the server on.
CONSTANTS
    Alloc <- MCAlloc
    SizeMod <- MCSizeMod
    MaxSdu <- MCMaxSdu
    MaxInd = 1
    ObjProps <- MCObjProps
    FeatPatch = TRUE
    WriteSupport = TRUE
    CurObjSelected = TRUE
    DirListObj = FALSE
    HasReadCb = TRUE
    HasWriteCb = TRUE
    IndicateMayFail = FALSE
    ConformingClient = TRUE
    ClientOps <- MCClientOps
SPECIFICATION Spec
INVARIANT TypeOK
INVARIANT SizeWithinAlloc
INVARIANT ReadWithinObject
INVARIANT WriteCoversProgress
INVARIANT WriteEndsWithData
PROPERTY ImplementsTransfer
