CONSTANTS
    NumCpus = 3
    RvBaseCpu = 1
    SocMpfs = TRUE
    InitFlags = {"OTHER", "DONE", "GO"}
    IpiDuringStart = FALSE
SPECIFICATION Spec
INVARIANT TypeOK
INVARIANT SpHandoff
INVARIANT NoLostIpi
PROPERTY AllOnline
