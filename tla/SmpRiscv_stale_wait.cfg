CONSTANTS
    NumCpus = 3
    RvBaseCpu = 1
    SocMpfs = TRUE
    InitFlags = {"OTHER", "WAIT"}
    IpiDuringStart = FALSE
SPECIFICATION Spec
PROPERTY AllOnline
