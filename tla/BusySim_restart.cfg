CONSTANTS
    BufSize = 4
    EntropyMayFail = FALSE
SPECIFICATION Spec
PROPERTY StartSubmitOk
