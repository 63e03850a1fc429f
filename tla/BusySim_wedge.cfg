CONSTANTS
    BufSize = 4
    EntropyMayFail = TRUE
SPECIFICATION Spec
PROPERTY RefillProgress
