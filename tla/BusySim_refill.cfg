CONSTANTS
    BufSize = 32
    EntropyMayFail = FALSE
SPECIFICATION Spec
INVARIANT TypeOK
INVARIANT FreshPublished
PROPERTY RefillProgress
