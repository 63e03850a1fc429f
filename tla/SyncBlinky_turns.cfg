CONSTANTS
    NumCpus = 4
    SchedCpuMask = TRUE
SPECIFICATION Spec
INVARIANT TypeOK
INVARIANT LedsShowTurn
PROPERTY Alternation
