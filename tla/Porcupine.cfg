SPECIFICATION FairSpec
CONSTANTS
    k1 = k1
    k2 = k2
    Key = {k1, k2}
    MaxOps = 3
    Word = 2
    History <- MCHistory
CHECK_DEADLOCK FALSE
INVARIANTS
    VerdictRight
    SearchInStep
    PartialsLongest
PROPERTIES
    CheckEnds
