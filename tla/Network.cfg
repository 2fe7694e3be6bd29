SPECIFICATION FairSpec
CONSTANTS
    Server = {s1, s2}
    Call = {c1}
    MaxLives = 2
CHECK_DEADLOCK FALSE
INVARIANTS
    AckedKept
    OneWriter
PROPERTIES
    CrashedSilent
    CallReturns
