SPECIFICATION Spec
CONSTANTS
    s1 = s1
    s2 = s2
    s3 = s3
    Nil = Nil
    Server = {s1, s2, s3}
    Commands = {}
    Noop = FALSE
    Snapshots = {}
    AtomicCheck = FALSE
    InOrder = TRUE
    Timers = {s1, s2, s3}
    MaxTerm = 2
    MaxElections = 3
    MaxLog = 0
    MaxInFlight = 0
    MaxRestarts = 0
SYMMETRY Symmetry
CHECK_DEADLOCK FALSE
INVARIANTS
    ElectionSafety
