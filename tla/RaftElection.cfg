SPECIFICATION Spec
CONSTANTS
    s1 = s1
    s2 = s2
    s3 = s3
    Nil = Nil
    Server = {s1, s2, s3}
    c1 = c1
    Commands = {c1}
    Noop = FALSE
    Snapshots = {}
    AtomicCheck = TRUE
    InOrder = TRUE
    Timers = {s1, s2, s3}
    MaxTerm = 2
    MaxElections = 3
    MaxLog = 1
    MaxInFlight = 0
    MaxRestarts = 1
SYMMETRY Symmetry
CHECK_DEADLOCK FALSE
INVARIANTS
    Durable
    VoteOnce
    VotesCountedOnce
    ElectionSafety
