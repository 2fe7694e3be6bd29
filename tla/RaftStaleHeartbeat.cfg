SPECIFICATION ReelectedSpec
CONSTANTS
    s1 = s1
    s2 = s2
    s3 = s3
    Nil = Nil
    Server = {s1, s2, s3}
    c1 = c1
    Commands = {c1}
    Noop = FALSE
    Snapshots = {}
    AtomicCheck = TRUE
    InOrder = FALSE
    Timers = {s3}
    MaxTerm = 3
    MaxElections = 3
    MaxLog = 2
    MaxInFlight = 2
    MaxRestarts = 0
CHECK_DEADLOCK FALSE
INVARIANTS
    StateMachineSafety
