SPECIFICATION SnapshotSpec
CONSTANTS
    s1 = s1
    s2 = s2
    s3 = s3
    Nil = Nil
    Server = {s1, s2, s3}
    c1 = c1
    Commands = {c1}
    Noop = FALSE
    Snapshots = {s1}
    AtomicCheck = TRUE
    InOrder = TRUE
    Timers = {s2}
    MaxTerm = 2
    MaxElections = 2
    MaxLog = 2
    MaxInFlight = 1
    MaxRestarts = 1
CHECK_DEADLOCK FALSE
INVARIANTS
    StateMachineSafety
    CommittedHeld
    NextInRange
    
