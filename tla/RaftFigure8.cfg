SPECIFICATION Figure8Spec
CONSTANTS
    s1 = s1
    s2 = s2
    s3 = s3
    Nil = Nil
    Server = {s1, s2, s3}
    Commands = {}
    Noop = TRUE
    Snapshots = {}
    AtomicCheck = FALSE
    InOrder = TRUE
    Timers = {s3}
    MaxTerm = 4
    MaxElections = 4
    MaxLog = 0
    MaxInFlight = 1
    MaxRestarts = 1
CHECK_DEADLOCK FALSE
INVARIANTS
    LogMatching
    LeaderCompleteness
    MatchIsTrue
    CommitUpToDate
PROPERTIES
    CommitsOwnTerm
    Replicates
