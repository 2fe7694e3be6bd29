SPECIFICATION FairSpec
CONSTANTS
    Proc = {p1, p2}
    NMap = 3
    NReduce = 2
    MaxCrashes = 1
CHECK_DEADLOCK FALSE
INVARIANTS
    JobComplete
    FilesReady
    SearchEnds
    RingsSound
PROPERTIES
    JobEnds
