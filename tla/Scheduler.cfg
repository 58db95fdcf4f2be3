CONSTANTS
    s1 = s1
    r1 = r1
    x1 = x1
    Ids = {s1}
    Requests = {r1}
    Runners = {x1}
    Kinds = {"once", "interval", "network"}
    EventKinds = {"network"}
    EventCapacity = 1
    MaxTime = 1
    MaxLaunched = 1
    MaxWriteFailures = 1
    MaxCrashes = 1
    MaxChanges = 2
SPECIFICATION FairSpec
INVARIANTS TypeOK OnceFiresOnce FilesFollow LoopFollows
PROPERTIES DueIsStarted
CHECK_DEADLOCK FALSE
