\* One durable task, one cancellation and one restart.
CONSTANTS
    h1 = h1
    h2 = h2
    l1 = l1
    w1 = w1
    Tasks = {l1}
    HeavyTasks = {}
    DurableTasks = {l1}
    TotalLimit = 1
    HeavyLimit = 1
    Waiters = {}
    MaxStops = 1
    MaxWriteFailures = 0
    MaxDamages = 0
SPECIFICATION FairSpec
PROPERTIES CancelSurvivesRestart
CHECK_DEADLOCK FALSE
