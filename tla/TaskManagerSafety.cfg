\* Two heavy tasks, one of them not durable, under limits that make them compete
\* for heavySem; a stop, a failing write and a damaged file at any time.
CONSTANTS
    h1 = h1
    h2 = h2
    l1 = l1
    w1 = w1
    Tasks = {h1, h2}
    HeavyTasks = {h1, h2}
    DurableTasks = {h1}
    TotalLimit = 2
    HeavyLimit = 1
    Waiters = {w1}
    MaxStops = 1
    MaxWriteFailures = 1
    MaxDamages = 1
SPECIFICATION Spec
INVARIANTS TypeOK SlotsExact NoLostWakeup CancelReachesRunner AcceptedOnDisk
PROPERTIES FinalStays CancelSticks
CHECK_DEADLOCK FALSE
