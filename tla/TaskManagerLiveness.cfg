\* Two heavy tasks, one of them durable, compete for heavySem over two restarts;
\* no write fails and no file is damaged, as TaskLifecycle needs.
CONSTANTS
    h1 = h1
    h2 = h2
    l1 = l1
    w1 = w1
    Tasks = {h1, h2}
    HeavyTasks = {h1, h2}
    DurableTasks = {h1}
    TotalLimit = 2
    HeavyLimit = 1
    Waiters = {}
    MaxStops = 2
    MaxWriteFailures = 0
    MaxDamages = 0
SPECIFICATION FairSpec
PROPERTIES ImplementsLifecycle EventuallyFinal CancelEndsRunner
CHECK_DEADLOCK FALSE
