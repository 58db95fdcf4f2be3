\* One upload of two blocks and two handlers that compete for it.
CONSTANTS
    u1 = u1
    r1 = r1
    r2 = r2
    l1 = l1
    l2 = l2
    a = a
    hole = hole
    absent = absent
    Uploads = {u1}
    Hole = hole
    Absent = absent
    Requests = {r1, r2}
    Locks = {l1, l2}
    Blocks = {a}
    Total = 2
    MaxExpiries = 1
    MaxSaveFailures = 1
    MaxCrashes = 1
SPECIFICATION FairSpec
INVARIANTS TypeOK LockExclusive OffsetBacked ArtifactFaithful
PROPERTIES AnsweredStays EveryRequestEnds
CHECK_DEADLOCK FALSE
