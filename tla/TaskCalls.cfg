\* Two handlers, one slot, one task, and one end of the broker.
CONSTANTS
    t1 = t1
    h1 = h1
    h2 = h2
    stranger = stranger
    Tasks = {t1}
    Stranger = stranger
    Handlers = {h1, h2}
    MaxConcurrent = 1
    MaxEnds = 1
SPECIFICATION FairSpec
INVARIANTS TypeOK ConclusionStands
PROPERTIES EveryRequestAnswered
CHECK_DEADLOCK FALSE
