\* One handler, and a broker that is terminated.
CONSTANTS
    t1 = t1
    h1 = h1
    h2 = h2
    stranger = stranger
    Tasks = {t1}
    Stranger = stranger
    Handlers = {h1}
    MaxConcurrent = 1
    MaxEnds = 1
SPECIFICATION FairSpec
INVARIANTS UnknownMeansUnknown
CHECK_DEADLOCK FALSE
