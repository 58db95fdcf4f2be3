\* A sound version and a broken one, failing I/O, kills and reboots at any time.
CONSTANTS
    v1 = v1
    v2 = v2
    none = none
    Binaries = {v1, v2}
    NoBinary = none
    Broken = {v2}
    MaxFailures = 3
    MaxDelay = 2
SPECIFICATION FairSpec
INVARIANTS TypeOK PairGone BackoffCoversFailures
PROPERTIES RestoresReplaced VerdictStays PairRestarted BrokenCandidateReplaced
