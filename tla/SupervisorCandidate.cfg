\* A running version and an upgrade.
CONSTANTS
    v1 = v1
    v2 = v2
    none = none
    Binaries = {v1, v2}
    NoBinary = none
    Broken = {}
    MaxFailures = 1
    MaxDelay = 1
SPECIFICATION FairSpec
PROPERTIES CandidateProven
