CONSTANTS
    c1 = c1
    c2 = c2
    Callers = {c1, c2}
SPECIFICATION Spec
INVARIANTS TypeOK VerifiedHeld SessionSettled RefusedChangedNothing
PROPERTIES OnlyWhatWasAsked
SYMMETRY CallerSymmetry
CHECK_DEADLOCK FALSE
