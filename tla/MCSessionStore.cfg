CONSTANTS
    ID = {s1}
    Actor = {a1, a2, a3}
    Nil = Nil
    Torn = Torn
    MaxSessions = 3
    MaxFaults = 2
    MaxCrashes = 2
SPECIFICATION Spec
SYMMETRY Symmetry
INVARIANTS SavedSurvives EndedStaysEnded FailureStaysOwn
CHECK_DEADLOCK FALSE
