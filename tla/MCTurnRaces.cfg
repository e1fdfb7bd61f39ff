SPECIFICATION Spec
CONSTANTS
    Handle = {h1}
    Sender = {s1, s2}
    Nil = Nil
    MaxTurns = 2
    MaxTries = 2
    MaxFaults = 1
INVARIANTS
    OneTerminalPerTurn
    FailureOfOwnTurn
    EscBeforeNextTurn
SYMMETRY Symmetry
CHECK_DEADLOCK FALSE
