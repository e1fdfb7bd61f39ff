SPECIFICATION Spec
CONSTANTS
    Handle = {h1, h2}
    Sender = {s1}
    Nil = Nil
    MaxTurns = 1
    MaxTries = 2
    MaxFaults = 1
INVARIANTS
    FenceOfCurrentWorker
PROPERTIES
    FencedNeverReopens
SYMMETRY Symmetry
CHECK_DEADLOCK FALSE
