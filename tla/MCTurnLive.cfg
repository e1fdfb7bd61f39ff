SPECIFICATION FairSpec
CONSTANTS
    Handle = {h1}
    Sender = {s1}
    Nil = Nil
    MaxTurns = 1
    MaxTries = 2
    MaxFaults = 2
PROPERTIES
    CancelAnswered
    CondemnedWorkerGoes
CHECK_DEADLOCK FALSE
