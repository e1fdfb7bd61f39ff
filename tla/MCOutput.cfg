CONSTANTS
    Client = {c1}
    Poster = {p1}
    MaxLines = 2
    MaxRestored = 3
    MaxTerminals = 1
    MaxOutput = 4
    MaxTurns = 2
    MaxExits = 1
SPECIFICATION FairSpec
INVARIANTS NoLostWakeup ReadsEverythingOnce
PROPERTIES ImplementsOutputLog WaitingClientServed
CHECK_DEADLOCK FALSE
