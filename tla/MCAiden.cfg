SPECIFICATION FairSpec
CONSTANTS
    Sender = {s1, s2}
    Input <- MCInput
    Nil = Nil
    ChunkBytes = 2
    WriteAttempts = 2
    EnterAttempts = 2
    MaxFaults = 2
    MaxLines = 2
INVARIANTS SubmittedWhole ConfirmedByOutput
PROPERTIES WorkerEnds
CHECK_DEADLOCK FALSE
