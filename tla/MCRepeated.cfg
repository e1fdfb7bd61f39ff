SPECIFICATION Spec
CONSTANTS
    Text = {a, b}
    Blank = Blank
    NoText = NoText
    MaxTurns = 2
    MaxAttempts = 1
    MaxFaults = 0
INVARIANTS AnsweredOnce
CHECK_DEADLOCK FALSE
