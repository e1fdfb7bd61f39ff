SPECIFICATION FairSpec
CONSTANTS
    Text = {a, b}
    Blank = Blank
    NoText = NoText
    MaxTurns = 2
    MaxAttempts = 2
    MaxFaults = 1
INVARIANTS SubmittedOnce ConfirmedHere AnswersOwnInput EachEndReportedOnce
PROPERTIES TurnEnds WatchedTurnEnds
CHECK_DEADLOCK FALSE
