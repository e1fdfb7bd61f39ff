CONSTANTS
    ID = {s1}
    Meta = {m1}
    Handle = {h1}
    Caller = {c1}
    Spawner = {r1}
    Nil = Nil
    Forces = {FALSE}
    MaxStops = 1
    MaxCrashes = 0
SPECIFICATION FairSpec
CHECK_DEADLOCK FALSE
PROPERTIES StopReturns ClosedWorkersGo
