CONSTANTS
    ID = {s1}
    Meta = {m1, m2}
    Handle = {h1, h2}
    Caller = {c1}
    Spawner = {}
    Nil = Nil
    Forces = {FALSE, TRUE}
    MaxStops = 1
    MaxCrashes = 1
SPECIFICATION Spec
SYMMETRY Symmetry
CHECK_DEADLOCK FALSE
INVARIANTS NoForeignUpdate NoStrayWorker WorkerOfCurrentSession OwnConnection DiskAgrees StoppedLeavesNoWorker
