CONSTANTS
    t1 = t1
    t2 = t2
    w1 = w1
    w2 = w2
    k1 = k1
    k2 = k2
    Tasks <- TwoTasks
    Loop = loop
    Threads <- TwoThreads
    Tools <- TwoTools
    NoTool = NoTool
    Faults = {"unreachable", "ended", "dropped"}
    MaxFaults = 1
    MaxAsks = 2
    MaxReplies = 1
    HumanHelps = TRUE
    Unscoped <- Short
SPECIFICATION Spec
INVARIANTS SnapshotAgrees CanceledIsArchived WorkingIsInFlight
SYMMETRY Symmetry
CHECK_DEADLOCK FALSE
