CONSTANTS
    Tasks = {t1}
    Loop = loop
    Threads = {w1}
    Tools = {k1, k2}
    NoTool = NoTool
    Faults = {}
    MaxFaults = 0
    MaxAsks = 2
    MaxReplies = 2
    HumanHelps = FALSE
    Unscoped = {}
SPECIFICATION Spec
INVARIANT AllowedWasApproved
CHECK_DEADLOCK FALSE
