SPECIFICATION Spec
CONSTANTS
    Dispatches = {d1, d2}
    Channels = {github, pod}
    Nobody = nobody
    Lease = 3
    Window = 4
    Delay = 1
    Jitter = 2
    Faults = {}
    MaxTime = 6
INVARIANT OneHandler
SYMMETRY Symmetry
CHECK_DEADLOCK FALSE
