SPECIFICATION Spec
CONSTANTS
    Dispatches = {d1, d2}
    Channels = {github, pod}
    Nobody = nobody
    Lease = 5
    Window = 6
    Delay = 1
    Jitter = 2
    Faults = {"slow"}
    MaxTime = 9
INVARIANT OneHandler
CHECK_DEADLOCK FALSE
