SPECIFICATION RuntimeSpec
CONSTANTS
    t1 = t1
    c1 = c1
    Agents = {x, standby}
    Default = standby
    Sockets = {s1, s2}
    Prompts = {m1}
    Browsers = {b1}
    NetworkLosses = 2
    Writers = {w1, w2}
    Flusher = flusher
    BufferMax = 2
    MaxMemories = 3
    MaxRefused = 1
    MaxLost = 1
    Conns = {k1, k2}
    Feeds = {f1}
    scope <- WholeScope
    Talkers = {k1}
    Updates = {u1}
    All = all
    Tasks = {t1, t2}
    Containers = {c1, c2}
    Stoppers = {st1, st2}
    Capacity = 2
    TaskFaults = 2
    TaskCrashes = 1
    MaxCopies = 2
    Brains = {x1, x2}
    BuiltIn = {x1}
    Calls = {c1, c2}
    Kinds = {"create", "update", "delete", "add", "chunk"}
    NoBrain = nobrain
    Given = {g1}
    Chunks = 2
    MaxFaults = 1
    MaxRestarts = 1
INVARIANTS
    StatusIsHistory
    UpIsTrackedUnlessMet
    KeptUnlessMet
    CountsUnlessMet
    NamedEntriesLive
    WatchersAreTold
    CountedIsStored
CHECK_DEADLOCK FALSE
