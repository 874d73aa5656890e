SPECIFICATION Spec
CONSTANTS
    t1 = t1
    t2 = t2
    b1 = b1
    b2 = b2
    p1 = p1
    p2 = p2
    f1 = f1
    f2 = f2
    f3 = f3
    e1 = e1
    e2 = e2
    d1 = d1
    Boxes = {b1, b2}
    Destroyers = {task, cleaner}
    Cleaner = cleaner
    BoxFaults = 2
    BoxCrashes = 1
    Procs = {p1, p2}
    Latest = 3
    Files <- WholeFiles
    UpTargets = {3}
    DownTargets = {0, 1}
    MigrationFaults = 1
    Images <- OldAndNew
    UpwardTargets = {2, 3}
    UpwardFaults = 2
    Pods = {p1, p2}
    Requests = {r1, r2}
    Agents = {a1}
    Sessions = {s1}
    Sockets = {k1}
    Streams = {q1}
    Prompts = {p1}
    Enders = {e1, e2}
    ReplySteps = 2
    SessionRestarts = 1
    Organizations = {t1}
    Teams = {t2}
    AgentIds = {a1}
    Docs = {d1, d2}
    Calls = {c1, c2, c3}
    Chunks = 2
    DocFaults = 1
    Execs = {e1, e2}
    Iterations = 1
    MaxUpstream = 1
    GitFaults = 2
    Batches = {b1, b2}
    Paths = {f1, f2, f3}
    Texts = {b1, b2}
    Proposed <- TheOps
    Absent = absent
    Original = original
    Foreign = foreign
    Partial = partial
    Present = {f1, f3}
    FileFailures = {"backup", "write", "restore"}
    FileFaults = 1
    FileEdits = 1
INVARIANTS
    RunningIsRunning
    LedgerIsSchema
    RunsWithParts
    FollowersHearAll
    CatalogueIsTrue
    DefaultIsUntouched
PROPERTIES
    ReportedIsDone
    UndoneIsUndone
CHECK_DEADLOCK FALSE
