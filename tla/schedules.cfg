SPECIFICATION Spec
CONSTANTS
    t1 = t1
    t2 = t2
    b1 = b1
    task = task
    cleaner = cleaner
    c1 = c1
    c2 = c2
    c3 = c3
    none = none
    x = x
    s1 = s1
    s2 = s2
    m1 = m1
    m2 = m2
    d1 = d1
    cloud = cloud
    pod = pod
    u1 = u1
    all = all
    TalkCalls <- EveryCall
    TalkKind <- KindOf
    About <- OneConversation
    Actionable <- AskForAction
    PoolSize = 2
    Limit = 2
    Months = 2
    TalkFaults = 1
    MayDelete = TRUE
INVARIANT KeptUnlessOverlapped
PROPERTIES
    EveryExecutionEnds
    ActiveExpires
    EveryIncidentHandled
    CallsReturn
    EveryPromptAnswered
    GoneIsForgotten
    CallsEnd
CHECK_DEADLOCK FALSE
