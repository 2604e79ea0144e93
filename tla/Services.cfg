SPECIFICATION Spec
CONSTANTS
    k1 = k1
    k2 = k2
    k3 = k3
    inbox = inbox
    Tickets = {k1, k2, k3}
    Columns = {inbox}
    Base = 3
    MaxKey = 3
    Nobody = Nobody
    t1 = t1
    Turns = {t1}
    MaxDrops = 3
    NoCursor = NoCursor
    m1 = m1
    m2 = m2
    w1 = w1
    Memories = {m1, m2}
    Writers = {w1}
    Rebuilds = {"trigger", "button"}
    MaxSwitches = 3
    MaxTexts = 3
    Pending = Pending
    x1 = x1
    x2 = x2
    x3 = x3
    f1 = f1
    f2 = f2
    Models = {x1, x2, x3}
    Flights = {f1, f2}
    SwitchLimit = 2
    Hold = 1
    MaxTime = 2
    l1 = l1
    l2 = l2
    Lessons = {l1, l2}
    Full = 2
    MaxRatings = 3
    Unrated = Unrated
    a1 = a1
    a2 = a2
    e1 = e1
    e2 = e2
    Links = {a1, a2}
    Exchanges = {e1, e2}
    MaxTokens = 3
    Nothing = Nothing
    Hours = 3
    HourSlots = 2
    LastDay = 1
    MaxJump = 2
    Never = Never
    r1 = r1
    r2 = r2
    r3 = r3
    Requests = {r1, r2, r3}
    NoFile = NoFile
    u1 = u1
    u2 = u2
    c1 = c1
    g1 = g1
    d1 = d1
    d2 = d2
    Uploads = {u1, u2}
    Contents = {c1}
    Messages = {g1}
    Deleters = {d1, d2}
    Absent = Absent
    RetryLimit = 2
    MaxEvents = 8
    n1 = n1
    n2 = n2
    q1 = q1
    p1 = p1
    Facts = {n1, n2}
    Recalls = {q1}
    Passes = {p1}
    MaxFilings = 1
    MaxEditions = 3
    MaxCalls = 2
INVARIANTS
    EvidenceSurvivesFolds
    ToolCallsClose
    
    EachRunCountsOnce
    ResumedViewIsCurrent
    CodeIsSentOnce
    RenewalsLeaveAToken
    NoFiringIsMissed
    FilesFollowRows
PROPERTIES
    SurvivorIsWhatWasRead
    DropsLandWhereAimed
    FramesInOrder
    SwitchesToAFreeModel
    OnlyTheHostTakesIt
CHECK_DEADLOCK FALSE
