SPECIFICATION FairSpec
CONSTANTS
    r1 = r1
    r2 = r2
    s1 = s1
    c1 = c1
    c2 = c2
    bash = bash
    read = read
    Runs = {r1, r2}
    Sessions = {s1}
    Calls = {c1, c2}
    Tools = {bash, read}
    Preapproved = {read}
    None = None
    Elsewhere = Elsewhere
INVARIANTS
    NoOrphanCard
    WaitingIsLeft
    HighRiskIsTheOperators
    GrantsWereShown
    BadgeTellsTheTruth
    NoIdleUnderACard
PROPERTIES
    AnswerIsFinal
    EveryCardCloses
