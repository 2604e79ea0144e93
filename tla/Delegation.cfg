SPECIFICATION DFairSpec
CONSTANTS
    r1 = r1
    r2 = r2
    s1 = s1
    s2 = s2
    Runs = {r1, r2}
    Sessions = {s1, s2}
    MaxSlots = 2
    None = None
    Outside = Outside
INVARIANTS
    NothingIsKept
    AnsweredAfterLeaving
    
PROPERTIES
    EveryWaitEnds
CHECK_DEADLOCK FALSE
