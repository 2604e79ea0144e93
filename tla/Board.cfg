SPECIFICATION FairSpec
CONSTANTS
    c1 = c1
    c2 = c2
    r1 = r1
    r2 = r2
    r3 = r3
    p1 = p1
    p2 = p2
    Cards = {c1, c2}
    Runs = {r1, r2, r3}
    Callers = {p1, p2}
    MaxTouches = 3
    None = None
INVARIANTS
    WorkIsAccountedFor
PROPERTIES
    BoardDrains
