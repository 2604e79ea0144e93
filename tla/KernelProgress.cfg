SPECIFICATION FairSpec
CONSTANTS
    r1 = r1
    r2 = r2
    s1 = s1
    s2 = s2
    Runs = {r1, r2}
    Sessions = {s1, s2}
    MaxSlots = 1
    None = None
PROPERTIES
    StopAlwaysStops
    EveryRunEnds
