SPECIFICATION VectorsSpec
CONSTANTS
    m1 = m1
    w1 = w1
    Memories = {m1}
    Writers = {w1}
    Rebuilds = {"trigger"}
    MaxSwitches = 2
    MaxTexts = 2
    Pending = Pending
INVARIANTS
    VectorsNameTheirMaker
