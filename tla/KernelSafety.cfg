SPECIFICATION Spec
CONSTANTS
    r1 = r1
    r2 = r2
    r3 = r3
    s1 = s1
    s2 = s2
    Runs = {r1, r2, r3}
    Sessions = {s1, s2}
    MaxSlots = 2
    None = None
SYMMETRY Symmetry
INVARIANTS
    OneRunPerSession
    ReservationExact
    NoStrandedQueue
    
    

    
