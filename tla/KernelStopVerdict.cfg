SPECIFICATION Spec
CONSTANTS
    r1 = r1
    s1 = s1
    Runs = {r1}
    Sessions = {s1}
    MaxSlots = 1
    None = None
INVARIANTS
    StopIsNeverSuccess
