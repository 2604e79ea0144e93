SPECIFICATION FairSpec
CONSTANTS
    a1 = a1
    a2 = a2
    w1 = w1
    w2 = w2
    s1 = s1
    Autos = {a1, a2}
    Workspaces = {w1, w2}
    Sessions = {s1}
    MaxFailures = 1
    MaxEdits = 1
    Triggers <- Offered
    None = None
INVARIANTS
    NoWatchLoop
    SessionHasOneOwner
    

    
