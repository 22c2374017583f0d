CONSTANTS
    k1 = k1
    k2 = k2
    c1 = c1
    c2 = c2
    None = None
    Failed = Failed
    Calls = {k1, k2}
    Clients = {c1, c2}
    MaxChatter = 1
SPECIFICATION Spec
CHECK_DEADLOCK FALSE

    
PROPERTIES
    
    RepliesMatched
