CONSTANTS
    n1 = n1
    t1 = t1
    t2 = t2
    g1 = g1
    g2 = g2
    c1 = c1
    None = None
    Nodes = {n1}
    Tasks = {t1, t2}
    Tables = {g1, g2}
    Confirms = {c1}
    MaxAgents = 1
SPECIFICATION Spec
CHECK_DEADLOCK FALSE
INVARIANTS
    ProcessRecorded
    

    
