SPECIFICATION Spec
CONSTANTS
    c1 = c1
    c2 = c2
    Controller = {c1, c2}
    Node = {n1, n2}
    None = None
    Priority <- Priorities
    Threshold = 2
    Condition = {"ok", "ill", "down"}
    MaxFaults = 1
PROPERTY RowSettles
PROPERTY PreferredLeads
INVARIANT YieldsOnce
