SPECIFICATION Spec
CONSTANTS
    n1 = n1
    n2 = n2
    Order <- TwoNodes
    Name = {x, y}
    None = None
    MaxEdits = 2
    MaxRechecks = 0
    MaxFaults = 0
SYMMETRY NameSymmetry
PROPERTY ArchivedOnlyIfDeletedAlways
