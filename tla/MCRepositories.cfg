SPECIFICATION Spec
CONSTANTS
    n1 = n1
    n2 = n2
    Order <- TwoNodes
    Name = {x, y}
    None = None
    MaxEdits = 1
    MaxRechecks = 1
    MaxFaults = 1
SYMMETRY NameSymmetry
INVARIANT RepositoriesTypeOK
INVARIANT WorkKept
PROPERTY ArchivedOnlyIfDeleted
PROPERTY NoSecondCopy
