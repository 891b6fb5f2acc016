SPECIFICATION Spec
CONSTANTS
    n1 = n1
    n2 = n2
    n3 = n3
    Node = {n1, n2, n3}
    Order <- NodeOrder
    nameX = nameX
    nameY = nameY
    Used <- NamesUsed
    Name = {nameX, nameY}
    Val = {a, b}
    Sub = {f}
    GuardRule = nameX
    Right = a
    Kinds = {"collaborators", "protection", "releases", "variables", "topics", "fields", "private", "guard", "packages", "teams"}
    MaxEdits = 2
    MaxFaults = 1
INVARIANT PartsTypeOK
INVARIANT BaseWasEverywhere
PROPERTY OnlyPeopleRemove
PROPERTY NewValueStands
PROPERTY Settles
