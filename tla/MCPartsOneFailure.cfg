SPECIFICATION Spec
CONSTANTS
    n1 = n1
    n2 = n2
    n3 = n3
    Node = {n1, n2}
    Order <- PairOrder
    nameX = nameX
    nameY = nameY
    Used <- NamesUsed
    Name = {nameX, nameY}
    Val = {a, b}
    Sub = {f}
    GuardRule = nameX
    Right = a
    Kinds = {"collaborators"}
    MaxEdits = 1
    MaxFaults = 1
PROPERTY TakenByPeople
