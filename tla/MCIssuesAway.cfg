SPECIFICATION Spec
CONSTANTS
    n1 = n1
    n2 = n2
    n3 = n3
    Order <- ThreeNodes
    Key = {t}
    Text = {a, b, c}
    Open = a
    Closed = b
    Extra = {e}
    Gone = Gone
    Rec = {1, 2, 3, 4}
    Kinds = {"issue"}
    MaxEdits = 2
    MaxFaults = 1
PROPERTY NewValuesStandAlways
