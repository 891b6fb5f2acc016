SPECIFICATION Spec
CONSTANTS
    n1 = n1
    n2 = n2
    n3 = n3
    Order <- TwoNodes
    Key = {t}
    Text = {a, b, c}
    Open = a
    Closed = b
    Extra = {e}
    Gone = Gone
    Rec = {1, 2, 3, 4}
    Kinds = {"issue", "comment", "pull", "label"}
    MaxEdits = 2
    MaxFaults = 1
INVARIANT IssuesTypeOK
INVARIANT NoTwins
PROPERTY NotCopiedBack
PROPERTY ChangedCopyKept
PROPERTY NewValuesStand
PROPERTY MarksStay
PROPERTY Settles
