\* One replica, everything that can fail, and forked histories.
SPECIFICATION BoundedSpec
CONSTANTS
  P = P
  R1 = R1
  Node = {P, R1}
  Primary = P
  main = main
  v1 = v1
  Ref = {main, v1}
  Tag = {v1}
  a = a
  b = b
  c = c
  Commit = {a, b, c}
  None = None
  Reach <- Fork
  w1 = w1
  Runner = {w1}
  AutoFix = TRUE
  Writers = {P, R1}
  Fragile = {R1}
  Faulty = TRUE
  Edits = 3
INVARIANTS TypeOK BaseFromPrimary
PROPERTIES LosesNothing TagsStay Settles
