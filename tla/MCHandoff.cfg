\* Two replicas that may share a version.
SPECIFICATION LiveSpec
CONSTANTS
  P = P
  R1 = R1
  R2 = R2
  Node = {P, R1, R2}
  Primary = P
  main = main
  Ref = {main}
  Tag = {}
  Branch = main
  b = b
  c = c
  d = d
  m = m
  sq = sq
  Commit = {b, c, d, m, sq}
  None = None
  Reach <- Merged
  Pushed <- Sites
  Pulls = 3
  Names = 2
  Acts = 4
  Faults = 1
  Unsaved = FALSE
INVARIANTS TypeOK BackupKept
PROPERTIES KeepsWork Resolves
