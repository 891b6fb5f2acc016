\* The replication engine's queue: a round, and two triggers at any time.
SPECIFICATION LiveSpec
CONSTANTS
  c1 = c1
  c2 = c2
  c3 = c3
  Caller = {c1, c2, c3}
  Issues = FALSE
INVARIANTS OneRun FlagsMatch
PROPERTY TriggerSeen
