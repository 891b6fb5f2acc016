\* Two controllers, an unreliable database, crashes, hand-overs and shutdowns.
SPECIFICATION LiveSpec
CONSTANTS
  p1 = p1
  p2 = p2
  Process = {p1, p2}
  Nobody = Nobody
  TTL = 3
  Renew = 1
  Lag = 2
  LateRelease = FALSE
INVARIANTS TypeOK AtMostOneLeading LeaseWithinRow QuietAfterHandOver
PROPERTIES LeaderReturns ImplementsLeadership
