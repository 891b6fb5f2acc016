SPECIFICATION SupLiveSpec
CONSTANTS
  p1 = p1
  Process = {p1}
  Nobody = Nobody
  TTL = 5
  Renew = 2
  Lag = 2
  LateRelease = FALSE
  Punctual = TRUE
INVARIANTS SupTypeOK CancelledWithinRenew
PROPERTY WorkFollowsLeadership
