CONSTANTS
  Requests = {r1, r2, r3}
  Threshold = 2
  Recovery = 3
  Second = 2
  MaxTime = 9
SPECIFICATION Spec
INVARIANTS
  SingleProbe
PROPERTIES
  OpenUntilRecovered
  FreshEvidenceOnly
