CONSTANTS
  Writers = {w1, w2}
  NoWriter = NoWriter
  Keys = {k1, k2}
  NoKey = NoKey
  MaxTTL = 1
  Skew = 1
  MaxEntries = 2
  MaxCalls = 3
  MaxTime = 4
SYMMETRY Symmetry
SPECIFICATION Spec
INVARIANTS
  RevokedTokensRejected
  CommittedSurvives
  NoFalseRollback
