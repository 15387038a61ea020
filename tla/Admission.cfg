SPECIFICATION Spec
CONSTANTS
  reqA = reqA
  reqB = reqB
  vkA = vkA
  vkB = vkB
  noKeyM = noKeyM
  noReqM = noReqM
  Requests <- MCRequests
  Keys <- MCKeys
  NoKey <- noKeyM
  NoRequest <- noReqM
  Defaults <- MCDefaults
  KeyMax <- MCKeyMax
  DefaultBudget = 0
  KeyBudget <- MCKeyBudget
  CleanupEvery = 2
  Window = 2
  CompactAt = 1
  MaxEstimate = 1
  MaxExcess = 1
  MaxCost <- MCMaxCost
  Queried <- MCQueried
  MaxTime = 2
  MaxArrivals = 3
INVARIANTS
  SlotsExact
  WindowExact
  RatesBounded
  BudgetOvershootBounded
SYMMETRY MCSymmetry
