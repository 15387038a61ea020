CONSTANTS
  chA = chA
  chB = chB
  both = both
  one = one
  Requests = {r1, r2}
  Channels = {chA, chB}
  NoChannel = NoChannel
  Models = {both, one}
  Serves <- MCServes
  Priority <- Distinct
  Rank <- Ranked
  Threshold = 1
  Recovery = 1
  Second = 1
  MaxTime = 3
SPECIFICATION FairSpec
PROPERTIES
  BreakersImplement
  BestAvailable
  HealthFromProviderOnly
  Answered
  ProbesResolve
