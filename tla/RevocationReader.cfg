CONSTANTS
  Writers = {w1}
  NoWriter = NoWriter
  Keys = {k1, k2}
  NoKey = NoKey
  MaxTTL = 1
  Skew = 1
  MaxEntries = 1
  MaxCalls = 4
  MaxTime = 2
SPECIFICATION FairSpec
PROPERTIES
  RevocationVisible
  ReaderNeverForgets
