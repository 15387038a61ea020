SPECIFICATION FairSpec
CONSTANTS
  Paths <- MCPaths
  Directories <- MCDirectories
  RootDir = "."
  Parent <- MCParent
  Tree <- MCTree
  Data = {"x", "y"}
  AllowDirty = TRUE
  MaxEntries = 3
  MaxEdits = 2
  MaxSwaps = 1
  MaxWrites = 2
  MaxCalls = 2
INVARIANTS
  EvidenceTrue
  
  OnlyLockedContentRuns
  NothingLeft
PROPERTIES
  RollbackOnOriginal
  DrillEnds
