SPECIFICATION Spec
CONSTANTS
  Procs = {procA, procB}
  NoProc = noProc
  Keys = {1, 2}
  Values = {valA, valB}
  NoValue = noValue
  Dirs = {dirA, dirB}
  NoDir = noDir
  MaxOps = 3
SYMMETRY Symmetry
INVARIANTS ValuesKept BackupComplete StrictReady
PROPERTY NoSilentReplace
