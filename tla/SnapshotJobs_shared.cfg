SPECIFICATION FairSpec
CONSTANTS
  j1 = j1
  j2 = j2
  j3 = j3
  Job = {j1, j2, j3}
  NSections = 1
  Path <- SharedPath
  Suffix <- SharedSuffix
  TmpOf <- SharedTmpOf
  Target <- SharedTarget
  Encryption = {"none"}
  IOErrors = FALSE
  MaxRestarts = 1
  None = None
  Empty = Empty
  Torn = Torn
CHECK_DEADLOCK FALSE
INVARIANTS SomeJobPublishes
