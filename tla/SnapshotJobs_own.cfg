SPECIFICATION FairSpec
CONSTANTS
  j1 = j1
  j2 = j2
  j3 = j3
  Job = {j1, j2}
  NSections = 2
  Path <- OwnPath
  Suffix <- OwnSuffix
  TmpOf <- OwnTmpOf
  Target <- OwnTarget
  Encryption = {"none", "dpapi"}
  IOErrors = TRUE
  MaxRestarts = 1
  None = None
  Empty = Empty
  Torn = Torn
CHECK_DEADLOCK FALSE
INVARIANTS TypeOK ReportMatchesFile NoTornSnapshot
PROPERTIES OutcomeIsFinal EveryJobEnds StoreSpec
