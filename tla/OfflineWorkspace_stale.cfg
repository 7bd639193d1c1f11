SPECIFICATION Spec
CONSTANTS
  Forest = {"a"}
  Configured <- OneForest
  Mode = "offline"
  Override <- Inherit
  Thread = {"t1"}
  NSections = 2
  MaxVersion = 2
CHECK_DEADLOCK FALSE
INVARIANT ReloadIsFresh
