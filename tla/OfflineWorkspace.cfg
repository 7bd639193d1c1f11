SPECIFICATION FairSpec
CONSTANTS
  Forest = {"a", "l", "s"}
  Configured <- LiveAndOffline
  Mode = "offline"
  Override <- LiveOverride
  Thread = {"t1"}
  NSections = 2
  MaxVersion = 2
CHECK_DEADLOCK FALSE
INVARIANTS TypeOK ToolCallHasEngine ReportedIsLoaded TourReachesAll ReloadAloneIsFresh
PROPERTY ToolCallReturns
