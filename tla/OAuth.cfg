SPECIFICATION Spec
CONSTANTS
  MaxCodes = 5
  MaxNonces = 2
  Cap = 4
  Evict = 2
  TTL = 1
  MaxTime = 3
  MaxRestarts = 1
CHECK_DEADLOCK FALSE
INVARIANTS TypeOK SingleUse ExpiryIsExact
PROPERTIES FreshCodeIsKept
