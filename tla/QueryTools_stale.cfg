SPECIFICATION Spec
CONSTANTS
  Account <- MCAccount
  FirstDir <- MCFirstDir
  Fixed <- MCFixed
  FilterSets <- MCFilterSets
  Limit = {1, 2}
  MaxChanges = 1
  MaxLoads = 1
INVARIANTS StaleIsOld
