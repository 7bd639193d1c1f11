SPECIFICATION Spec
CONSTANTS
  DcList <- MCDcList
  Entry = "dc1"
  Many = 2
  GroupList <- MCGroupList
  MembersOf <- MCMembersOf
  Cap = 2
INVARIANT InventorySurvivesStorage
