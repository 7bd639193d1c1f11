SPECIFICATION FairSpec
CONSTANTS
  DN = {"root", "a", "b"}
  Root = "root"
  MaxMembers = 3
  MaxDeletes = 2
CHECK_DEADLOCK FALSE
INVARIANTS TypeOK ExpansionIsComplete MembersAccountedFor BrokenMemberAloneCostsOne
PROPERTY ExpansionEnds
