SPECIFICATION Spec
CONSTANTS
  Account = {"svc", "gmsa"}
  Ports = {"8443"}
  ConfigSet <- MCConfigSet
  Template <- MCTemplate
  EnvProfiles = {"A", "X"}
  MaxOps = 2
  MaxEdits = 1
  MaxInterrupts = 1
  MaxGlitches = 1
INVARIANTS TypeOK CleanSetupServes RegenerateRecovers KeepServes ServesWhatIsSet
PROPERTIES ServesAfterSetup
CHECK_DEADLOCK FALSE
