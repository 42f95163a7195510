SPECIFICATION AppSpec
CONSTANTS
  Words = {"manage", "d", "r", "x", "o"}
  DefaultFull = "manage"
  Blank = "blank"
  Padded = {"padded"}
  Configurations <- MCConfigurations
  Deployments <- MCDeployments
CHECK_DEADLOCK FALSE
INVARIANTS
  CapabilitiesAreSeparate
  EvidenceIsExact
  OutsidersLearnNothing
  AcceptedSettingsWork
  OwnedAreReleased
