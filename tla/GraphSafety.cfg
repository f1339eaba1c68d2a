SPECIFICATION ReplaySpec
CONSTANTS
  Unit = 12
  CounterfactualLimit = 3
  Inputs <- MCInputs
  Releases <- MCReleases
  Snapshot <- MCSnapshot
  MaxRequests <- MCMaxRequests
  Bodies <- MCBodies
  Keys = {"k1", "k2"}
INVARIANTS
  EngineTypeOK
  EligibleIsProved
  StableMeansFirst
  CounterfactualIsMinimal
  WriteMeetsSchema
  ReplayIsExact
CHECK_DEADLOCK FALSE
