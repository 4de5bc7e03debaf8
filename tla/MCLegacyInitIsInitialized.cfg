SPECIFICATION Spec
CONSTANTS
  v1 = v1
  v2 = v2
  Versions = {v1, v2}
  NoContent = NoContent
  NoHash = NoHash
  NoConfig = NoConfig
  NoApp = NoApp
  Served <- ServedConfigs
  MaxRetries = 1
  MaxWakes = 1
  MaxReinits = 0
  MaxRestarts = 0
INVARIANTS
  InitializedIsSuccessful
CHECK_DEADLOCK FALSE
