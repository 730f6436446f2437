CONSTANTS
  Services <- SmallServices
  Order <- SmallOrder
  Deps <- SmallDeps
  Critical = {"stardust"}
  Policy <- SmallPolicy
  Health <- SmallHealth
  Bus = "stardust"
  Present = {"stardust", "wifid", "netmd"}
  MaxCrash <- SmallMaxCrash
  SpawnMayFail = TRUE
  MapOutcomes = {"borrowed"}
  ExitKinds = {"exit0", "exit1", "gone"}
  MaxExits = 2
SPECIFICATION FairSpec
PROPERTIES ExitNoticed WatchdogKicked BootCompletes
CHECK_DEADLOCK FALSE
