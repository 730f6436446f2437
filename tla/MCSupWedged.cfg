CONSTANTS
  Services <- SmallServices
  Order <- SmallOrder
  Deps <- SmallDeps
  Critical = {"stardust"}
  Policy <- SmallPolicy
  Health <- SmallHealth
  Bus = "stardust"
  Present = {"stardust", "wifid", "netmd"}
  MaxCrash <- SmallMaxCrash
  SpawnMayFail = FALSE
  MapOutcomes = {"blocked"}
  ExitKinds = {"exit0", "exit1"}
  MaxExits = 1
SPECIFICATION FairSpec
PROPERTY WatchdogKicked
CHECK_DEADLOCK FALSE
