CONSTANTS
  Services <- MCServices
  Order <- MCOrder
  Deps <- MCDeps
  Critical = {"stardust"}
  Policy <- MCPolicy
  Health <- MCHealth
  Bus = "stardust"
  Present = {"stardust", "wifid", "pkgd"}
  MaxCrash <- MCMaxCrash
  SpawnMayFail = TRUE
  MapOutcomes = {"blocked", "borrowed"}
  ExitKinds = {"exit0", "exit1", "gone"}
  MaxExits = 3
SPECIFICATION Spec
INVARIANTS TypeOK Supervised StartsOnlyDead CrashBudget BootedCritical
PROPERTIES FollowsLifecycle
CHECK_DEADLOCK FALSE
