CONSTANTS
  MaxRestarts = 3
  MaxServices = 1
  MaxPowerLosses = 0
  ConfigFiles = {"f", "g"}
SPECIFICATION InisFairSpec
PROPERTIES MonitordRestarted
CHECK_DEADLOCK FALSE
