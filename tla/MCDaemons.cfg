CONSTANTS
  Services = {"s1", "s2", "s3"}
  Unknown = {"x"}
  MaxRestarts = 3
  MaxServices = 1
  MaxPowerLosses = 1
  ConfigFiles = {"f", "g"}
  MaxNotifs = 3
  Stamps = {1, 2}
  MaxVisible = 2
  MaxCommands = 2
  MaxEntries = 4
  MaxDays = 2
  MaxFileSize = 2
  MaxVolume = 2
  DefaultVolume = 1
  VolumeStep = 1
  VolumeInputs = {0, 3}
  MaxAudioCommands = 3
  InputDevices = 2
  RemoteCodes = {103}
  OtherCodes = {30}
  MaxKeyEvents = 3
  InputChannel = 1
  SystemApps = {"home", "settings"}
  OtherApps = {"a", "b"}
  MaxPkgCrashes = 2
  MaxPkgCommands = 3
  NetIfaces = {"lo", "wlan0"}
  LoopbackIfaces = {"lo"}
  WifiIfaces = {"wlan0"}
  MaxNetChanges = 2
  MaxNetOut = 2
  BusClients = {0}
  Topics = {"t"}
  MaxFrames = 2
  MaxIds = 2
  MaxHandles = 2
  MaxSockets = 3
  MaxLunaCalls = 1
  LunaPatterns = {"audio.status"}
  FirstDelay = 1
  MaxDelay = 3
SPECIFICATION MCSpec
INVARIANTS
  GraphTypeOK OnlyAcyclicSorted CycleIsReal SortIsStartOrder
  AtMostTwoMonitords LogComplete KeysInOrder InstalledWhole PendingAwaited
  OneSocketOneTimer PublishedIsRecorded
PROPERTIES
  MCTerminates ConfigKept MonitordComesBack ShownIsPublished MCStatusConverges
  MCNetStatusSettles
CHECK_DEADLOCK FALSE
