CONSTANTS
  MaxVersion = 3
  MaxOtaFaults = 2
  Bytes = {0, 1}
  MaxFileLen = 4
  MaxFiles = 2
  Gear <- MCGear
  HashMod = 16
  MaskMod = 4
  MinChunk = 2
  MaxChunk = 3
  FixedChunk = 2
  VersionNames <- MCVersionNames
  SigningKeys = {"release", "other"}
  TrustedKeys = {"release"}
  DeviceNames = {"tv", "box"}
  AllowedDevices = {"tv"}
  MaxAge = 1
  MaxTime = 2
SPECIFICATION MCSpec
INVARIANTS ChunksTile DeltaRebuilds NoDowngradeEver
PROPERTIES UpdatesLikeSlotPair DownloadRecovers
CHECK_DEADLOCK FALSE
