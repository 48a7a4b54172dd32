SPECIFICATION ToolsSpec
CONSTANTS
  SpecialSectors = 1
  PackageAt = 5
  PackageSectors = 1
  BootAt = 12
  BootSectors = 2
  Cards <- MCCards
  SlotSectors = 3
  UdiskSectors = 1
  DamageLimit = 1
  KERNEL_ADDR = 100
  PageWords = 4
  MIN_BLOCK = 3
  MIN_SCORE = 5
  MIN_AGREE = 2
  MaxPointers = 12
  MaxAnchors = 2
  Kernels <- MCKernels
  ModuleSets <- MCModuleSets
  Built <- MCBuilt
  Gpus <- MCGpus
  Strips <- MCStrips
  W = 16
  STAMP = 7
  Page = 3
  RawSelector = 5
  GzipSelector = 9
  PackageSum = 1
  PackageLength = 2
  UbootAt = 3
  UbootWords = 4
  UbootSum = 1
  UbootLength = 2
  SelectorAt = 3
  Room = 7
  Pairs <- MCPairs
  Audited <- MCAudited
  Lengths = {1, 2, 5, 6, 7}
  PackageCells = {c1, c2}
  BootCells = {c3, c4}
  IdentityCells = {c1}
  FragileCells = {c2, c4}
  Targets = {a}
  Firmwares = {1, 2}
  Committed = 1
  Outdated = {}
  Contents = {1, 2}
  DriverOf <- MCDriverOf
  Reverts = FALSE
  CutPoints <- OutsideBuildWindows
  EditPoints <- OutsideStamp
INVARIANTS
  PreparedFromCard
  VerifiedHoldsBootChain
  RejectedWasDamaged
  SlotsComposed
  RecoveredAreTrue
  FittingModulesMatch
  SealedModuleLoads
  StrippedLoadsAlike
  PackageStarts
  KernelStarts
  RestoredIsOriginal
  ImagesOfOneFirmware
  SealedAudioIsFresh
  PayloadClaimsItsBuild
PROPERTIES
  ForeignUntouched
