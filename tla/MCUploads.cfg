SPECIFICATION UploadsSpec
CONSTANTS
  Blocks = {1, 2}
  Torn = Torn
  MaxBlocks = 2
  BufferBlocks = 2
  CrcValues <- MCCrcValues
  Crc <- MCCrc
  CrcUpdate <- MCCrcUpdate
  MaxStarted = 2
  MaxFailed = 2
  MaxReaders = 1
  Updates = {"u1"}
  Budget = 2
  MaxAttempts = 4
  BlockSize = 2
  Retries = 2
  MaxSends = 2
  Connections = {c1, c2, c3}
  SourceChanges = TRUE
  Services = {"slot", "recovery", "upload", "threads", "put", "get"}
INVARIANTS
  VerifiedImageInFlash
  TestSwapIsVerified
  FallbackKept
  InstallIsEarned
  SuccessIsTruthful
  OneInHand
PROPERTIES
  ReaderSeesStableSlot
  ReplacedByAnnounced
  RecoveryHappens
  EveryConnectionCloses
