CONSTANTS
  NDev = 3
  HasMac <- MacRest
  InitSets <- AllUp
  EthRotate = TRUE
  RetryForever = TRUE
  RetryCnt = 0
  ArpTimeoutCount = 2
  MaxTryCount = 2
  FileLen = 1
  DefBlk = 2
  OptBlk = 2
  SequenceSize = 16
  RRQTimeoutMax = 1
  TimeoutCount = 0
  Wired <- WireLast
  MemSize = 2
  MaxSessions = 2
  MaxFaults = 1
  LoseOps <- AllOps
  DupOps <- AllOps
  Replies = {"DATA"}
  Abort = FALSE
  Server = {1, 2}
  GivesGateway = {1, 2}
  GivesFile = {1}
  BootpTimeoutCount = 2
  PoolSize = 2
SPECIFICATION FairNetBoot
INVARIANTS NetBootTypeOK TimerArmed PauseConsistent BoundIsLeased
PROPERTIES EventuallyBooted LoopSpec
