CONSTANTS
  NDev = 1
  HasMac <- MacAll
  InitSets <- AllUp
  EthRotate = TRUE
  RetryForever = FALSE
  RetryCnt = 2
  ArpTimeoutCount = 2
  MaxTryCount = 3
  FileLen = 6
  DefBlk = 1
  OptBlk = 2
  SequenceSize = 4
  RRQTimeoutMax = 1
  TimeoutCount = 1
  Wired <- WireAll
  MemSize = 12
  MaxSessions = 1
  MaxFaults = 1
  LoseOps = {"ACK"}
  DupOps <- None
  Replies = {"DATA"}
  Abort = FALSE
SPECIFICATION TftpSpec
INVARIANTS LoadedIsFile
