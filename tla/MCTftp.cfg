CONSTANTS
  NDev = 2
  HasMac <- MacRest
  InitSets <- AllUp
  EthRotate = TRUE
  RetryForever = FALSE
  RetryCnt = 3
  ArpTimeoutCount = 2
  MaxTryCount = 4
  FileLen = 9
  DefBlk = 1
  OptBlk = 2
  SequenceSize = 4
  RRQTimeoutMax = 1
  TimeoutCount = 1
  Wired <- WireAll
  MemSize = 10
  MaxSessions = 2
  MaxFaults = 2
  LoseOps <- AllOps
  DupOps <- AllOps
  Replies = {"OACK", "DATA", "NOTFOUND", "BUSY"}
  Abort = TRUE
SPECIFICATION TftpSpec
INVARIANTS TftpTypeOK   
PROPERTIES LoopSpec
