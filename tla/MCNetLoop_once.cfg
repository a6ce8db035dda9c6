CONSTANTS
  NDev = 2
  HasMac <- MacAll
  InitSets <- AllUp
  EthRotate = TRUE
  RetryForever = FALSE
  RetryCnt = 1
  ArpTimeoutCount = 2
  MaxTryCount = 3
SPECIFICATION Spec
INVARIANTS OnceTriesAllInterfaces
