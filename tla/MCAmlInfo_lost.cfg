CONSTANTS
  NBlk = 5
  Slots = 3
  DataPages = 2
  TsSize = 65536
  MaxTest = 3
  MaxSaves = 2
  MaxCrashes = 0
  MaxFaults = 1
  MaxTroubles = 1
SPECIFICATION Spec
INVARIANT SavedIsPersistent
