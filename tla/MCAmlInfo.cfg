CONSTANTS
  NBlk = 5
  Slots = 3
  DataPages = 2
  TsSize = 5
  MaxTest = 2
  MaxSaves = 2
  MaxCrashes = 2
  MaxFaults = 3
  MaxTroubles = 4
SPECIFICATION Spec
INVARIANTS TypeOK SavedSurvives Starts ReadsBack
PROPERTIES OthersUntouched SaveEnds
