CONSTANTS
  W = 12
  MaxRegions = 3
  Memory <- MCMemory
  Sizes = {1, 2}
  Aligns = {2, 3}
  Limits = {0, 6}
  MaxOps = 5
SPECIFICATION Spec
INVARIANTS TypeOK ReservedIsHeld TablesApart
PROPERTIES AllocIsFresh
