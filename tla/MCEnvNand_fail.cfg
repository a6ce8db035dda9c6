CONSTANTS
  Value = {v0, v1, v2}
  Default = v0
  SerialMod = 4
SPECIFICATION Spec
INVARIANTS LoadsSaved
