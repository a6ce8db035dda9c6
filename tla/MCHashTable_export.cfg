CONSTANTS
  a = a b = b c = c d = d v1 = v1 v2 = v2
  Key = {a, b}
  Value = {v1, v2}
  NoKey = NoKey
  NoValue = NoValue
  Hash <- HashColliding
  Nents = {4}
  FilledMod = 8
  MaxNoMem = 0
  Char <- MCChar
  KeyText <- MCKeyText
  ValueText <- MCValueText
  KeyOrder <- MCKeyOrder
SPECIFICATION Spec
INVARIANTS ExportAlwaysFits
