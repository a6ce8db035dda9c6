CONSTANTS
  a = a b = b c = c d = d v1 = v1 v2 = v2
  Key = {a, b, c}
  Value = {v1, v2}
  NoKey = NoKey
  NoValue = NoValue
  Hash <- HashColliding
  Nents = {4, 6}
  FilledMod = 16
  MaxNoMem = 1
  Char <- MCChar
  KeyText <- MCKeyText
  ValueText <- MCValueText
  KeyOrder <- MCKeyOrder
SPECIFICATION Spec
INVARIANTS TypeOK EntriesReachable FilledIsEntries NamesKept ImportInverts ExportFits
PROPERTIES IsMap
