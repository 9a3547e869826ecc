CONSTANTS
  d = d
  e = e
  a = a
  b = b
  c = c
  ini = ini
  Absent = Absent
  Stranger = Stranger
  NoMatch = NoMatch
  BadTarget = BadTarget
  Dirs = {d, e}
  Names = {a, b, c, ini}
  Ini = {ini}
  Rules <- AllRules
  FileLists <- Lists
  Silent = FALSE
  MayOverwrite = FALSE
  MaxForeign = 0
SPECIFICATION Spec
INVARIANTS AtOriginOrGoal AllOrNothing OrderSafePlanIsExact
PROPERTIES ImplementsBatch
