CONSTANTS
  d = d
  e = e
  a = a
  b = b
  c = c
  ini = ini
  Absent = Absent
  Stranger = Stranger
  NoMatch = NoMatch
  BadTarget = BadTarget
  Dirs = {d}
  Names = {a, b, c, ini}
  Ini = {ini}
  Rules <- AllRules
  FileLists <- FewLists
  Silent = FALSE
  MayOverwrite = TRUE
  MaxForeign = 1
SPECIFICATION FairSpec
INVARIANTS TypeOK ContentsKept NoneMovedUncounted ConfigStays
PROPERTIES Termination
