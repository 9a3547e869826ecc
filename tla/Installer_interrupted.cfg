CONSTANTS
  c = c
  d = d
  slash = slash
  x = x
  y = y
  Empty = Empty
  Nowhere = Nowhere
  Dirs = {c, d}
  Spelling <- MCSpelling
  FirstPaths <- MCPaths
  Others = {x, y}
  MaxString = 9
  MaxRuns = 3
  MaxForeign = 1
SPECIFICATION Spec
INVARIANTS TypeOK OthersKept Uninstallable PathHasItOnce RoundTrip
