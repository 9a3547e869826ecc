CONSTANTS
  c = c
  d = d
  slash = slash
  x = x
  y = y
  Empty = Empty
  Nowhere = Nowhere
  Dirs = {c}
  Spelling <- MCSpelling
  FirstPaths <- XYX
  Others = {x, y}
  MaxString = 2
  MaxRuns = 3
  MaxForeign = 0
SPECIFICATION Spec
INVARIANTS AddTakesNothing
