CONSTANTS
  Cwd = "cwd"
  Paths <- MCPaths
  Folders <- MCFolders
  TooLong <- MCTooLong
  Disks <- MCDisks
  NoDir = NoDir
  MaxForeign = 2
  x = x
  y = y
  d = d
  Args <- MCArgs
  Option <- MCOption
  Texts <- MCTexts
  PatternOf <- MCPatternOf
  Point = Point
  Minus = Minus
  Other = Other
  MaxInt = 12
  Inputs <- MCInputs
SPECIFICATION Spec
INVARIANTS ListedIsFound
