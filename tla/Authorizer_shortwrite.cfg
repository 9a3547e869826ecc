CONSTANTS
  p = p
  q = q
  bad = bad
  nodot = nodot
  a = a
  u = u
  r = r
  dash = dash
  Absent = Absent
  Blank = Blank
  Sharp = Sharp
  Alnum <- Letters
  Marks <- Dashes
  White <- Blanks
  Directive <- Dir
  Kind <- MCKind
  Credentials <- One
  Queue <- PQP
  Paths <- TwoFiles
  InitialDisks <- TwoOfThree
  ForeignTexts <- NoTexts
  Silent = FALSE
  MaxForeignEdits = 0
SPECIFICATION Spec
INVARIANTS CountedMeansWritten
