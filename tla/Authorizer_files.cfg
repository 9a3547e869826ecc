CONSTANTS
  p = p
  q = q
  bad = bad
  nodot = nodot
  a = a
  u = u
  r = r
  dash = dash
  Absent = Absent
  Blank = Blank
  Sharp = Sharp
  Alnum <- Letters
  Marks <- Dashes
  White <- Blanks
  Directive <- Dir
  Kind <- MCKind
  Credentials <- Three
  Queue <- PQP
  Paths <- TwoFiles
  InitialDisks <- TwoOfThree
  ForeignTexts <- FewTexts
  Silent = FALSE
  MaxForeignEdits = 1
SPECIFICATION FairSpec
INVARIANTS NotAskedTwice OthersIntact
PROPERTIES Termination
