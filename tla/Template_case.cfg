CONSTANTS
  Open = Open
  Close = Close
  Left = Left
  Right = Right
  Equal = Equal
  Colon = Colon
  Blank = Blank
  NewLine = NewLine
  Semicolon = Semicolon
  Hash = Hash
  a = a
  A = A
  n = n
  Dot = Dot
  Letters = {a, A}
  Digits = {n}
  Chars <- MCChars
  Lower <- MCLower
  MaxLine = 16
  MaxName = 5
  ConfigFiles <- MCFiles
  FileNames <- MCNames
SPECIFICATION Spec
INVARIANTS KeysAreCaseSensitive
