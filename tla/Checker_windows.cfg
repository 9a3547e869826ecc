CONSTANTS
  Words <- MCWords
  Remote = 3
  Texts <- MCTexts
  Ovpn <- WithOther
  Periods <- MCPeriods
  Silent = FALSE
SPECIFICATION FairSpec
INVARIANTS TypeOK NewsArePartition EachTriedOnce OneByOne BreaksInTime
PROPERTIES Termination
