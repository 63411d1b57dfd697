SPECIFICATION FairSpec
CONSTANTS
  Texts <- MCTexts
  Items = {i1, i2, i3}
  NULL = NULL
  Dangling = Dangling
  MAXLINE = 12
  Workers = {w1, w2}
  Rounds = 1
  Hangups = TRUE
INVARIANTS
  TypeOK
  ReadsAsWritten
  ListIsFile
  NothingElseLost
  ReadersSafe
PROPERTIES
  MainMovesOn
