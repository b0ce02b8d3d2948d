SPECIFICATION Spec
CONSTANTS
  Space = 1
  IntRange = 8
  YYINITDEPTH = 3
  YYMAXDEPTH = 8
  Texts <- AnyTexts
  Places = 2
INVARIANTS TypeOK OwnedOnce MeansWhatItSays 
PROPERTIES Terminates
CHECK_DEADLOCK FALSE
