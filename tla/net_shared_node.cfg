SPECIFICATION Spec
CHECK_DEADLOCK FALSE
CONSTANTS
  W = 4
  V4 <- MCV4
  Texts <- RangeTexts
  FaultyTexts = {}
  ParseSlots = 4
  QueryLines <- RangeQueries
INVARIANT MostSpecificAnswer
