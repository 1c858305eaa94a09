SPECIFICATION Spec
CHECK_DEADLOCK FALSE
CONSTANTS
  W = 4
  V4 <- MCV4
  Texts <- MCTexts
  FaultyTexts <- MCFaultyTexts
  ParseSlots = 4
  QueryLines <- MCQueryLines
INVARIANT ParsedStanzas
INVARIANT ScanAgrees
INVARIANT LookupExact
INVARIANT BlocksAreMinimal
INVARIANT LongestBlockAnswer
INVARIANT ContactsOnce
