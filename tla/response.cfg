SPECIFICATION Spec
CONSTANTS
  Digits <- FiveDigits
  Responses <- AllResponses
  Rules <- AllRules
INVARIANTS
  CutsDoNotMatter
  PositionsAreTrue
  EndsWithItsLength
  HidesTheRest
  RevealsSelected
PROPERTIES
  ReadsInOrder
CHECK_DEADLOCK FALSE
