SPECIFICATION FairSpec
CONSTANTS
  MaxBlocks = 3
  MaxLen = 2
  MaxSlices = 2
  Layouts <- AllLayouts
  Redactions <- AllRedactions
INVARIANTS
  RedactsWhatIsAsked
CHECK_DEADLOCK FALSE
