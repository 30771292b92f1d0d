CONSTANTS
  N <- MCN
  B <- MCB
  Loop = 2
  MaxLoop = 4
  Longs <- AnyLong
  Ranges <- All
SPECIFICATION Spec
INVARIANTS
  TypeOK
  InRange
  StepIsExact
PROPERTIES
  LinearIfCarryFree
