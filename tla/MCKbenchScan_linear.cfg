CONSTANTS
  N <- MCN
  B <- MCB
  Loop = 3
  MaxLoop = 6
  Longs <- Wider
  Ranges <- Default
SPECIFICATION Spec
PROPERTIES
  ImplementsLinearScan
