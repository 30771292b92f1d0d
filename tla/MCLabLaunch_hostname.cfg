CONSTANTS
  Scripts <- TwoRouters
  Base = 9400
SPECIFICATION Spec
INVARIANTS
  OwnHostname
