SPECIFICATION Spec
INVARIANTS
  WaitsForParent
