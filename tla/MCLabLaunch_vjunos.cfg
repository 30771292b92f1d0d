CONSTANTS
  Scripts <- OneVjunos
  Base = 9400
SPECIFICATION Spec
INVARIANTS
  Plugged
