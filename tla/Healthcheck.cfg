CONSTANTS
  Rise = 3
  Fall = 2
SPECIFICATION FairSpec
INVARIANTS
  TypeOK
PROPERTIES
  ImplementsHysteresis
  DeadServiceGetsDown
  DisableFileWins
