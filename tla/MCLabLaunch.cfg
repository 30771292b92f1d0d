CONSTANTS
  Scripts <- MCScripts
  Base = 9400
SPECIFICATION FairSpec
INVARIANTS
  TypeOK
  NoOrphan
  AddressesDistinct
  Plugged
PROPERTIES
  ShutdownEnds
