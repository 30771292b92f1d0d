SPECIFICATION FairSpec
INVARIANTS
  TypeOK
  SuccessMeansConfigured
  SomebodyGoesOn
PROPERTIES
  NoHang
