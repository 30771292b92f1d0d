CONSTANTS
  R1 = R1
  R2 = R2
  NS1 = NS1
  NS2 = NS2
  VM <- MCVM
  NS <- MCNS
  Host <- MCHost
  OobVM <- MCVM
  MaxFaults = 2
SPECIFICATION FairSpec
INVARIANTS
  TypeOK
  ReadyMeansLinked
  ShellMeansConfigured
PROPERTIES
  NoHang
  FaultFreeBoot
  ImplementsReadiness
