CONSTANTS
  Threads = {t1, t2}
  Runners4 = {t1}
  Runners6 = {t1, t2}
  Writers = {t2}
  NoThread = NoThread
  Devices = {1}
  Loopback = {3}
  Inputs <- MCInputs
  Defaults <- MCDefaults
  Versions = {"ipv4", "ipv6"}
SPECIFICATION FairSpec
INVARIANTS
  TypeOK
  NothingLeft
  BuffersFit
  SamplesAreWhole
  InRange
  MutexHeld
PROPERTIES
  ParametersStay
  CallsEnd
  UnloadEnds
\* An unload waits for ever for a thread that was lost in a handler.
CHECK_DEADLOCK FALSE
