CONSTANTS
  NoFile = NoFile
  Proc = {p1, p2}
  Modes = {"control"}
  ResetTime = 3
  WatchTimeout = 3
  FailWait = 1
  SleepTime = 1
  AwsTime = 1
  DoneWait = 1
  MaxRare = 0
  StartAfterReset = FALSE
  Detonating = FALSE
SPECIFICATION FairSpec
INVARIANTS
  TypeOK
  StoppedInTime
  StopJustified
PROPERTIES
  ImplementsSwitch
  KeptOff
  DoneExits
