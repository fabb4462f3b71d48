CONSTANTS
  NoFile = NoFile
  Proc = {p1}
  Modes = {"control"}
  ResetTime = 3
  WatchTimeout = 3
  FailWait = 1
  SleepTime = 2
  AwsTime = 1
  DoneWait = 2
  MaxRare = 1
  StartAfterReset = FALSE
  Detonating = TRUE
SPECIFICATION Spec
PROPERTIES
  DetonateExpires
