CONSTANTS
  NoFile = NoFile
  Proc = {p1}
  Modes = {"control"}
  ResetTime = 6
  WatchTimeout = 3
  FailWait = 1
  SleepTime = 1
  AwsTime = 2
  DoneWait = 1
  MaxRare = 0
  StartAfterReset = FALSE
  Detonating = TRUE
  Client = {c1}
  PingPeriod = 2
  MaxChains = 1
  StartDelay = 1
  BootTime = 1
SPECIFICATION SysSpec
PROPERTY NoDetonationAtStart
