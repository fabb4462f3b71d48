CONSTANTS
  NoFile = NoFile
  Proc = {p1}
  Modes = {"control"}
  ResetTime = 3
  WatchTimeout = 1
  FailWait = 1
  SleepTime = 1
  AwsTime = 1
  DoneWait = 1
  MaxRare = 0
  StartAfterReset = FALSE
  Detonating = TRUE
  Client = {c1}
  PingPeriod = 1
  MaxChains = 2
  StartDelay = 1
  BootTime = 1
SPECIFICATION SysFairSpec
PROPERTIES
  PendingResolves
  NobodyLeft
