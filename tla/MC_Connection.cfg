CONSTANTS
  IMEM_SIZE = 2
  MaxClicks = 2
  MaxSockets = 5
  MaxPending = 1
SPECIFICATION FairSpec
CHECK_DEADLOCK FALSE
INVARIANTS
  ConnTypeOK
  NeverForgotten
  KeptAlive
  RunsWhatWasSent
  TracingInStep
PROPERTIES
  LastIsShown
  Reconnects
