CONSTANTS
  IMEM_SIZE = 1
  MaxClicks = 2
  MaxSockets = 2
  MaxPending = 1
SPECIFICATION Spec
CHECK_DEADLOCK FALSE
INVARIANTS
  AnswersAreHeard
