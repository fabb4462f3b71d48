\* The host may be asked nothing more: no deadlock checking.
SPECIFICATION FairSpec
CONSTANTS
  Kernels = {"vadd", "pipeline"}
  Depth = 2
  MaxSize = 3
  MaxRuns = 2
  MAX_PHASES = 40
  MAX_TRACE_PHASES = 14
INVARIANTS SimTypeOK VaddKeepsPace
PROPERTIES StartEnds ImplementsCalls
CHECK_DEADLOCK FALSE
