CONSTANTS
  Look = {l1}
  Position = {p1, p2}
  CastTag = {t1}
  NoTag = NoTag
  NoView = NoView
  NoMap = NoMap
  NoImage = NoImage
  Container = {380}
  SpotLimit = 2
  Cycles = 2
  MaxEvents = 1
  MaxViewers = 2
SPECIFICATION Spec
CHECK_DEADLOCK FALSE
INVARIANTS
  NonStop
