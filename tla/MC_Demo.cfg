CONSTANTS
  Look = {l1}
  Position = {p1, p2}
  CastTag = {t1}
  NoTag = NoTag
  NoView = NoView
  NoMap = NoMap
  NoImage = NoImage
  Container = {380}
  SpotLimit = 2
  Cycles = 2
  MaxEvents = 3
  MaxViewers = 2
SPECIFICATION FairSpec
CHECK_DEADLOCK FALSE
INVARIANTS
  DemoTypeOK
  InStep
  WaitingShowsRequested
  SpotIsLed
PROPERTIES
  OnlyOpenDraws
  Settles
  SpotEnds
