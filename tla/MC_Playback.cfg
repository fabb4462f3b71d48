CONSTANTS
  MaxFrames = 2
  TimeoutsPerFrame = 1
  MaxChains = 2
  MaxEvents = 7
  MaxViewers = 2
SPECIFICATION FairSpec
CHECK_DEADLOCK FALSE
INVARIANTS
  PlaybackTypeOK
  OneDriver
  ButtonsTell
  FramesBounded
PROPERTIES
  BurnsInOrder
  PlaybackEnds
  MotionEnds
