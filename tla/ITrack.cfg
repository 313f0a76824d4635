SPECIFICATION FairSpec
CONSTANTS
  Buttons = {0, 1, 2}
  MaxFingers = 3
  MaxStaged = 1
  Pads <- NoButton
  Speeds <- FastScrolls
  SpeedTrigger = 1000
  Friction = 30000
  Interval = 40
  MaxQueue = 6
  MaxOpens = 2
  QuietClose = FALSE
  Moves <- SomeMoves
  PromptTimers = TRUE
INVARIANTS DriverTypeOK AltIsInertia NoStuckButton TapsClick
PROPERTIES DragGoesOn EndsAtRest
CHECK_DEADLOCK FALSE
