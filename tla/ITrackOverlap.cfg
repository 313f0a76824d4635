SPECIFICATION DriverSpec
CONSTANTS
  Buttons = {0, 1, 2}
  MaxFingers = 3
  MaxStaged = 1
  Pads <- NoButton
  Speeds <- FastScrolls
  SpeedTrigger = 1000
  Friction = 30000
  Interval = 40
  MaxQueue = 4
  MaxOpens = 1
  QuietClose = FALSE
  Moves <- SomeMoves
  PromptTimers = FALSE
INVARIANT NoStuckButton
CHECK_DEADLOCK FALSE
