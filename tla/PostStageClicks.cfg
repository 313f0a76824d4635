SPECIFICATION FairSpec
CONSTANTS
  Buttons = {0, 2}
  Offers <- TapActions
  Pads <- MCPads
  SpeedTrigger = 1000
  Friction = 30000
  Interval = 16
  MaxQueue = 3
  MaxOpens = 2
  SpacedClicks = TRUE
  QuietClose = TRUE
INVARIANTS NoStuckClick
PROPERTIES HoldingStopsInertia ClickEnds SlidingEnds
