SPECIFICATION Spec
CONSTANTS
  Buttons = {0, 2}
  Offers <- TimerActions
  Pads <- MCPads
  SpeedTrigger = 1000
  Friction = 30000
  Interval = 16
  MaxQueue = 3
  MaxOpens = 3
  SpacedClicks = FALSE
  QuietClose = FALSE
INVARIANTS TypeOK DeferArmed NoGhostPhysical InertiaTracked InertiaTravel
