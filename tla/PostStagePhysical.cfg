SPECIFICATION Spec
CONSTANTS
  Buttons = {0, 2}
  Offers <- TapActions
  Pads <- MCPads
  SpeedTrigger = 1000
  Friction = 30000
  Interval = 16
  MaxQueue = 2
  MaxOpens = 1
  SpacedClicks = TRUE
  QuietClose = TRUE
INVARIANTS PhysicalHeld
