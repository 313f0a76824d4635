SPECIFICATION Spec
CONSTANTS
  Buttons = {0, 2}
  Offers <- SlideActions
  Pads <- NoPads
  SpeedTrigger = 1000
  Friction = 30000
  Interval = 16
  MaxQueue = 2
  MaxOpens = 2
  SpacedClicks = FALSE
  QuietClose = FALSE
PROPERTIES HoldingStopsInertia
