SPECIFICATION Spec
CONSTANTS
  Buttons = {0, 1, 2}
  MaxFingers = 2
  MaxStaged = 2
  Pads <- LeftButton
  Speeds <- OneSpeed
PROPERTIES InstantTapClicks
