SPECIFICATION Spec
CONSTANTS
  NSlots = 2
  Ids = {a, b, c}
  NullId = null
  Positions = {0, 1}
  Edge = {0}
  Readings <- LiftReadings
  TouchDown = 20
  TouchUp = 10
  MaskBits = 4
SYMMETRY Symmetric
INVARIANTS TotalIsDisplacement EdgeFromTheStart
