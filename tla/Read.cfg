SPECIFICATION ReadSpec
CONSTANTS
  NSlots = 2
  Ids = {a, b, c}
  NullId = null
  Positions = {0}
  Edge = {0}
  Readings <- FingerReadings
  TouchDown = 20
  TouchUp = 10
  MaskBits = 4
INVARIANTS ReadTypeOK OneTouchPerContact DownIsLive
PROPERTIES PacketAgrees Hysteresis Lifecycle CallsInOrder KeepsPromise
