SPECIFICATION Spec
CONSTANTS
  IntMax = 511
  Devices = {d1, d2}
  Options <- SomeOptions
  TapOptions <- SomeTaps
  Kernels <- Pads
  Requests <- SomeRequests
  Measures = {0, 1, 3, 5, 6, 9}
  Descriptors = {1, 2}
  Lists = {l1, l2, l3}
  NoList = none
  MaxStarts = 3
  MaxChanges = 1
SYMMETRY Symmetric
INVARIANTS TypeOK ClientsSeeConfig DescriptorsOwned FreesAreOwned FullPressLands
  RestNeverLands HarderStaysDown InsideIsNoEdge
CHECK_DEADLOCK FALSE
