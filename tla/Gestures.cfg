SPECIFICATION Spec
CONSTANTS
  Buttons = {0, 1, 2}
  MaxFingers = 4
  MaxStaged = 3
  Pads <- LeftButton
  Speeds <- OneSpeed
INVARIANTS TypeOK OneOwner AcceptedRunsAlone QuietOutsideUpdating DragWillRelease HoldIsSet
PROPERTIES NoClickWhileMoving
