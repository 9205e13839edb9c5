SPECIFICATION Spec
CONSTANTS
  URI = {u1}
  Space = 1
  Attempts = 2
  MaxOps = 2
  MaxUndo = 1
  MaxFaults = 2
INVARIANTS TypeOK SpaceOffered
PROPERTY KeyAnswered
CHECK_DEADLOCK FALSE
