SPECIFICATION Spec
CONSTANTS
  MaxObjects = 2
  Value = {v1, v2}
  NoObj = NoObj
  Lost = Lost
  MaxSessions = 2
  MinHistory = 1
  MaxHistory = 2
SYMMETRY ValueSymmetry
INVARIANTS TypeOK HistoryFaithful NextIdFresh UndoNeverThrows MergeCausal
PROPERTY ImplementsSnapshots
CHECK_DEADLOCK FALSE
