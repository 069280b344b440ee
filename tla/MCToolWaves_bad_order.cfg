SPECIFICATION Spec
CONSTANTS
  CallKinds <- AllKinds
  SerialTools <- Writers
  MaxCalls = 3
  MaxWorkers = 2
INVARIANTS ConflictsInOrder
CHECK_DEADLOCK FALSE
