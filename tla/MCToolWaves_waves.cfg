SPECIFICATION FairSpec
CONSTANTS
  CallKinds <- AllKinds
  SerialTools <- Writers
  MaxCalls = 3
  MaxWorkers = 2
INVARIANTS TypeOK ConflictsNeverOverlap SerialAfterEarlier SerialSeesContext EveryCallAnswered
PROPERTIES Terminates
CHECK_DEADLOCK FALSE
