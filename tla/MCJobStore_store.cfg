SPECIFICATION Spec
CONSTANTS
  Job1 = j1
  Job2 = j2
  Runner1 = r1
  Runner2 = r2
  Jobs = {j1, j2, j3}
  Runners = {r1, r2}
  JobOf <- OneRunPerJob
  Absent = absent
  Torn = torn
  MaxEvents = 2
  MaxChanges = 1
  QueueCap = 1
  Faults <- AnyFault
SYMMETRY Symmetric
INVARIANTS TypeOK QueueIsBounded StreamedIsStored LoneOperationIsSaved
PROPERTIES RestartKeepsRecords
CHECK_DEADLOCK FALSE
