SPECIFICATION Spec
CONSTANTS
  Jobs = {j1, j2}
  Strangers = {}
  Workers = {w1, w2}
  Port = port
  Soft = soft
  SoftExclusive <- Soft
  DomainSets <- NoDomains
  MaxQueue = 2
  Ops <- AnyClient
SYMMETRY JobAndWorkerSymmetry
INVARIANTS TypeOK NoJobStranded
PROPERTIES OnlyHaltedRequeued
CHECK_DEADLOCK FALSE
