SPECIFICATION Spec
CONSTANTS
  Jobs = {j1, j2}
  Strangers = {}
  Workers = {w1, w2}
  Port = port
  Soft = soft
  SoftExclusive <- Soft
  DomainSets <- NoDomains
  MaxQueue = 2
  Ops <- StopThenStart
SYMMETRY JobAndWorkerSymmetry
INVARIANTS GatedByPrerequisites
CHECK_DEADLOCK FALSE
