SPECIFICATION FairSpec
CONSTANTS
  Jobs = {j1, j2, none}
  Strangers = {none}
  Workers = {w1, w2}
  Port = port
  Soft = soft
  SoftExclusive <- Soft
  DomainSets <- NoDomains
  MaxQueue = 2
  Ops <- AutoStarted
INVARIANTS RunIsStoppable
PROPERTIES QueuedJobsSettle
CHECK_DEADLOCK FALSE
