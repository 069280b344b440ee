SPECIFICATION Spec
CONSTANTS
  Jobs = {j1, j2, j3, none}
  Strangers = {none}
  Workers = {w1, w2}
  Port = port
  Soft = soft
  SoftExclusive <- Soft
  DomainSets <- SoftAndPort
  MaxQueue = 3
  Ops <- SequencedJobs
SYMMETRY JobAndWorkerSymmetry
INVARIANTS GatedByPrerequisites ConflictingJobsExclude WaitersAreWoken
PROPERTIES ImplementsGatedJobs
CHECK_DEADLOCK FALSE
