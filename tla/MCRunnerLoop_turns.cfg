SPECIFICATION FairSpec
CONSTANTS
  Configs <- BothPolicies
  Answers <- SomeAnswers
  ToolCalls <- SomeCalls
  MaxLoops = 2
  MaxNoToolRetries = 1
INVARIANTS TypeOK VerdictConsistent CompletedWithEvidence
PROPERTIES ImplementsRunThread StopIsHeard EndsUnlessLimited
CHECK_DEADLOCK FALSE
