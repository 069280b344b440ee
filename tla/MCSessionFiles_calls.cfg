SPECIFICATION Spec
CONSTANTS
  JobA = JobA
  JobB = JobB
  A1 = A1
  A2 = A2
  B1 = B1
  Jobs = {JobA, JobB}
  Calls = {A1, A2, B1}
  JobOf <- MCJobOf
  NoJob = NoJob
  Fields <- MCFields
  Tools <- MCTools
  Waves <- MCWaves
  Earlier = Earlier
  Found <- MCFound
  Finals <- MCFinals
INVARIANTS TypeOK CountsNeverOvershoot NoShellSurvives RecordIsComplete
PROPERTY CallsReturn
CHECK_DEADLOCK FALSE
