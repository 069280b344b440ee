SPECIFICATION FairSpec
CONSTANTS
  Anthropic = anthropic
  Gemini = gemini
  Nim = nim
  Model1 = m1
  Model2 = m2
  Model3 = m3
  NoModel = none
  Providers = {anthropic, gemini, nim}
  Models = {m1, m2, m3}
  Probed = {anthropic, gemini}
  Listing = {gemini}
  Callable = {anthropic, gemini, nim}
  Streamable = {anthropic, gemini}
  Confs <- SmallConfs
  MaxCalls = 2
INVARIANTS TypeOK LimitedMeansLimited NobodyPassedOver
PROPERTIES LastAnswersFirst CallEnds
CHECK_DEADLOCK FALSE
