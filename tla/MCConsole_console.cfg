SPECIFICATION Spec
CONSTANTS
  Users = {u1, u2}
  Tokens = {t1, t2}
  Clients = {c1}
  MaxFailures = 2
  Window = 1
  SessionTTL = 1
  CacheTTL = 2
  Checked = checked
  Unchecked = unchecked
  Model1 = m1
  Model2 = m2
  Providers = {checked, unchecked}
  Models = {m1, m2}
  Available <- OneModelEach
  Checkers = {checked}
  KeyVars = {checked}
  Keys = {k1}
  Inherited <- NothingInherited
SYMMETRY TokenAndUserSymmetry
INVARIANTS TypeOK TokensSpeakForLogins AckedSelectionIsUsed HealthIsRecent
CHECK_DEADLOCK FALSE
