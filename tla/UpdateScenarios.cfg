SPECIFICATION Spec
CONSTANTS
  Reqs = {q1, q2}
  Names = {n1, n2}
  Branches = {b1, b2}
  Attrs = {a1}
  Langs = {go, java}
  Times = {t1, t2}
  NoLangs = none
  Scenarios <- AllScenarios
  MaxIds = 9
INVARIANTS
  TypeOK
  PartsInSync
  OneBinding
  OneTask
  RecordedBindingLive
PROPERTIES
  CleanUpdateRepairs
