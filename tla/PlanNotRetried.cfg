SPECIFICATION Spec
CONSTANTS
  Reqs = {q1}
  Names = {n1}
  Branches = {b1}
  Attrs = {a1}
  Langs = {go}
  Times = {t1, t2}
  NoLangs = none
  Scenarios <- OneFails
  MaxIds = 9
PROPERTIES
  PlanRetried
