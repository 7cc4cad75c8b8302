SPECIFICATION Spec
CONSTANTS
  Reqs = {q1}
  Repos = {rp1}
  Pipes = {p1}
  Names = {n1, n2}
  Similar <- AllSimilar
  MaxRows = 2
  MaxIds = 8
  Wants = {{}, {"binding", "plan"}}
  Faults = {"refused", "lost", "lookup", "db", "unnoted", "restart"}
  MaxFaults = 2
  Answers404 = TRUE
  DistinctNames = TRUE
  Handlers = {"create", "delete", "deletePipeline"}
INVARIANTS
  TypeOK
  NoSharedRemote
PROPERTIES
  NoResidue
