SPECIFICATION Spec
CONSTANTS
  Reqs = {q1}
  Repos = {rp1}
  Pipes = {p1}
  Names = {n1, n2}
  Similar = {}
  MaxRows = 2
  MaxIds = 8
  Wants = {{}, {"binding", "plan"}}
  Faults = {}
  MaxFaults = 0
  Answers404 = FALSE
  DistinctNames = TRUE
  Handlers = {"create", "delete", "deletePipeline"}
INVARIANTS
  NothingLeftBehind
