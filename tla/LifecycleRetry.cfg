SPECIFICATION FairSpec
CONSTANTS
  Reqs = {q1}
  Repos = {rp1}
  Pipes = {p1}
  Names = {n1, n2}
  Similar = {}
  MaxRows = 2
  MaxIds = 8
  Wants = {{}, {"binding", "plan"}}
  Faults = {"refused", "db"}
  MaxFaults = 1
  Answers404 = TRUE
  DistinctNames = TRUE
  Handlers = {"create", "delete"}
INVARIANTS
  NothingLeftBehind
PROPERTIES
  RetriedDeleteCompletes
