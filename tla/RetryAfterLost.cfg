SPECIFICATION FairSpec
CONSTANTS
  Reqs = {q1}
  Repos = {rp1}
  Pipes = {p1}
  Names = {n1, n2}
  Similar = {}
  MaxRows = 1
  MaxIds = 4
  Wants = {{}, {"binding", "plan"}}
  Faults = {"lost"}
  MaxFaults = 1
  Answers404 = TRUE
  DistinctNames = TRUE
  Handlers = {"create", "delete"}
PROPERTIES
  RetriedDeleteCompletes
