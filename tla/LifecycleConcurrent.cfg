SPECIFICATION Spec
CONSTANTS
  Reqs = {q1, q2}
  Repos = {rp1}
  Pipes = {p1}
  Names = {n1, n2}
  Similar = {}
  MaxRows = 2
  MaxIds = 8
  Wants = {{"binding", "plan"}}
  Faults = {"refused", "db", "restart"}
  MaxFaults = 1
  Answers404 = TRUE
  DistinctNames = TRUE
  Handlers = {"create", "delete"}
SYMMETRY Symmetry
INVARIANTS
  NoSharedRemote
  RecordedIsLive
  ResidueInv
PROPERTIES
  NoResidue
