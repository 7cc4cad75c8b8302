SPECIFICATION Spec
CONSTANTS
  None = None
  Pipes = {"p", "q"}
  Names = {"n", "m"}
  Branches = {"b", "c"}
  Initially <- TwoSchemes
  MaxIds = 6
  MaxSent = 3
  MaxDrift = 2
INVARIANTS
  PushSettles
CHECK_DEADLOCK FALSE
