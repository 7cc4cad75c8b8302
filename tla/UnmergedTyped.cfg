SPECIFICATION Spec
CONSTANTS
  None = None
  Repos = {"r1", "r2"}
  Names = {"f", "g"}
  Initially <- TwoRepositories
  MaxSent = 3
PROPERTIES
  UnmergedTyped
CHECK_DEADLOCK FALSE
