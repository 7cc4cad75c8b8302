SPECIFICATION Spec
CONSTANTS
  g1 = g1
  g2 = g2
  g3 = g3
  p1 = p1
  Groups = {g1, g2, g3}
  Roots = {g1}
  Projects = {p1}
  Up0 <- ChainUp
  Home0 <- ChainHome
  Wild = {}
  QueueCap = 1
  MaxEvents = 0
  Handlers = {"import", "sync", "hide"}
INVARIANTS
  HiddenIsEmpty
