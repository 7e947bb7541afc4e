SPECIFICATION FleetSpec
CONSTANTS
  n1 = n1
  n2 = n2
  g1 = g1
  g2 = g2
  g3 = g3
  Services = {s1}
  Nodes = {n1, n2}
  Configs = {c1}
  Names = {"stage", "activate"}
  Droppable = {}
  Concurrency = 1
  MaxTransitions = 2
  MaxCrashes = 1
  MaxFaults = 0
  Nil = Nil
  PivTokens = {g1, g2}
  Cn <- NodeOf
  MaxTokens = 3
  Limit = 3
SYMMETRY Symmetry
CHECK_DEADLOCK FALSE
PROPERTY StagedBeforeActive
