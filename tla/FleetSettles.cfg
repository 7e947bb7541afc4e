SPECIFICATION FairFleet
CONSTANTS
  n1 = n1
  n2 = n2
  g1 = g1
  g2 = g2
  g3 = g3
  Services = {s1}
  Nodes = {n1, n2}
  Configs = {c1}
  Names = {"stage"}
  Droppable = {}
  Concurrency = 1
  MaxTransitions = 1
  MaxCrashes = 1
  MaxFaults = 0
  Nil = Nil
  PivTokens = {g1, g2, g3}
  Cn <- NodeOfThree
  MaxTokens = 2
  Limit = 6
CHECK_DEADLOCK FALSE
PROPERTY SettlesIntact
PROPERTY ConfigFollowsTokens
