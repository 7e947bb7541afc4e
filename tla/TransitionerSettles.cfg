SPECIFICATION FairSpec
CONSTANTS
  Services = {s1}
  Nodes = {n1, n2}
  Configs = {c1}
  Names = {"stage", "activate"}
  Droppable = {n1}
  Concurrency = 1
  MaxTransitions = 2
  MaxCrashes = 0
  MaxFaults = 0
  Nil = Nil
CHECK_DEADLOCK FALSE
PROPERTIES Settles TakesEffect
