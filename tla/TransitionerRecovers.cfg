SPECIFICATION FairSpec
CONSTANTS
  Services = {s1}
  Nodes = {n1}
  Configs = {c1}
  Names = {"stage"}
  Droppable = {}
  Concurrency = 1
  MaxTransitions = 2
  MaxCrashes = 1
  MaxFaults = 0
  Nil = Nil
CHECK_DEADLOCK FALSE
PROPERTY Settles
