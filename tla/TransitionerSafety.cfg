SPECIFICATION Spec
CONSTANTS
  Services = {s1}
  Nodes = {n1, n2}
  Configs = {c1}
  Names = {"stage", "activate"}
  Droppable = {}
  Concurrency = 1
  MaxTransitions = 2
  MaxCrashes = 1
  MaxFaults = 1
  Nil = Nil
CHECK_DEADLOCK FALSE
SYMMETRY Symmetry
INVARIANTS TypeOK CancelStops
PROPERTIES StateFollowsNodes ProgressIsKept  LocksWhatWasListed ImplementsRollout
