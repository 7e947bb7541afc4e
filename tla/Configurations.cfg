SPECIFICATION Spec
CONSTANTS
  Configs = {c1}
  Clients = {k1, k2}
  Service = Service
  Asked = {"stage", "activate", "expire", "reactivate", "cancel"}
  MaxTransitions = 2
  Nil = Nil
SYMMETRY Symmetry
CHECK_DEADLOCK FALSE
INVARIANTS TypeOK OnePerClient
PROPERTY ExpiredStays
