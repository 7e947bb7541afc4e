SPECIFICATION AgentSpec
CONSTANTS
  PivTokens = {p1}
  Configs = {c1, c2}
  Tokens = {t1, t2, t3}
  Handlers = {h1, h2}
  Reactivatable = {}
  Updates = {}
  MaxEtag = 4
  MaxConfigEtag <- Three
  Nil = Nil
SYMMETRY Symmetry
CHECK_DEADLOCK FALSE
INVARIANTS OneActive OneStaged
PROPERTY ImplementsSlots
