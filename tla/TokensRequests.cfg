SPECIFICATION Spec
CONSTANTS
  PivTokens = {p1}
  Configs = {c1, c2}
  Tokens = {t1, t2}
  Handlers = {h1, h2}
  Reactivatable = {c1}
  Updates = {{"activated"}}
  MaxEtag = 2
  MaxConfigEtag <- TwoIfReactivatable
  Nil = Nil
SYMMETRY Symmetry
CHECK_DEADLOCK FALSE
INVARIANTS TypeOK OnePristine EtagsTell
PROPERTY MarksAreKept
