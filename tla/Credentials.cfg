SPECIFICATION Spec
CONSTANTS
  c1 = c1
  c2 = c2
  Guids = {g1, g2}
  Card = g1
  Keys = {g2}
  Calls = {c1, c2}
  MaxAttempts = 2
  MaxUnserved = 2
  MaxTokens = 3
  MaxAged = 1
  ShortSort = 2
  Limit = 3
  Nil = Nil
SYMMETRY Symmetry
CHECK_DEADLOCK FALSE
INVARIANTS TypeOK SoloSigned RightfulAccepted 
