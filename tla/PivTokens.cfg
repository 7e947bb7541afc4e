SPECIFICATION Spec
CONSTANTS
  Guids = {g1, g2}
  Lives = {a, b}
  Handlers = {h1, h2, h3}
  MaxCrashes = 1
  Nil = Nil
SYMMETRY Symmetry
INVARIANTS TypeOK OneRetirement
PROPERTY PinsAreKept
