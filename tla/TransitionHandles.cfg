CONSTANTS
  Transition = {t1, t2, t3}
  Block = {b1, b2, b3}
  Handle = {h1, h2, h3}
  MaxCount = 4
  NotBuilt = NotBuilt
  Empty = Empty
SPECIFICATION Spec
SYMMETRY MCSymmetry
CHECK_DEADLOCK FALSE
INVARIANTS NeverDangling FreedWithLastHandle FreedOnce
