SPECIFICATION Spec
CONSTANTS
  Threads = {t1}
  Addresses = {a1, a2}
  Pages = {p1, p2}
  Cells = {c1, c2}
INVARIANT
  BuffersDisjoint
CHECK_DEADLOCK FALSE
