SPECIFICATION FairSpec
CONSTANTS
  Threads = {t1, t2}
  Addresses = {a1, a2}
  Pages = {p1, p2}
  Cells = {c1, c2}
INVARIANTS
  TypeOK
  NoUseAfterFree
PROPERTIES
  ImplementsMap
  CoveredLookUpEnds
CHECK_DEADLOCK FALSE
