SPECIFICATION Spec
CONSTANTS
  Processes = {p1, p2}
  MaxMaps = 2
INVARIANTS
  TypeOK
  SafeOnceLoaded
  NothingLeft
  LoadedIsWhole
PROPERTIES
  CodeGoesUnused
CHECK_DEADLOCK FALSE
