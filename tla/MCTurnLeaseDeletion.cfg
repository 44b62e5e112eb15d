SPECIFICATION DeletionSpec
CONSTANTS
  Runtime = {a, b, c}
  Turn = {t1, t2}
  Ids = {n1}
  Lease <- MCLease
  Home <- MCHome
  None = None
SYMMETRY Symmetry
CHECK_DEADLOCK FALSE
CONSTRAINT Intact
INVARIANTS DeletionIsQuiet NoOrphanTurnData
PROPERTIES HalfErasedStaysShut
