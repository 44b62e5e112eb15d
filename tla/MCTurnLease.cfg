SPECIFICATION Spec
CONSTANTS
  Runtime = {a, b}
  Turn = {t1, t2}
  a = a
  b = b
  Lease <- MCLease
  Home <- MCHome
  None = None
SYMMETRY Symmetry
CHECK_DEADLOCK FALSE
INVARIANTS AcceptedHoldsTheLock OwnerRunsTheAcceptedTurn
PROPERTIES LiveLeaseIsSafe SessionOwner
