CONSTANTS
    Direct = {}
    Compact = {c1}
    Fence = {h1}
    Trusted = {t1}
    Op <- MCOp
    Obj = {o1}
    None = None
SPECIFICATION Spec
CHECK_DEADLOCK FALSE
INVARIANTS
    StoppedNeverRegisters
    HandoffIsAlone
    DeletionDrainsSubmissions
    NoStrandedLock
    TurnOwnsSession
    PreparationReturned
    GateCountsCalls
PROPERTIES
    SessionOwner
