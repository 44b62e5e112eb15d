CONSTANTS
    Op = {c1, c2, c3}
    Fence = {f1, f2}
    Obj = {o1, o2, o3}
    None = None
SPECIFICATION GateSpec
SYMMETRY Symmetry
INVARIANTS
    DrainedIsAlone
    LeaseNotLost
    EntryIsNeeded
