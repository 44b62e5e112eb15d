CONSTANTS
    Direct = {d1}
    Compact = {}
    Fence = {h1}
    Trusted = {}
    Op <- MCOp
    Obj = {o1}
    None = None
SPECIFICATION FairSpec
CHECK_DEADLOCK FALSE
PROPERTIES
    SubmissionEnds
    BlockEnds
