SPECIFICATION Spec
CONSTANTS
    vA = vA
    vB = vB
    leaf = leaf
    slot = slot
    Ease = Ease
    None = None
    Versions = {vA, vB}
    Paths = {leaf, slot}
    CamPaths = {slot}
    FetchesFail = FALSE
    MaxFrames = 4
INVARIANTS
    FreshSnapshotIsTruth
CHECK_DEADLOCK FALSE
