SPECIFICATION Spec
CONSTANTS
    vA = vA
    vB = vB
    leaf = leaf
    slot = slot
    Ease = Ease
    None = None
    Versions = {vA, vB}
    Paths = {leaf, slot}
    CamPaths = {slot}
    FetchesFail = TRUE
    MaxFrames = 4
INVARIANTS
    TypeOK
    OneRequestPerBundle
    EveryWaitIsServed
    WarmedIsUnderWay
    CamLeavesFollowStream
    UndisturbedViewIsStream
PROPERTIES
    QuietAfterDisconnect
CHECK_DEADLOCK FALSE
