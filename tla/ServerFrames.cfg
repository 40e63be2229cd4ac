SPECIFICATION FairSpec
CONSTANTS
    c1 = c1
    c2 = c2
    sA = sA
    sB = sB
    sBad = sBad
    tOp = tOp
    tView = tView
    tBad = tBad
    None = None
    FirstScene = sA
    Cap = 2
    Tokens = {tOp, tView, tBad}
    Grants <- MCGrants
    Offers = {"lsdp.v1.1"}
    ServicePaths = {}
    Conns = {c1}
    Scenes = {sA, sB, sBad}
    Rejected = {sBad}
    MaxSeq = 2
    OperatorInputs = {"inputA"}
    ClientFrames <- MCAnything
    MaxSaid = 2
    Cuts = TRUE
INVARIANTS
    OneScenePerConnection
    ServedOnlyWhatIsDue
PROPERTIES
    ScenesNumberUpdates
    SubscribeAnswered
CHECK_DEADLOCK FALSE
