SPECIFICATION Spec
CONSTANTS
    c1 = c1
    c2 = c2
    sA = sA
    sB = sB
    sBad = sBad
    tOp = tOp
    tView = tView
    tBad = tBad
    None = None
    FirstScene = sA
    Cap = 2
    Tokens = {tOp, tView, tBad}
    Grants <- MCGrants
    Offers = {"lsdp.v1.1"}
    ServicePaths = {}
    Conns = {c1, c2}
    Scenes = {sA, sB}
    Rejected = {}
    MaxSeq = 4
    OperatorInputs = {}
    ClientFrames <- MCSubscribes
    MaxSaid = 1
    Cuts = FALSE
SYMMETRY Symmetry
INVARIANTS
    StreamComplete
    OpenFollowsActive
CHECK_DEADLOCK FALSE
