SPECIFICATION Spec
CONSTANTS
    t1 = t1
    t2 = t2
    sA = sA
    sB = sB
    None = None
    FirstToken = t1
    FirstScene = sA
    Rejected = {}
    Tokens = {t1, t2}
    Grants <- MCGrants
    OperatorInputs = {}
    ServicePaths = {}
    MaxAttempt = 1
    MaxOpening = 2
    OpenFailures = TRUE
    Cap = 1
    Conns = {1, 2, 3}
    Scenes = {sA, sB}
    MaxSeq = 2
    Offers = {"lsdp.v1.1", "lsdp.v1"}
    Trouble = {"swap"}
    MaxTrouble = 1
    HostCloses = FALSE
INVARIANTS
    ViewIsOneState
CHECK_DEADLOCK FALSE
