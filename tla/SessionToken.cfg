SPECIFICATION Spec
CONSTANTS
    t1 = t1
    t2 = t2
    sA = sA
    sB = sB
    None = None
    FirstToken = t1
    FirstScene = sA
    Rejected = {}
    Tokens = {t1, t2}
    Grants <- MCGrants
    OperatorInputs = {}
    ServicePaths = {}
    MaxAttempt = 1
    MaxOpening = 2
    OpenFailures = FALSE
    Cap = 1
    Conns = {1, 2, 3, 4}
    Scenes = {sA}
    MaxSeq = 4
    Offers = {"lsdp.v1"}
    Trouble = {"token"}
    MaxTrouble = 1
    HostCloses = FALSE
INVARIANTS
    ViewIsOneState
CHECK_DEADLOCK FALSE
