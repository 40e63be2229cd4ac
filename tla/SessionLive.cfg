SPECIFICATION FairSpec
CONSTANTS
    t1 = t1
    t2 = t2
    sA = sA
    sB = sB
    None = None
    FirstToken = t1
    FirstScene = sA
    Rejected = {}
    Tokens = {t1, t2}
    Grants <- MCGrants
    OperatorInputs = {}
    ServicePaths = {}
    MaxAttempt = 1
    MaxOpening = 2
    OpenFailures = TRUE
    Cap = 1
    Conns = {1, 2, 3, 4, 5}
    Scenes = {sA}
    MaxSeq = 3
    Offers = {"lsdp.v1.1", "lsdp.v1"}
    Trouble = {"cut", "reset", "token", "start", "token fails"}
    MaxTrouble = 1
    HostCloses = FALSE
PROPERTIES
    ViewCatchesUp
CHECK_DEADLOCK FALSE
