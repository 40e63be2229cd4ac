SPECIFICATION Spec
CONSTANTS
    t1 = t1
    t2 = t2
    sA = sA
    None = None
    Conns = {1, 2}
    Tokens = {t1}
    FirstToken = t1
    MaxAttempt = 1
    MaxOpening = 2
    OpenFailures = TRUE
    ServerFrames <- MCFrames
    CloseCodes = {1000, 1008}
    Negotiable = {"lsdp.v1.1"}
    Inputs = {{"p"}}
    MaxHeard = 1
    MaxSaid = 2
    Cuts = TRUE
INVARIANTS
    TypeOK
    NeverStranded
    ClosedForGood
    SubscribeComesFirst
    HeldSocketIsSubscribed
PROPERTIES
    NoneMadeAfterClose
CHECK_DEADLOCK FALSE
