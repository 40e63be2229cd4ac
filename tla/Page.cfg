SPECIFICATION PageSpec
CONSTANTS
    Unset = Unset
    Unresolved = Unresolved
    BindKeys = {"opacity", "fill"}
    ColourKeys = {"fill"}
    LeafValues = {"v1", "v2", "bad"}
    GoodTarget <- MCGoodTarget
    MaxPublished = 4
    CaptureNodes = {1, 2}
    CaptureSources <- MCSources
    Devices = {"d1"}
    MaxClaims = 3
    MaxWants = 2
    Rooms = {"red", "blue"}
    Peers = {"ana", "ann"}
    labelKey <- MCLabelKey
    MaxMeshes = 2
    Documents <- MCDocuments
    Published <- Sample
    AllowedHosts = {"cdn"}
    Scene <- MCScene
    GroupMaskMaxChildren = 2
    None = None
    Conns = {1, 2}
    Scenes = {sA, sB}
    FirstScene = sA
    DemoHost = TRUE
    MaxUpdates = 2
    MaxResets = 1
    MaxTrouble = 1
    MaxBackoff = 1
INVARIANTS
    StreamsFollowHolders LabelsFollowPeers NoSilentDrop LiveIsAuthored
    LiveShowsPublished NumbersNeverGap
PROPERTIES
    LatestGoodReached MeetSettles DisposedIsSilent DevCatchesUp
CHECK_DEADLOCK FALSE
