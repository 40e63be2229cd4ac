SPECIFICATION Spec
CONSTANTS
    None = None
    AnyValue = AnyValue
    s0 = s0
    s1 = s1
    s2 = s2
    op = op
    bad = bad
    Conns = {1, 4}
    Scenes = {s0, s1, s2}
    FirstScene = s0
    Rejected = {}
    Tokens = {op, bad}
    NoToken = bad
    Grants <- MCGrants
    Offers = {"lsdp.v1"}
    OperatorInputs = {}
    ServicePaths = {}
    Cap = 2
    MaxSeq = 8
    MaxTrouble = 2
    Scenarios <- MCScenarios
    TagFilter = "required"
INVARIANTS
    PromptServerPasses
    ScenarioIsolation
PROPERTIES
    HarnessEnds
CHECK_DEADLOCK FALSE
