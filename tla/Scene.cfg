SPECIFICATION Spec
CONSTANTS
    Cap = 5
    MaxSeq = 130
INVARIANTS
    TypeOK
    WindowIsLatest
    CoveredMeansComplete
    ResumeIsContiguous
    RecentIsCovered
CHECK_DEADLOCK FALSE
