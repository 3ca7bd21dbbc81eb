SPECIFICATION Spec
CONSTANTS
    WinSz = 3
    SduLen = 2
    Sdu = {d1}
    MaxUdx = 1
INVARIANTS
    TypeOK
    WindowOrder
    BufferedInWindow
    EdgesIncomplete
    RunningTmrTrigger
    ExpSoIsFirstGap
    HoleIsTimed
    TriggerIsPending
PROPERTIES
    SlidesOverReceived
    StatusEdgeAdvances
