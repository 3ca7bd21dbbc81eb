SPECIFICATION Spec
CONSTANTS
    WinSz = 2
    SduLen = 2
    Sdu = {d1}
    MaxUdx = 1
INVARIANT
    HoleIsAlwaysTimed
