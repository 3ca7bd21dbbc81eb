SPECIFICATION UmSpec
CONSTANTS
    WinSz = 2
    SduLen = 3
    Rnd = {0, 1}
    MaxQ = 1
    AcrossWrap = TRUE
INVARIANT
    DeliveredWhole
