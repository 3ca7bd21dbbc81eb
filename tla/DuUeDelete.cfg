SPECIFICATION DuUeFairSpec
CONSTANTS
    MaxNumUe = 2
    Rb = {"srb1", "drb1"}
    Srb1 = "srb1"
    Access = {1}
    HandIn = {}
    Released = {}
    DrbsOf <- AllDrbs
    ModOps = {"DEL"}
    Overlap = FALSE
    Together = FALSE
PROPERTY LifeIsKept
CHECK_DEADLOCK FALSE
