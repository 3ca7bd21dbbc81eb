SPECIFICATION DuUeFairSpec
CONSTANTS
    MaxNumUe = 2
    Rb = {"srb1", "drb1"}
    Srb1 = "srb1"
    Access = {1}
    HandIn = {2}
    Released = {}
    DrbsOf <- AllDrbs
    ModOps = {}
    Overlap = TRUE
    Together = FALSE
PROPERTY AskedIsAnswered
CHECK_DEADLOCK FALSE
