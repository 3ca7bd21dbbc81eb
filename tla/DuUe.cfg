SPECIFICATION DuUeFairSpec
CONSTANTS
    MaxNumUe = 2
    Rb = {"srb1", "drb1"}
    Srb1 = "srb1"
    Access = {1, 2}
    HandIn = {3}
    Released = {1}
    DrbsOf <- AllDrbs
    ModOps = {"ADD", "MODIFY"}
    Overlap = FALSE
    Together = FALSE
INVARIANTS
    TypeOK
    FreeIdIsUnused
    AnsweredWhenDone
    OneContextPerUe
    NoNullDb
    ActvUesAreCounted
    MacActvUesAreCounted
    CfraIsReleased
PROPERTIES
    LifeIsKept
    AskedIsAnswered
