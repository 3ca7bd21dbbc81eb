SPECIFICATION Spec
CONSTANTS
    u1 = u1
    p1 = p1
    p2 = p2
    s1 = s1
    Ue = {u1}
    DlUe = {u1}
    UlUe = {u1}
    RaUe = {u1}
    Proc0 = p1
    Proc = {p1, p2}
    Slot = {s1}
    MaxTx = 2
    Faults = {"dlPrb", "uci", "crc", "zeroBsr", "ulPrb"}
CHECK_DEADLOCK FALSE
INVARIANTS
    InUseIsHeld
    UlFreeIsUnused
