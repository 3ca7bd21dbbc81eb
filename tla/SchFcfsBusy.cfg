SPECIFICATION BusySpec
CONSTANTS
    u1 = u1
    p1 = p1
    p2 = p2
    s1 = s1
    s2 = s2
    Ue = {u1}
    DlUe = {u1}
    UlUe = {u1}
    RaUe = {}
    Proc0 = p1
    Proc = {p1, p2}
    Slot = {s1, s2}
    MaxTx = 2
    Faults = {}
INVARIANTS
    UlInUseHasPlace
PROPERTIES
    AskedIsGranted
    DlIsReleased
