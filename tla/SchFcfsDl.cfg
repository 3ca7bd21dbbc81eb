SPECIFICATION Spec
CONSTANTS
    u1 = u1
    u2 = u2
    p1 = p1
    p2 = p2
    p3 = p3
    s1 = s1
    s2 = s2
    Ue = {u1, u2}
    DlUe = {u1, u2}
    UlUe = {}
    RaUe = {}
    Proc0 = p1
    Proc = {p1, p2, p3}
    Slot = {s1, s2}
    MaxTx = 2
    Faults = {}
SYMMETRY ProcSlot
INVARIANTS
    TypeOK
    DlInUseHasPlace
    MacHoldsInUse
    QueuedIsPending
PROPERTIES
    DlHarqSpec
