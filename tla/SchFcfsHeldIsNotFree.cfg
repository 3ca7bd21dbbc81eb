SPECIFICATION Spec
CONSTANTS
    u1 = u1
    u2 = u2
    p1 = p1
    s1 = s1
    Ue = {u1, u2}
    DlUe = {u1, u2}
    UlUe = {}
    RaUe = {}
    Proc0 = p1
    Proc = {p1}
    Slot = {s1}
    MaxTx = 2
    Faults = {}
INVARIANTS
    HeldIsNotFree
