SPECIFICATION Spec
CONSTANTS
    WinSz = 2
    SduLen = 2
    MaxRetx = 2
    PollPdu = 1
    MaxQ = 1
VIEW Rotated
CHECK_DEADLOCK FALSE
INVARIANTS
    TypeOK
    HeldInWindow
    ReleasedArrived
    ConfirmedOnce
    RetxInOrder
    PendingIsReachable
    NackedAwaitsRetx
