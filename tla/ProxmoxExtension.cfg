SPECIFICATION XSpec
CONSTANTS
    Guests = {g1}
    Refs = {r1, r2}
    Leases = {l1, l2}
    Procs = {p1, p2}
    Operations = {"stop", "restore", "console"}
    None = None
    LeaseTicks = 1
    MaxGen = 2
    MaxClock = 2
INVARIANT XTypeOK
INVARIANT TaskHoldsFence
INVARIANT AcknowledgedDeleteEndsLife
PROPERTY CompletedMeansDone
PROPERTY KeepsLifecycle
SYMMETRY Symmetry
CHECK_DEADLOCK FALSE
