SPECIFICATION XLiveSpec
CONSTANTS
    Guests = {g1}
    Refs = {r1}
    Leases = {l1, l2}
    Procs = {p1}
    Operations = {"stop"}
    None = None
    LeaseTicks = 1
    MaxGen = 1
    MaxClock = 2
PROPERTY ExpiredFenceGivesWay
CHECK_DEADLOCK FALSE
