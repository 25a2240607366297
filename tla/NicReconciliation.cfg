SPECIFICATION NLiveSpec
CONSTANTS
    Devices = {0, 1}
    Macs = {m1, m2}
    Bridges = {b1}
    Nets = {n1, n2}
    Ips = {i1}
    Routes = {r1}
    FullSync = full_sync
    None = None
    MaxChanges = 1
    MaxFailures = 1
    MaxRuns = 1
    MaxRows = 3
INVARIANT NTypeOK
INVARIANT AutoWritesFromThisCycle
INVARIANT AtMostOneDefault
PROPERTY NicsConverge
