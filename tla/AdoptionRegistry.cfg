SPECIFICATION Spec
CONSTANTS
    Vmids = {v1}
    Refs = {r1, r2}
    Manifests = {m1, m2}
    Leases = {l1, l2}
    Workers = {w1, w2}
    Procs = {p1, p2}
    None = None
    MaxGen = 2
    MaxClock = 2
    LeaseTicks = 1
    WorkerTicks = 1
SYMMETRY Symmetry
CONSTRAINT OneManifestOrNoTick
INVARIANT TypeOK
INVARIANT FenceMatchesLease
INVARIANT BoundVmCarriesClaim
INVARIANT LivingBoundVmKeepsClaim
PROPERTY LeaseEndsByHolderOrExpiry
PROPERTY ActivationFencedByWorker
PROPERTY ImplementsLifecycle
CHECK_DEADLOCK FALSE
