SPECIFICATION PLiveSpec
CONSTANTS
    a1 = a1
    a2 = a2
    b1 = b1
    ha1 = ha1
    ha2 = ha2
    hb1 = hb1
    ga = ga
    gb = gb
    ca = ca
    cb = cb
    A = A
    B = B
    Guests = {ga, gb}
    CsVms = {ca, cb}
    Places = {a1, a2, b1}
    Hosts = {ha1, ha2, hb1}
    Clusters = {A, B}
    ClusterOf <- MCClusterOf
    VmidOf <- MCVmidOf
    Named <- MCNamed
    HostAt <- MCHostAt
    Home <- MCHome
    Starts <- MCStarts
    Procs = {p1, p2}
    FullSync = full_sync
    Routes = {r1}
    None = None
    MaxChanges = 2
    MaxFailures = 1
    MaxRequests = 2
    MaxEvents = 3
INVARIANT PTypeOK
INVARIANT LinksAgreeUnlessRaced
INVARIANT WritesAboutOwnGuest
INVARIANT AutoWritesWhatWasPolled
PROPERTY EstablishedPairIsKept
PROPERTY LinksHeal
PROPERTY PlacementConverges
