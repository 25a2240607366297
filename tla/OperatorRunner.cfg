SPECIFICATION RSpec
CONSTANTS
    Workers = {w1, w2}
    Operators = {o1}
    JobIds = {j1, j2, j3}
    None = None
    Fenced = FALSE
    Pace = "slow"
    MaxRequests = 1
    Runners = {r1, r2}
    MaxRuns = 2
SYMMETRY Symmetry
INVARIANT ETypeOK
INVARIANT DeploysAreGranted
INVARIANT StartsAreGranted
INVARIANT ReleasedVmIsGone
INVARIANT CleanupSparesManaged
INVARIANT RTypeOK
INVARIANT StoppedGuestNotStarted
INVARIANT BoundVmExists
CHECK_DEADLOCK FALSE
