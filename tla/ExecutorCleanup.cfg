SPECIFICATION ELiveSpec
CONSTANTS
    Workers = {w1}
    Operators = {o1}
    JobIds = {j1, j2}
    None = None
    Fenced = TRUE
    Pace = "prompt"
    MaxRequests = 1
PROPERTY AbsenceReleasesClaim
CHECK_DEADLOCK FALSE
