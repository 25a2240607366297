SPECIFICATION ELiveSpec
CONSTANTS
    Workers = {w1}
    Operators = {o1}
    JobIds = {j1}
    None = None
    Fenced = TRUE
    Pace = "prompt"
    MaxRequests = 0
PROPERTY FailedCreationReleasesClaim
CHECK_DEADLOCK FALSE
