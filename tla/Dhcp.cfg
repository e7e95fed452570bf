SPECIFICATION Spec
CONSTANTS
    App = {a1, a2}
    Address = {ip1}
    NoAddress = NoAddress
    Lease = {4}
    RenewalOption = 1
    RebindOption = 3
    Timeout = {0, 20}
    MaxRetries = 1
    MaxReleaseRetries = 0
    MinWait = 5
    MaxWait = 10
    MaxNap = 3
    MinLeft = 5
    Second = 10
    Word = 1000
    MaxTime = 3
    NULL = NULL
SYMMETRY Symmetry
INVARIANTS ConfigWhereRead CommandsAreHeard WaitersAreTold AnswersFitTheState
PROPERTY LeaseCountsFromRequest
CHECK_DEADLOCK FALSE
