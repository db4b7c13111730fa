CONSTANTS
    a = a
    b = b
    c = c
    d = d
    NoStep = NoStep
    Step = {a, b, c}
    Submitted = {a, b, c}
    Plan <- Join
    Choice <- OnlyAbort
    MaxConcurrent = 2
    MaxRetries = 1
    MaxAutoRefine = 1
    MaxSkips = 2
    MaxRequeues = 2
SPECIFICATION FairSpec
PROPERTIES NoBusyWait
CHECK_DEADLOCK FALSE
