CONSTANTS
    a = a
    b = b
    c = c
    d = d
    NoStep = NoStep
    Step = {a, b, c, d}
    Submitted = {a, b, c, d}
    Plan <- Odds
    Choice <- OddChoice
    MaxConcurrent = 2
    MaxRetries = 1
    MaxAutoRefine = 1
    MaxSkips = 2
    MaxRequeues = 1
SPECIFICATION Spec
INVARIANTS HonestCompletion
CHECK_DEADLOCK FALSE
