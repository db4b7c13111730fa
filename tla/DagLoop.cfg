CONSTANTS
    a = a
    b = b
    c = c
    d = d
    NoStep = NoStep
    Step = {a, b, c, d}
    Submitted = {a, b, c}
    Plan <- Loop
    Choice <- LoopChoice
    MaxConcurrent = 2
    MaxRetries = 1
    MaxAutoRefine = 1
    MaxSkips = 2
    MaxRequeues = 2
SPECIFICATION Spec
INVARIANTS EnvelopeHeld
CHECK_DEADLOCK FALSE
