CONSTANTS
    a = a
    b = b
    c = c
    d = d
    NoStep = NoStep
    Step = {a, b, c, d}
    Submitted = {a, b, c, d}
    Plan <- Diamond
    Choice <- WithoutSkip
    MaxConcurrent = 2
    MaxRetries = 1
    MaxAutoRefine = 1
    MaxSkips = 2
    MaxRequeues = 3
SPECIFICATION Spec
INVARIANTS TypeOK StartedOnSatisfied NeverStuck UpstreamJustified HonestCompletion NeverFinalizeParked
PROPERTIES TerminalStable ResultsKept
CHECK_DEADLOCK FALSE
