SPECIFICATION Spec
CONSTANTS
  None = None
  Engine = {e1, e2}
  Writer = {w1}
  MaxPersists = 2
  MaxControls = 0
CHECK_DEADLOCK FALSE
INVARIANT LosingMeansStopping
