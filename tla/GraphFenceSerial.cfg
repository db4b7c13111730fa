SPECIFICATION Spec
CONSTANTS
  None = None
  Engine = {e1, e2}
  Writer = {w1}
  MaxPersists = 3
  MaxControls = 1
SYMMETRY Interchangeable
CHECK_DEADLOCK FALSE
INVARIANTS TypeOK OneHolder SomeoneDrives 
