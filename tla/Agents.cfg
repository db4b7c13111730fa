SPECIFICATION Spec
CONSTANTS
  Parts = {"spawner", "tools", "sieve", "clients", "sessions", "verify", "jit",
           "command", "workspace", "sweeps"}
INVARIANTS
  TypeOK
  OkIsEarned
  CycleCaught
  EffectsAccounted
PROPERTIES
  PromptIsLast
  Ends
CHECK_DEADLOCK FALSE
