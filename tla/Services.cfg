SPECIFICATION Spec
CONSTANTS
  Parts = {"stream", "chat", "chats", "replay", "skills", "merging", "pruning",
           "experience", "archive", "hub", "providers", "entry", "lazy",
           "gated", "manifest", "prompt", "warming", "squeeze", "chain",
           "bare", "extensions"}
INVARIANTS
  TypeOK
  AnswersCurrent
  NothingLost
  WithinGrants
PROPERTIES
  StepsAllowed
  Ends
CHECK_DEADLOCK FALSE
