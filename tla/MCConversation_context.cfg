\* Four requests in two sessions, and a restart.  The thresholds stand as in
\* the code: a summary is due after as many messages as compaction needs,
\* which is twice what is kept (20, 20 and 10).
CONSTANTS
  Sessions = {s1, s2}
  MaxTurns = 4
  MaxOpen = 2
  MaxRestarts = 1
  MaxBlank = 1
  ApiRoles = {"system"}
  Threshold = 4
  KeepRecent = 2
  Regenerate = 4
  RecoverLast = 4
  MaxContext = 6
  CacheSize = 3
SPECIFICATION ConversationSpec
SYMMETRY Symmetry
INVARIANTS
  ConversationSound
  ServedContextIsCurrent
  ForgottenBounded
CHECK_DEADLOCK FALSE
