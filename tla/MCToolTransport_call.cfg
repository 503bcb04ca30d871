SPECIFICATION Spec
CONSTANTS
  read = read
  write = write
  Tools <- ReadAndWrite
  Writes <- OnlyWrite
  Protected <- OnlyWrite
  ClientRetries = 2
  MaxRetries = 3
  AgentRetryBudget = 3
  StrictTerminal = TRUE
INVARIANTS
  Sound
PROPERTY
  CallImplemented
