SPECIFICATION Spec
CONSTANTS
  read = read
  write = write
  memory = memory
  bash = bash
  Calls <- AllCalls
  RemoteCalls <- ReadAndWrite
  RestCalls <- OnlyRead
  SimpleCalls <- OnlyMemory
  WriteCalls <- OnlyWrite
  SensitiveCalls <- OnlyWrite
  DangerousCalls <- OnlyBash
  MaxRetries = 1
  AgentRetryBudget = 1
  StrictTerminal = TRUE
  MaxSteps = 3
  MaxAttempts = 3
  LoopWindow = 2
  MaxBatch = 2
  RequireApproval = TRUE
  RateLimited = TRUE
  HealthChecked = TRUE
  Streaming = FALSE
INVARIANTS
  Sound
  TransportOwnsRestRetries
  TerminalFailureStops
  NoRepeatedSuccess
PROPERTIES
  EventuallyStops
