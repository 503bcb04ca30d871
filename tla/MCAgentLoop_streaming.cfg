SPECIFICATION Spec
CONSTANTS
  read = read
  write = write
  memory = memory
  bash = bash
  Calls <- ReadAndMemory
  RemoteCalls <- OnlyRead
  RestCalls <- OnlyRead
  SimpleCalls <- OnlyMemory
  WriteCalls <- NoCalls
  SensitiveCalls <- NoCalls
  DangerousCalls <- NoCalls
  MaxRetries = 2
  AgentRetryBudget = 3
  StrictTerminal = FALSE
  MaxSteps = 6
  MaxAttempts = 5
  LoopWindow = 2
  MaxBatch = 1
  RequireApproval = FALSE
  RateLimited = FALSE
  HealthChecked = FALSE
  Streaming = TRUE
INVARIANTS
  RetriesBounded
  ExecutionsCapped
  StuckLoopCut
