\* One run of three calls, with a restart and two lost connections.
CONSTANTS
  Runs = {r1}
  MaxCalls = 3
  MaxRestarts = 1
  MaxLosses = 2
SPECIFICATION WorkerSpec
INVARIANTS
  WorkerSound
  WorkspaceKept
PROPERTY CallsAnswered
CHECK_DEADLOCK FALSE
