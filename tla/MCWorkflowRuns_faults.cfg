\* Eight templates, two failing commits, two approvers of one request.
CONSTANTS
  a = a
  b = b
  c = c
  Steps = {a, b, c}
  Templates <- MCTemplates
  Approvers = {u1, u2}
  RecursionLimit = 4
  MaxFaults = 2
  MaxRequests = 1
SPECIFICATION Spec
INVARIANTS
  Sound
  CompletedMeansDone
PROPERTIES
  CompletedMeansClosed
  ExecutionEnds
CHECK_DEADLOCK FALSE
