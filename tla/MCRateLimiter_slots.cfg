SPECIFICATION Spec
CONSTANTS
  a1 = a1
  a2 = a2
  a3 = a3
  ann = ann
  gateway = gateway
  Local = Local
  Runs <- ThreeOfAnn
  Users <- OnlyAnn
  Owner <- OwnerOf
  Servers <- Gateway
  MaxActiveRuns = 2
  MaxToolCalls = 1
  MaxModelRequests = 1
  FailureThreshold = 2
  SuccessThreshold = 2
  MaxCalls = 1
INVARIANTS
  Sound
PROPERTIES
  SlotsImplemented
  OpenCircuitRetried
