\* Two runs while two requests connect, disconnect and delete integrations.
CONSTANTS
  Integrations = {1, 2}
  u1 = u1
  u2 = u2
  q1 = q1
  Requests = {q1, q2}
  ChatRuns = {u1, u2}
  MaxClients = 2
  Sends <- Sent
  Capacity <- UsablePlaces
  Reliable <- OnlyGateway
  Exposes <- ExposedTools
  Caller <- Callers
SPECIFICATION DirectorySpec
INVARIANTS
  DirectorySound
  CatalogCoversClients
  OfferedIsAllowed
PROPERTY
  RunsGetCatalog
CHECK_DEADLOCK FALSE
