SPECIFICATION Spec
CONSTANTS
  Requests = {r1, r2}
  Tools <- AllTools
  Roles = {"none", "reader", "operator"}
  Environments = {"local", "prod"}
  YoloModes = {TRUE, FALSE}
  StaticKey = TRUE
  r1 = r1
  r2 = r2
SYMMETRY Callers
INVARIANTS
  Sound
  SuccessMeansDone
  NoRedundantExchange
  RejectedClubTokenDropped
CHECK_DEADLOCK FALSE
