\* One message, one skill and one workflow, two administrators.
CONSTANTS
  Runs = {r1}
  Admins = {a1, a2}
  Skills = {"reinstate"}
  Workflows = {"club"}
  Permitted = {"sql", "get", "write"}
  MaxIterations = 3
  MaxBatch = 2
  MaxRequests = 3
SYMMETRY Symmetry
SPECIFICATION Spec
INVARIANTS
  Sound
  SkillRunsAlone
PROPERTIES
  NothingAfterVerdict
CHECK_DEADLOCK FALSE
