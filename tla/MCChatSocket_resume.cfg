SPECIFICATION Spec
CONSTANTS
  old = old
  new = new
  tab = tab
  run = run
  Sockets <- ThreeSockets
  Runs <- OneRun
  MaxTurns = 2
INVARIANTS
  Sound
  AnswerableIsRecorded
PROPERTIES
  TurnsStartOnce
  RequestsServed
