SPECIFICATION Spec
CONSTANTS
  Components = {"shutdown", "p2p"}
  NoAnswer = NoAnswer
  Recorders = {r1, r2}
  ErrorTypes = {"crypto", "other"}
  MaxCalls = 3
CHECK_DEADLOCK FALSE
INVARIANTS
  HealthTypeOK
  ServerTypeOK
  MetricTypeOK
  AnswersAreWorst
  NotReadyInShutdown
  PageAddsUp
  ErrorsAddUp
  StoppedIsDown
PROPERTY StopEnds
