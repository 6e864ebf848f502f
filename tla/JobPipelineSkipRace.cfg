SPECIFICATION Spec
CONSTANTS
  Posts = {p1}
  Workers = {w1}
  Operators = {o1}
  NoWorker = NoWorker
  NoPost = NoPost
  MaxAttempts = 2
  Calls = {"skip"}
  MaxCalls = 1
  Faults = {"aiError", "crash"}
  MaxFaults = 2
  BootTickDone = TRUE
PROPERTIES
  DismissalIsFinal
