SPECIFICATION Spec
CONSTANTS
  Posts = {p1}
  Workers = {w1}
  Operators = {o1}
  NoWorker = NoWorker
  NoPost = NoPost
  MaxAttempts = 2
  Calls = {"enable"}
  MaxCalls = 1
  Faults = {}
  MaxFaults = 0
  BootTickDone = TRUE
INVARIANTS
  BacklogMeansPaused
