SPECIFICATION FairSpec
CONSTANTS
  Posts = {p1}
  Workers = {w1}
  Operators = {o1}
  NoWorker = NoWorker
  NoPost = NoPost
  MaxAttempts = 2
  Calls = {}
  MaxCalls = 0
  Faults = {"crash"}
  MaxFaults = 1
  BootTickDone = TRUE
PROPERTIES
  InterruptedPostRecovered
