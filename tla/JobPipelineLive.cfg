SPECIFICATION PartsFairSpec

CONSTANTS
  Posts = {p1}
  Workers = {w1, w2}
  Operators = {o1}
  NoWorker = NoWorker
  NoPost = NoPost
  MaxAttempts = 2
  Calls = {}
  MaxCalls = 0
  Faults = {"aiError", "badOutput", "redisError"}
  MaxFaults = 3
  BootTickDone = TRUE

INVARIANTS
    AttemptsWithinBudget

PROPERTIES
    PendingPostDecided
    DueGetsTask

CHECK_DEADLOCK FALSE
