SPECIFICATION Spec
CONSTANTS
  Posts = {p1}
  Workers = {w1, w2}
  Operators = {o1}
  NoWorker = NoWorker
  NoPost = NoPost
  MaxAttempts = 2
  Calls = {"pause", "enable", "skip", "analyze", "remove"}
  MaxCalls = 2
  Faults = {"crash", "redisError", "dbError", "aiError", "badOutput"}
  MaxFaults = 1
  BootTickDone = FALSE
SYMMETRY WorkerSymmetry
INVARIANTS
  TypeOK
  LockInv
  AnnouncedAtMostOnce
PROPERTIES
  VerdictIsFinal
