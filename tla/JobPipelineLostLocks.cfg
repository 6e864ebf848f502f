SPECIFICATION Spec
CONSTANTS
  Posts = {p1}
  Workers = {w1, w2}
  Operators = {o1}
  NoWorker = NoWorker
  NoPost = NoPost
  MaxAttempts = 2
  Calls = {"skip", "analyze", "remove"}
  MaxCalls = 1
  Faults = {"lockLoss", "flush", "redisError", "aiError"}
  MaxFaults = 2
  BootTickDone = TRUE
SYMMETRY WorkerSymmetry
INVARIANTS
  OneAnalystPerPost
  RowInv
PROPERTIES
  DismissalIsFinal
  ImplementsLifecycle
