SPECIFICATION Spec
CONSTANTS
  Keys = {k1, k2}
  Jobs = {j1}
  NoJob = NoJob
  NoKey = NoKey
  Requests = {r1, r2}
  Drains = {d1, d2}
  Free = Free
  Faults = {}
  MaxFaults = 0
  MaxRemovals = 0
INVARIANTS
  DuplicateIsLinked
