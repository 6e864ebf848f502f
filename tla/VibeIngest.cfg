SPECIFICATION FairSpec
CONSTANTS
  Keys = {k1, k2}
  Jobs = {j1}
  NoJob = NoJob
  NoKey = NoKey
  Requests = {r1, r2}
  Drains = {d1, d2}
  Free = Free
  Faults = {"crash", "dbError"}
  MaxFaults = 1
  MaxRemovals = 1
INVARIANTS
  TypeOK
  AcceptedOnce
  PushedOncePerRow
  RowsAlternate
  LinkSound
PROPERTIES
  ReceivedGetsRow
