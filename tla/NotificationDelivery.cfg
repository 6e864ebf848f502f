SPECIFICATION FairSpec
CONSTANTS
  Events = {e1}
  Slots = {s1, s2}
  NoSlot = NoSlot
  NoEvent = NoEvent
  MaxAttempts = 2
  Faults = {"crash", "lockLoss", "flush", "redisError", "dbError", "sendError", "lostAnswer"}
  MaxFaults = 2
  MaxEdits = 1
INVARIANTS
  TypeOK
  SentMeansPosted
  RepeatCostsAFault
PROPERTIES
  SentIsFinal
  EventSettled
