SPECIFICATION Spec
CONSTANTS
  Events = {e1}
  Slots = {s1, s2}
  NoSlot = NoSlot
  NoEvent = NoEvent
  MaxAttempts = 2
  Faults = {"dbError"}
  MaxFaults = 1
  MaxEdits = 0
INVARIANTS
  PostedAtMostOnce
