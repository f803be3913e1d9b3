CONSTANTS
  MAX_CPUS = 2
  NUM_CPUS = 2
  NumPages = 2
  STEAL_THRESHOLD = 0
  MaxNest = 1
  MaxRefs = 2
SPECIFICATION Spec
INVARIANTS IsrSafe OnePlace NoLostPage RefsCounted
PROPERTY LockReleased
