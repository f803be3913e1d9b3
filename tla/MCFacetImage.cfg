SPECIFICATION Spec
CONSTANTS
  INT_MAX = 2147483647
  SHRT_MAX = 32767
  MAX_DIMENSIONS = 16777216
  Junk = {0, 9}
  FirstIdata = 4
  ZHash <- SmallHash
  MaxStored = 40
  Window = 24
  quality = 5
  force_filter = 5
  Jobs <- AllJobs
INVARIANTS TypeOK Decoded GoodFilesDecode HeapSound
PROPERTY Progress
