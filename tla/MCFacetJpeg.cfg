SPECIFICATION Spec
CONSTANTS
  INT_MAX = 2147483647
  SHRT_MAX = 32767
  MAX_DIMENSIONS = 16777216
  Junk = {0, 90}
  Jobs <- AllJobs
INVARIANTS SamplesRight PixelsRight Inside GoodFilesDecode HeapSound
PROPERTY Progress
