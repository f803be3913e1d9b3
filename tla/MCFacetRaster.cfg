SPECIFICATION Spec
CONSTANTS
  ONE = 512
  PathCap = 2
  EdgeCap = 2
  MaxDepth = 16
  U32 = 128
  Jobs <- AllJobs
INVARIANTS StaysInside Painted Premultiplied BuffersSafe
