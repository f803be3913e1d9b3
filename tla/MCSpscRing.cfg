\* Three laps of a four-byte ring; requests of one byte, of three, and of
\* more than the ring holds.
CONSTANTS
  Cap = 4
  Lens = {1, 3, 5}
  MaxPos = 11
SPECIFICATION FairSpec
INVARIANTS NoTornCopy
PROPERTIES IsFifo Delivered
\* Once MaxPos bytes have crossed the ring the instance stops.
CHECK_DEADLOCK FALSE
