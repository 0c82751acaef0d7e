\* The reader alone: every order of arrivals and reads.
SPECIFICATION BarSpec
CONSTANTS
  m1 = m1
  m2 = m2
  p1 = p1
  p2 = p2
  Members  <- MCMembers
  Products <- MCProducts
  CodeLen  <- MCCodeLen
  As       <- MCAs
  UserPad  = 3
  ItemPad  = 4
  RxCap    = 3
  Layouts  = {"ascending", "descending", "apart"}
  MaxScans = 3
INVARIANT BarInBounds
INVARIANT BuffersHoldLastScan
CHECK_DEADLOCK FALSE
