\* Customers scan, place and take one at a time, newest bottle first.
SPECIFICATION Spec
CONSTANTS
  m1 = m1
  p1 = p1
  p2 = p2
  Members  <- MCMembers
  Products <- MCProducts
  CodeLen  <- MCCodeLen
  As       <- MCAs
  UserPad  = 2
  ItemPad  = 2
  RxCap    = 6
  MaxScans = 2
  NSlots   = 2
  Weights  = {5, 7}
  Noise    <- MCExact
  Layouts  = {"ascending", "descending", "apart"}
  MaxMoves = 5
  MaxReboots = 1
  Orderly  = TRUE
  Lifo     = TRUE
INVARIANT TypeOK
INVARIANT InsertionReportTrue
INVARIANT RemovalReportTrue
CHECK_DEADLOCK FALSE
