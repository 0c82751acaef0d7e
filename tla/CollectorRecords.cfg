\* The newest of two bottles is taken.
SPECIFICATION Spec
CONSTANTS
  m1 = m1
  p1 = p1
  p2 = p2
  Members  <- MCMembers
  Products <- MCProducts
  CodeLen  <- MCCodeLen
  As       <- MCAs
  UserPad  = 2
  ItemPad  = 2
  RxCap    = 6
  MaxScans = 1
  NSlots   = 2
  Weights  = {5, 7}
  Noise    <- MCExact
  Layouts  = {"ascending", "descending", "apart"}
  MaxMoves = 4
  MaxReboots = 0
  Orderly  = TRUE
  Lifo     = TRUE
INVARIANT RecordsKept
CHECK_DEADLOCK FALSE
