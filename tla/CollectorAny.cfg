\* Customers at any moment, two power failures, a noisy scale.
SPECIFICATION Spec
CONSTANTS
  m1 = m1
  p1 = p1
  p2 = p2
  Members  = {}
  Products = {}
  CodeLen  <- MCNoCodes
  As       = {}
  UserPad  = 1
  ItemPad  = 1
  RxCap    = 4
  MaxScans = 0
  NSlots   = 2
  Weights  = {5, 7}
  Noise    <- MCNoise
  Layouts  = {"apart"}
  MaxMoves = 5
  MaxReboots = 1
  Orderly  = FALSE
  Lifo     = FALSE
INVARIANT CountsAgree
INVARIANT IndexInBounds
INVARIANT TotalIsSum
INVARIANT BooksMatch
PROPERTY ReportsAreLedger
PROPERTY EveryBottleNoticed
PROPERTY ReportsSettle
CHECK_DEADLOCK FALSE
