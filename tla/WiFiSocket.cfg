\* The chip's seven slots as two, its buffer of 1472 bytes as two; session
\* numbers wrap twice.
SPECIFICATION FairSpec
CONSTANTS
  N = 2
  Buf = 2
  Sids = 4
  MaxConns = 7
  MaxBytes = 5
INVARIANT NeverStuck
INVARIANT SlotsAreOwned
PROPERTY ClientIsStream
PROPERTY BytesArrive
CHECK_DEADLOCK FALSE
