\* Modems that answer in time or not, networks that work or not.
SPECIFICATION Spec
CONSTANTS
  MaxTime    <- MCMaxTime
  MaxRecords = 6
  MaxLate    = 2
INVARIANT TypeOK
INVARIANT IntactInOrder
PROPERTY EveryCommandTried
PROPERTY SendDataReturns
PROPERTY EveryRecordDelivered
CHECK_DEADLOCK FALSE
