\* Scans, presses, the test mode and power failures at any time.
SPECIFICATION Spec
CONSTANTS
  beer = beer
  small = small
  soju = soju
  Bottles <- WithBeer
  KindOf <- MCKindOf
  FirstBottle = beer
  Switches = {0, 2, 3}
  Byte = 2
  T60s = 2
  TSettle = 1
  T3min = 3
  TOpen = 1
  TClose = 1
  TBeacon = 1
  LongPresses = TRUE
  Torn = FALSE
  Restarts = TRUE
INVARIANT TypeOK
INVARIANT LidSafe
INVARIANT WeighedFirst
INVARIANT BeaconTruthful
PROPERTY FreshPress
