\* Scans, short presses and power failures; the timer may be torn.
SPECIFICATION Spec
CONSTANTS
  beer = beer
  small = small
  soju = soju
  Bottles <- BothBeers
  KindOf <- MCKindOf
  FirstBottle = beer
  Switches = {1, 2, 3}
  Byte = 2
  T60s = 2
  TSettle = 1
  T3min = 3
  TOpen = 1
  TClose = 1
  TBeacon = 1
  LongPresses = FALSE
  Torn = TRUE
  Restarts = TRUE
PROPERTY LidRunsItsTime
PROPERTY SessionEnds
PROPERTY LidStops
