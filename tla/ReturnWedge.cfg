\* A barcode is scanned as a session ends.
SPECIFICATION Spec
CONSTANTS
  beer = beer
  small = small
  soju = soju
  Bottles <- OnlyBeer
  KindOf <- MCKindOf
  FirstBottle = beer
  Switches = {2, 3}
  Byte = 2
  T60s = 2
  TSettle = 1
  T3min = 3
  TOpen = 1
  TClose = 1
  TBeacon = 1
  LongPresses = FALSE
  Torn = FALSE
  Restarts = FALSE
PROPERTY ScanStartsSession
