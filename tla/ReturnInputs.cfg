SPECIFICATION Spec
CONSTANTS
  Lines <- MCLines
  Table <- MCTable
  Width = 3
  Cells = 5
  MaxUnplugs = 1
  PressAt = 1
  LongAt = 2
  Cap = 3
  Byte = 5
INVARIANTS BufferHoldsLine LastLineTaken
PROPERTY SwitchesAreEvents
