CONSTANTS
  Columns = 2
  Bands = 10
  Chars <- MCChars
  Types <- MCTypes
  Arguments <- MCArguments
  MessageColumns = 3
  MessageLines = 3
  EnabledLength = 2
  Irqs <- MCIrqs
SPECIFICATION MCSpec
CHECK_DEADLOCK FALSE
INVARIANTS
  TypeOK
  CursorOnScreen
  TextIsDrawn
  TextIsClear
  NumbersReadBack
  DrawsOnScreen
  TablesFilledBeforeUse
PROPERTIES
  PanicIsFinal
  EndsHalted
