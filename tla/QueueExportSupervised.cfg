SPECIFICATION SupervisedSpec
CONSTANTS
  small = small
  large = large
  blank = blank
  huge = huge
  Exporters = {e1}
  Msgs = {small, large, blank}
  Blank = {blank}
  NoMsg = NoMsg
  ExportSize <- MCExportSize
  BufferSize = 2
  MaxFaults = 2
  StreamCanFail = TRUE
INVARIANTS
  CountExact
  TranClosed
  WriteInBounds
PROPERTIES
  EventuallyExported
  InterruptStops
