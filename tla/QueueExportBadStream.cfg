SPECIFICATION Spec
CONSTANTS
  small = small
  large = large
  blank = blank
  huge = huge
  Exporters = {e1}
  Msgs = {small}
  Blank = {}
  NoMsg = NoMsg
  ExportSize <- MCExportSize
  BufferSize = 2
  MaxFaults = 0
  StreamCanFail = TRUE
INVARIANT NoLoss
