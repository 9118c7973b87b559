SPECIFICATION Spec
CONSTANTS
  small = small
  large = large
  blank = blank
  huge = huge
  Exporters = {e1, e2}
  Msgs = {large, huge}
  Blank = {}
  NoMsg = NoMsg
  ExportSize <- MCExportSize
  BufferSize = 2
  MaxFaults = 2
  StreamCanFail = FALSE
SYMMETRY Symmetry
INVARIANTS
  NoLoss
  DuplicatesCostAFailure
PROPERTY HandoffSpec
