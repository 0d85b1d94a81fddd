SPECIFICATION BuildSpec
CONSTANTS
  Alphabet <- MCAlphabet
  Short = 8
  LineSize = 6
  BlockIds = 3
  RamSizes <- MCRamSizes
  LookupWidths = {1, 4}
  ConfigFiles <- MCConfigFiles
  CsrAddresses <- MCCsrAddresses
  CsrNumbers <- MCCsrNumbers
  ReadOnlyFrom = 12
  LabelBase = 20
  IllegalOp = 19
  ReadLabels <- MCReadLabels
  WriteLabels <- MCWriteLabels
  CommandLines <- MCCommandLines
  RomProcBytes = 4
  Refused = Refused
  PageWords = 16
INVARIANTS LookupAgrees ToolsAgree SlotsKept CsrDispatch BlocksFound MemoryAgrees
