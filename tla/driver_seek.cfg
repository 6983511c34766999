\* One file, the ring wraps.
SPECIFICATION Spec
CONSTANTS
  x = x
  nl = nl
  f1 = f1
  f2 = f2
  NULL = NULL
  Byte <- MCByte
  Newline = nl
  File = {f1}
  Data <- ShortData
  Counts = {0, 2}
  Offsets <- MCOffsets
  Cmds = {0, 1, 2}
  CmdOffsets = {0, 1}
  KmallocOutcomes = {TRUE}
  MAX_WRITE_OPERATIONS = 2
  MaxPartial = 1
  MaxPos = 2
  MaxLost = 0
PROPERTY
  SeekLandsOnWrite
