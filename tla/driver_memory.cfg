\* Any kmalloc may fail; loads fail too.
SPECIFICATION Spec
CONSTANTS
  x = x
  nl = nl
  f1 = f1
  f2 = f2
  NULL = NULL
  Byte <- MCByte
  Newline = nl
  File = {f1}
  Data <- ShortData
  Counts = {0, 2}
  Offsets <- MCOffsets
  Cmds = {0}
  CmdOffsets = {0}
  KmallocOutcomes = {TRUE, FALSE}
  MAX_WRITE_OPERATIONS = 2
  MaxPartial = 1
  MaxPos = 0
  MaxLost = 3
PROPERTY
  NoBlockLost
