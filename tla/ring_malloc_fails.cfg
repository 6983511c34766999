\* Any allocation may fail, any number of times.
SPECIFICATION Spec
CONSTANTS
  a = a
  b = b
  NULL = NULL
  MAX_WRITE_OPERATIONS = 3
  Byte <- MCByte
  Write <- ThreeWrites
  MallocOutcomes = {TRUE, FALSE}
INVARIANTS
  SizeIsSum
  NoLeakOnAdd
