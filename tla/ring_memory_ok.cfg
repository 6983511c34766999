\* The real capacity, writes of two lengths, allocations succeed.
SPECIFICATION Spec
CONSTANTS
  a = a
  b = b
  NULL = NULL
  MAX_WRITE_OPERATIONS = 10
  Byte <- MCByte
  Write <- TwoWrites
  MallocOutcomes = {TRUE}
INVARIANTS
  TypeOK
  LiveIsWindow
  FindIsConcatenation
PROPERTY
  KeepsLastWrites
