\* Two tasks that lock; any allocation may fail.
SPECIFICATION Spec
CONSTANTS
  a = a
  nl = nl
  t1 = t1
  t2 = t2
  NULL = NULL
  Free = Free
  Garbage = Garbage
  Nobody = Nobody
  Byte <- MCByte
  MAX_WRITE_OPERATIONS = 3
  Task = {t1, t2}
  Locking = {t1, t2}
  Write <- TwoLines
  MallocOutcomes = {TRUE, FALSE}
  Block = {1, 2, 3, 4}
INVARIANTS
  NoMisuse
  BlocksOwned
PROPERTIES
  ReadIsAtomic
  ImplementsAtomicRing
