\* A patient client that seeks, a client that sends ahead.
SPECIFICATION Spec
CHECK_DEADLOCK FALSE
CONSTANTS
  c1 = c1
  c2 = c2
  x = x
  y = y
  nl = nl
  K = K
  A = A
  NULL = NULL
  Nobody = Nobody
  Byte <- MCByte
  Client = {c1, c2}
  Script <- MCScript
  Patient = {c1}
  Newline = nl
  Prefix = K
  Args = A
  Capacity = 2
  BUFFER_SIZE = 4
  STDIO_SIZE = 2
  WriteErrors = TRUE
INVARIANTS
  OperationsNotMixed
  ReplyIsSnapshot
  OneOperationPerMessage
  BytesInOrder
PROPERTY
  AnsweredUnlessSplit
