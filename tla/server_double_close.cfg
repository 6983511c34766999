\* The second close of a descriptor.
SPECIFICATION Spec
CHECK_DEADLOCK FALSE
CONSTANTS
  c1 = c1
  c2 = c2
  c3 = c3
  Main = Main
  Nobody = Nobody
  Conn = {c1, c2}
  Fd = {3, 4}
  Recipients = {Main}
  Chunk = {"line"}
  Faults = {}
  MAX_THREADS = 2
PROPERTY
  ClosesOnlyOwnSocket
