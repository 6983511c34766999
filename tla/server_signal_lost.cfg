\* The signal falls between the test and accept.
SPECIFICATION Spec
CHECK_DEADLOCK FALSE
CONSTANTS
  c1 = c1
  c2 = c2
  c3 = c3
  Main = Main
  Nobody = Nobody
  Conn = {c1}
  Fd = {3, 4}
  Recipients = {Main}
  Chunk = {"line"}
  Faults = {}
  MAX_THREADS = 1
PROPERTY
  SignalStopsServer
