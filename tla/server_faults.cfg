\* Everything may fail.
SPECIFICATION Spec
CHECK_DEADLOCK FALSE
SYMMETRY AnyConnection
CONSTANTS
  c1 = c1
  c2 = c2
  c3 = c3
  Main = Main
  Nobody = Nobody
  Conn = {c1, c2}
  Fd = {3, 4}
  Recipients = {Main, c1, c2}
  Chunk = {"part", "line"}
  Faults = {"accept", "create", "recv", "memory", "open", "ioctl", "read", "sigpipe", "start"}
  MAX_THREADS = 1
INVARIANTS
  WakesAll
  NoHandlerCutOff
  MutexNotOrphaned
PROPERTY
  KeepsConnections
