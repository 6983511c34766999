\* Only the ioctl fails; a signal may reach any thread.
SPECIFICATION Spec
CHECK_DEADLOCK FALSE
CONSTANTS
  c1 = c1
  c2 = c2
  c3 = c3
  Main = Main
  Nobody = Nobody
  Conn = {c1, c2}
  Fd = {3, 4}
  Recipients = {Main, c1, c2}
  Chunk = {"line"}
  Faults = {"ioctl"}
  MAX_THREADS = 2
PROPERTIES
  ShutdownEnds
  StopTakesEffect
  ErrorExitEnds
