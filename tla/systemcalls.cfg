\* Two calls of one program.
SPECIFICATION Spec
CHECK_DEADLOCK FALSE
CONSTANTS
  k1 = k1
  k2 = k2
  Call = {k1, k2}
INVARIANTS
  TrueMeansSuccess
  ReturnsOnce
PROPERTY
  CallsReturn
