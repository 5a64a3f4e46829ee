SPECIFICATION Spec
CONSTANTS
  Sessions = {s1, s2}
  Raters = {ann, bob}
  Cases = {c1, c2}
  Requests = {q1, q2, q3}
INVARIANTS
  PageSkipsNothing
  AcknowledgedIsKept
  FileLoads
SYMMETRY Symmetry
CHECK_DEADLOCK FALSE
