SPECIFICATION Spec
CONSTANTS
  Runners = {r1, r2}
  r1 = r1
  r2 = r2
INVARIANT
  EveryPublicationVerifies
CHECK_DEADLOCK FALSE
