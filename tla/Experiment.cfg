SPECIFICATION Spec
CONSTANTS
  Runners = {r1, r2, r3}
  r1 = r1
  r2 = r2
  r3 = r3
INVARIANTS
  IInv
  NoReadIsHidden
  UndisturbedPublishes
PROPERTIES
  ImplementsLedger
CHECK_DEADLOCK FALSE
