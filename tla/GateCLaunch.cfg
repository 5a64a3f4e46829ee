SPECIFICATION Spec
CONSTANTS
  Launchers = {l1, l2}
  Targets = {calibration, sealed}
  l1 = l1
  l2 = l2
  calibration = calibration
  sealed = sealed
SYMMETRY Symmetry
INVARIANT IInv
INVARIANT GuardIsOnRecord
INVARIANT CompletionIsEarned
INVARIANT TargetsClosedOutsideWindows
INVARIANT LoneGuardSeesTargets
PROPERTY OnlyTheClaimantRecords
PROPERTY ImplementsOneShot
PROPERTY GuardsAreSupervised
\* Launchers end: when all have, nothing is left to do.
CHECK_DEADLOCK FALSE
