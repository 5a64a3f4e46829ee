SPECIFICATION Spec
CONSTANTS
  Publishers = {a, b}
  Members = {manifest, dossier}
  Foreign = {x, y}
  a = a
  b = b
  x = x
  y = y
  manifest = manifest
  dossier = dossier
  MaxMutations = 2
  MaxFaults = 1
SYMMETRY Symmetry
INVARIANT IInv
INVARIANT LossHasACause
INVARIANT SomebodyPublishes
PROPERTY ReplacementsStay
PROPERTY ReplacedMembersStay
PROPERTY ImplementsWriteOnce
\* Publishers return: when all have, nothing is left to do.
CHECK_DEADLOCK FALSE
