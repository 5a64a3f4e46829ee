SPECIFICATION Spec
CONSTANTS
  Publishers = {a}
  Members = {manifest, dossier}
  Foreign = {x}
  a = a
  x = x
  manifest = manifest
  dossier = dossier
  MaxMutations = 1
  MaxFaults = 0
INVARIANT LossIsReported
CHECK_DEADLOCK FALSE
