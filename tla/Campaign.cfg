SPECIFICATION Spec
CONSTANTS
  MaxInvocations = 3
  MaxFaults = 2
INVARIANTS
  IInv
  SuccessIsPublished
PROPERTIES
  NothingIsRecomputed
  RecordCoversItsInvocation
  ImplementsLedger
CHECK_DEADLOCK FALSE
