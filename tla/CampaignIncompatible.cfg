SPECIFICATION Spec
CONSTANTS
  MaxInvocations = 2
  MaxFaults = 0
INVARIANT
  EveryTerminalIsPublished
CHECK_DEADLOCK FALSE
