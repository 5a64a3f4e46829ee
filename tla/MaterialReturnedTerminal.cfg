SPECIFICATION Spec
CONSTANTS
  Clock = {0, 1, 2}
  Budget = 2
INVARIANT ReturnedTerminalIsSealed
