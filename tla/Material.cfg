SPECIFICATION FairSpec
CONSTANTS
  Clock = {0, 1, 2}
  Budget = 2
INVARIANT IInv
INVARIANT ReadIsNeverHidden
INVARIANT ResultRestsOnOneRead
INVARIANT NoModelLeftBehind
INVARIANT CompletedIsDurable
PROPERTY ArtifactsWriteOnce
PROPERTY NoScienceAfterBudget
PROPERTY ImplementsAttempt
PROPERTY Terminates
