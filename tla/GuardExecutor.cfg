SPECIFICATION FairSpec
CONSTANT Signals = {SIGTERM, SIGINT}
INVARIANT IInv
INVARIANT SignalIsNeverLost
INVARIANT ExitCodeIsTheGuards
INVARIANT OnlySeventyLeavesSomething
PROPERTY KeepsPromise
\* The call returns.
CHECK_DEADLOCK FALSE
