SPECIFICATION FairSpec
CONSTANT CleanupOnExit = TRUE
INVARIANT NoLostRequest OneAtATime
PROPERTY NothingAfterReturn EveryChangeIsRead Stops KeepsPromise
\* The process exits.
CHECK_DEADLOCK FALSE
