SPECIFICATION PassFairSpec
CONSTANTS
  Listed <- MCListed
  Paths = {"app@", "drop-in"}
  Files <- MCFiles
  Texts <- MCTexts
  Published = Published
  Reset = Reset
  Sockets <- MCSockets
  Triggers <- MCTriggers
  InFlight = 1
  MaxStamp = 2
  Faults = {"systemd", "unreadable", "unseen_edit", "restored"}
INVARIANT ReadsAreCurrent ForwardsWhatIsDeclared
PROPERTY PassEnds
