SPECIFICATION FairSpec
CONSTANTS
  Slots = {"web", "game"}
  Ports = {80, 81}
  Addresses = {"host", "elsewhere"}
  NoAddress = "nowhere"
  Rows <- MCRows
  MaxRows = 3
  Unreadable = Unreadable
  MaxMappings = 3
  Options <- MCOptions
  Endless = {TRUE, FALSE}
  Faults = {"ends_early", "fails"}
INVARIANT StandingRowsAreRead EachDecisionWasDue
PROPERTY ReadsOneMoment WalkEnds
