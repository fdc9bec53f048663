SPECIFICATION HostsSpec
CONSTANTS
  Slots = {"web", "game"}
  Ports = {80, 81}
  Addresses <- MCAddresses
  NoAddress = "nowhere"
  HostAddress = "host"
  Answers <- MCAnswers
  Tables <- MCTables
  Others <- MCOthers
  Options <- PlainOnly
  OtherAddress = "elsewhere"
  OtherAnswers <- MCOtherAnswers
  OtherOptions <- PlainOnly
  Quirks = {}
  Refused = {}
  Faults = {"tool"}
INVARIANT WrittenRemembered
PROPERTY MovesCompleted CleanupTakesOurs NeitherTakesTheOthers BothConverge HoldersSettle
