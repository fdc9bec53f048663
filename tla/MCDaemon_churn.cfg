SPECIFICATION FairSpec
CONSTANTS
  Slots = {"web", "game"}
  Ports = {80, 81}
  Addresses <- MCAddresses
  NoAddress = "nowhere"
  HostAddress = "host"
  Answers <- ClashingAnswers
  Tables <- EmptyTables
  Others <- FewOthers
  Options <- PlainOnly
  Quirks = {}
  Refused = {}
  Faults = {}
PROPERTY NoChurn
