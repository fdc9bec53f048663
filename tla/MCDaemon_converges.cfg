SPECIFICATION FairSpec
CONSTANTS
  Slots = {"web", "game", "dns"}
  Ports = {80, 81}
  Addresses <- MCAddresses
  NoAddress = "nowhere"
  HostAddress = "nowhere"
  Answers <- HardAnswers
  Tables <- HardTables
  Others <- FewOthers
  Options <- AnyFlags
  Quirks = {"lease_limit", "secure_mode", "refuse_to_move"}
  Refused = {"dns"}
  Faults = {"tool", "reboot", "crash", "unserved", "reply_lost"}
PROPERTY Converges NoChurn ServedStaysServed StatusNeverOverstates
