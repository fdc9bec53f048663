SPECIFICATION FairSpec
CONSTANTS
  MaxCalls = 2
  Faults = {"refused", "answer_lost", "silent", "crash", "unreachable", "killed"}
INVARIANT NothingLeftBehind FailsForAReason
PROPERTY NothingIsAskedLate CallsEnd
