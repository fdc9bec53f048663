SPECIFICATION Spec
CONSTANTS
  Units = {u}
  Declares = {u}
  Unheard = Unheard
  MaxSignals = 3
INVARIANT NothingIsLost
