SPECIFICATION FairSpec
CONSTANTS
  Ids = {"free", "bound"}
  Names = {1, 2}
  Drivers = {"macvlan", "bridge", "overlay"}
  Addresses = {"first"}
  HostAddress = "host"
  Label <- MCLabel
INVARIANT UpToDate
PROPERTY WholeAnswer SameAnswer EventuallyWhole
