CONSTANTS
  Tabs <- MCTabs
  Groups <- MCGroups
  Pages <- MCPages
  Titles = {"", "none", "same", "x", "y"}
  Layouts <- MCLayouts
  Requests <- MCRequests
  MaxTrouble = 1
  Addresses = {x1, x2}
  MaxTabs = 6
  MaxTime = 2
  MaxStarts = 2
  MaxChanges = 2
  MaxQueued = 1
  SoftCap = 1
  Ops = {x1, x2}
  Kinds = {"snapshot", "navigate", "close", "click", "fill", "keys", "debug"}
  MaxDocs = 3
  MaxKeys = 2
  MaxMishaps = 1
VIEW Moving
SYMMETRY Alike
SPECIFICATION MCSpec
CHECK_DEADLOCK FALSE
INVARIANTS
  LeftAsAsked
  AgesAreTrue
  NoSecretWithoutAYes
  RefsDieWithTheirAddress
  DebuggerEnds
PROPERTIES
  TheStripIsThePersons
