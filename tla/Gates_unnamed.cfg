CONSTANTS
  Asks <- MCAsks
  Names = {"a", "long"}
  LongNames = {"long"}
  Files = {"f", "g", "out"}
  Inside = {"f", "g"}
  MaxFiles = 2
  MaxBytes = 3
  RotateAt = 2
  MaxCalls = 3
  MaxTrouble = 2
  Requests = {r1, r2, r3}
  Owners = {"me", "you"}
  Owner = "me"
  Life = 2
  MaxClock = 3
  Attempts = 2
  MaxFaults = 1
  Tabs = {1, 2, 3}
  Urls = {"a", "b"}
  ReadUrl = "a"
  MaxActs = 2
  MaxDrops = 1
  MaxVersion = 3
  MaxAsks = 2
  MaxMishaps = 2
SYMMETRY Alike
SPECIFICATION MCSpec
CHECK_DEADLOCK FALSE
INVARIANT UploadsAreNamed
