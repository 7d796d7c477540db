CONSTANTS
  Machines = {"identity", "keep", "board"}
  Owner <- MCOwner
  Own = "own"
  Dirs = {"own", "other"}
  Names = {"n1", "a1"}
  OtherRow <- MCOther
  Elsewhere <- MCElse
  Tables <- MCTables
  MaxMoves = 2
  Settings <- MCSettings
  Lines <- MCLines
  Ids = {1, 2}
  Life = 2
  Renew = 2
  ReloadGap = 1
  OpenGap = 2
  Budgets <- MCBudgets
  LineNames = {"a"}
  Grace = 1
  MaxTicks = 2
  MaxEvents = 2
  MaxPolls = 2
VIEW Moving
SPECIFICATION MCSpec
CHECK_DEADLOCK FALSE
INVARIANTS
  SwitchIsCaught
  WatchesWhatIsStored
  PollingGoesOn
  OutageIsEarned
PROPERTIES
  ClaimsAreKept
  DropIsRemembered
  OneTabASession
