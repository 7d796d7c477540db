CONSTANTS
  Machines = {"board"}
  Owner <- MCOwner
  Own = "own"
  Dirs = {"own", "other"}
  Names = {"n1", "a1"}
  OtherRow <- MCOther
  Elsewhere <- MCElse
  Tables <- MCTables
  MaxMoves = 2
  Settings <- MCSettings
  Lines <- MCLines
  Ids = {1, 2}
  Life = 2
  Renew = 2
  ReloadGap = 1
  OpenGap = 2
  Budgets <- MCBudgets
  LineNames = {"a", "b"}
  Grace = 1
  MaxTicks = 2
  MaxEvents = 2
  MaxPolls = 1
SPECIFICATION MCSpec
CHECK_DEADLOCK FALSE
INVARIANT RenamesAreCarriedUp
