SPECIFICATION Spec
CONSTANTS
  None = None
  Providers = {"claude-code", "codex", "cursor"}
  Tokens = {"t1", "t2"}
  Initial <- InitialValues
  MaxEdits = 1
  MaxRequests = 3
  MaxCrashes = 1
  MaxRotations = 1
INVARIANTS AuthorityIsRemembered HooksFindTheirRelay
PROPERTIES RestoreGivesBack RestoreTouchesOnlyOurs
CHECK_DEADLOCK FALSE
