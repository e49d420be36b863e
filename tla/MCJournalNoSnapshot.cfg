CONSTANTS
  Base = Base
  Kinds = {"mutation", "gc_marker"}
  Crashes = {{"kill"}}
  IoErrors = {}
  Early = TRUE
  MaxOps = 1
  MaxCrashes = 1
SPECIFICATION Spec
INVARIANT AlwaysRecoverable
CHECK_DEADLOCK FALSE
