CONSTANTS
  Base = Base
  Kinds = {"mutation", "gc_marker"}
  Crashes = {{"kill"}, {"power"}}
  IoErrors = {"gc_marker"}
  Early = FALSE
  MaxOps = 5
  MaxCrashes = 4
SPECIFICATION Spec
INVARIANTS TypeOK AlwaysRecoverable
PROPERTIES Durable ComesUp
CHECK_DEADLOCK FALSE
