CONSTANTS
  Base = Base
  Kinds = {"mutation", "gc_marker"}
  Crashes = {{"kill"}}
  IoErrors = {"mutation"}
  Early = FALSE
  MaxOps = 2
  MaxCrashes = 1
SPECIFICATION Spec
PROPERTY NothingLost
CHECK_DEADLOCK FALSE
