CONSTANTS
  Base = Base
  Kinds = {"mutation", "gc_marker"}
  Crashes = {{"kill", "power"}}
  IoErrors = {}
  Early = FALSE
  MaxOps = 2
  MaxCrashes = 2
SPECIFICATION Spec
PROPERTY NothingLost
CHECK_DEADLOCK FALSE
