CONSTANTS
  Stable = Stable
  Founders = {a, b}
  Joiners = {}
  Leavers = {}
  Mutators = {a, b}
  Collectors = {a, b}
  Pollers = {}
  Pulls <- AllPulls
  MaxOps = 1
  MaxGc = 2
  MaxMsgs = 1
  Faults = FALSE
  Crashers = {}
  MaxCrashes = 0
VIEW View
SPECIFICATION RSpec
INVARIANT OldDescriptorRemoved
