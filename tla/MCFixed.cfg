CONSTANTS
  Stable = Stable
  Founders = {a, b}
  Joiners = {}
  Leavers = {}
  Mutators = {a}
  Collectors = {a, b}
  Pollers = {}
  Pulls <- FromMutators
  MaxOps = 2
  MaxGc = 1
  MaxMsgs = 1
  Faults = FALSE
  Crashers = {a, b}
  MaxCrashes = 1
VIEW View
SPECIFICATION RSpec
INVARIANTS FixedInv DotsUnique StaysRegistered AckedKept
