CONSTANTS
  a = a
  b = b
  Stable = Stable
  Founders = {a}
  Joiners = {b}
  Leavers = {}
  Mutators = {a}
  Collectors = {a}
  Pollers = {}
  Pulls <- AllPulls
  MaxOps = 1
  MaxGc = 1
  MaxMsgs = 1
  Faults = FALSE
SPECIFICATION Spec
PROPERTY InstallsFreshSnapshot
