CONSTANTS
  a = a
  b = b
  Stable = Stable
  Founders = {a}
  Joiners = {b}
  Leavers = {}
  Mutators = {b}
  Collectors = {}
  Pollers = {}
  Pulls <- AllPulls
  MaxOps = 1
  MaxGc = 0
  MaxMsgs = 1
  Faults = FALSE
SPECIFICATION Spec
INVARIANT AckedKept
