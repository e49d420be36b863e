CONSTANTS
  a = a
  b = b
  Stable = Stable
  Founders = {a}
  Joiners = {b}
  Leavers = {}
  Mutators = {a}
  Collectors = {a}
  Pollers = {}
  Pulls <- AllPulls
  MaxOps = 3
  MaxGc = 2
  MaxMsgs = 1
  Faults = FALSE
SPECIFICATION Spec
INVARIANT NoInvalidDotSet
