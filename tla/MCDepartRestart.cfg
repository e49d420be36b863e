CONSTANTS
  a = a
  b = b
  d = d
  Stable = Stable
  Founders = {a, b, d}
  Joiners = {}
  Leavers = {d}
  Mutators = {d}
  Collectors = {a}
  Pollers = {a}
  Pulls <- OneWay
  MaxOps = 1
  MaxGc = 3
  MaxMsgs = 1
  Faults = FALSE
  Crashers = {a}
  MaxCrashes = 1
SPECIFICATION RSpec
PROPERTY AppliedOnce
VIEW View
