CONSTANTS
  a = a
  b = b
  d = d
  Stable = Stable
  Founders = {a, b, d}
  Joiners = {}
  Leavers = {d}
  Mutators = {d}
  Collectors = {a}
  Pollers = {a}
  Pulls <- OneWay
  MaxOps = 1
  MaxGc = 2
  MaxMsgs = 1
  Faults = FALSE
SPECIFICATION Spec
PROPERTY RetiredForGood
VIEW View
