CONSTANTS
  a = a
  b = b
  Stable = Stable
  Founders = {a}
  Joiners = {b}
  Leavers = {}
  Mutators = {a, b}
  Collectors = {a, b}
  Pollers = {}
  Pulls <- OneWay
  MaxOps = 1
  MaxGc = 2
  MaxMsgs = 1
  Faults = FALSE
SPECIFICATION Spec
INVARIANTS TypeOK DotsUnique StaysRegistered GcPublished
