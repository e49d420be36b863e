CONSTANTS
  a = a
  b = b
  d = d
  Stable = Stable
  Founders = {a, b, d}
  Joiners = {}
  Leavers = {d}
  Mutators = {d}
  Collectors = {a}
  Pollers = {a}
  Pulls <- OneWay
  MaxOps = 2
  MaxGc = 3
  MaxMsgs = 1
  Faults = FALSE
SPECIFICATION Spec
INVARIANTS MemberInv DeltasRetained PullCompletes
PROPERTIES AppliedOnce FinalStatePreserved
VIEW View
