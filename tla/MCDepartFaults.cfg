CONSTANTS
  a = a
  b = b
  d = d
  Stable = Stable
  Founders = {a, b, d}
  Joiners = {}
  Leavers = {d}
  Mutators = {d}
  Collectors = {a}
  Pollers = {a}
  Pulls <- Beforehand
  MaxOps = 1
  MaxGc = 2
  MaxMsgs = 1
  Faults = TRUE
SPECIFICATION Spec
INVARIANTS VectorHonest FrontierKnown StaysRegistered
PROPERTY FinalStatePreserved
VIEW View
