CONSTANTS
  Pids = {a, b, c}
  Elements = {x}
  Collectors = {a}
  MaxOps = 1
  MaxTotal = 3
  MaxMsgs = 1
SPECIFICATION Spec
INVARIANTS Converged

