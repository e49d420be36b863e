CONSTANTS
  Pids = {a, b, c}
  Elements = {x}
  Collectors = {a}
  MaxOps = 1
  MaxTotal = 2
  MaxMsgs = 2
SPECIFICATION Spec
INVARIANTS OrSetInv MergeNeverPanics
PROPERTIES NoResurrection
