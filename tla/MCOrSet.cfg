CONSTANTS
  Pids = {a, b}
  Elements = {x}
  Collectors = {a}
  MaxOps = 3
  MaxTotal = 3
  MaxMsgs = 2
SPECIFICATION FairSpec
INVARIANTS TypeOK MergeNeverPanics NoLostInsert
PROPERTIES NoResurrection AddWins EventuallyConsistent
