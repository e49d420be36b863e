CONSTANTS
  Keys = {1, 2}
  Values = {1, 2}
  Tables = {t, u}
  Shards = {1, 2}
  ShardOf <- AllInLast
  ZKeys = {k}
  ZValues = {x, y}
  Default = default
  None = None
  Panicked = Panicked
  Cells = {c1, c2, c3}
  MaxDebt = 1
  MaxWeight = 2
SYMMETRY Symmetry
SPECIFICATION TablesSpec
INVARIANTS ViewInverse Complete ViewAnswers CompositeAnswers ReduceExact
PROPERTIES ReadersUndisturbed OwnWeights
