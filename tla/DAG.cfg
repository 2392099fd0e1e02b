SPECIFICATION Spec
CONSTANTS
  a = a
  b = b
  c = c
  d = d
  Ids = {a, b, c, d}
  Workflows <- AllWorkflows
CHECK_DEADLOCK FALSE
INVARIANTS TypeOK InDegreeCountsPending LevelsPartition EdgesGoForward LevelsTight
  AcceptsExactlyDAGs
PROPERTY Terminates
