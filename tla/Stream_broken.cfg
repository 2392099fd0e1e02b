SPECIFICATION Spec
CONSTANTS
  a = a
  b = b
  Nodes = {a, b}
  Depth = 2
  Level <- ChainLevel
  Preds <- ChainPreds
  Runs = {r1}
  NoRun = NoRun
  Conns = {c1}
CHECK_DEADLOCK FALSE
INVARIANT StayingClientSeesDone
