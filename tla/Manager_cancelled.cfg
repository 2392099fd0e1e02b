SPECIFICATION Spec
CONSTANTS
  a = a
  b = b
  c = c
  r1 = r1
  r2 = r2
  Nodes = {a, b}
  Depth = 2
  Level <- ChainLevel
  Preds <- ChainPreds
  Refs <- ChainRefs
  Mapped = {b}
  Runs = {r1}
  Clients = {c1}
  NoRun = NoRun
  MaxConcurrency = 2
  RetryBudgets = {0, 1}
  Answers = {"data"}
CHECK_DEADLOCK FALSE
PROPERTY CancelledIsTerminal
