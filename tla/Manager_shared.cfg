SPECIFICATION AnsweredSpec
CONSTANTS
  a = a
  b = b
  c = c
  r1 = r1
  r2 = r2
  Nodes = {a, b}
  Depth = 1
  Level <- PairLevel
  Preds <- PairPreds
  Refs <- StrayRefs
  Mapped = {b}
  Runs = {r1, r2}
  Clients = {c1}
  NoRun = NoRun
  MaxConcurrency = 1
  RetryBudgets = {1}
  Answers = {"data"}
CHECK_DEADLOCK FALSE
INVARIANTS PermitsConserved SuccessHasItsInputs
PROPERTIES PermitsReturn
