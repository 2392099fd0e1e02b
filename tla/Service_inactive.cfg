SPECIFICATION ServiceSpec
CONSTANTS
  a = a
  b = b
  g1 = g1
  g2 = g2
  Nodes = {a, b}
  Depth = 1
  Level <- PairLevel
  Preds <- PairPreds
  Refs <- NoRefs
  Mapped = {}
  Runs = {r1}
  Clients = {c1}
  NoRun = NoRun
  MaxConcurrency = 1
  RetryBudgets = {0, 1}
  Answers = {"data"}
  AgentIds = {g1, g2}
  Endpoints = {e1}
  Absent = Absent
  Unset = Unset
  AgentOf <- OneEach
  Patches <- StatusPatches
CHECK_DEADLOCK FALSE
PROPERTIES UnavailableNeverRaises
