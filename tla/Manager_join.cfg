SPECIFICATION Spec
CONSTANTS
  a = a
  b = b
  c = c
  r1 = r1
  r2 = r2
  Nodes = {a, b, c}
  Depth = 2
  Level <- JoinLevel
  Preds <- JoinPreds
  Refs <- JoinRefs
  Mapped = {c}
  Runs = {r1}
  Clients = {c1, c2}
  NoRun = NoRun
  MaxConcurrency = 2
  RetryBudgets = {0, 1}
  Answers = {"data", "empty", "null"}
CHECK_DEADLOCK FALSE
INVARIANTS TypeOK PermitsConserved PredecessorsFirst DispatchDiscipline SkippedNodesExplained
  CompletedIsComplete OutputIsAggregate NoOrphansUnlessRaised
PROPERTIES NodesRunOnce NoLevelAfterCancel ReturnedIsFinal RunsReturn ImplementsLifecycle
