----------------------- MODULE ExecutionRecordProofs ------------------------
(***************************************************************************)
(* What the record of a run says once start_run() has returned it, and     *)
(* that the manager implements RunLifecycle, for every workflow and any    *)
(* number of runs and clients.                                             *)
(***************************************************************************)
EXTENDS ExecutionManagerProofs

(* The nodes that have results are those up to some level.                 *)
RecordedIsPrefix ==
  \A r \in Runs : \A m, n \in Nodes :
    results[r][m] # "absent" /\ Level[n] <= Level[m] => results[r][n] # "absent"

(* Why a node may have no result although the levels ran to their end.     *)
Explained(r, n) ==
  \/ cancelEvent[r]
  \/ \E k \in 1..(Level[n] - 1) : \A m \in LevelNodes(k) : results[r][m] = "failed"

SkipsExplained(r) == \A n \in Nodes \ Recorded(results[r]) : Explained(r, n)

NothingLive(r) == \A n \in Nodes : task[r][n] \notin Live
OnlyUnwinding(r) == \A n \in Nodes : task[r][n] \in Live => task[r][n] = "cancelling"

(* The three ways start_run() ends, with what holds on the way to each.    *)
EndsWithLevels(r) ==
  /\ status[r] = ComputeStatus(results[r])
  /\ output[r] = AggregateOutput(results[r])
  /\ NothingLive(r) /\ SkipsExplained(r)

EndsWithTimeout(r) ==
  /\ status[r] = "TIMED_OUT"
  /\ output[r] = AggregateOutput(results[r])
  /\ Raised(r) \/ OnlyUnwinding(r)

EndsWithError(r) == status[r] = "FAILED" /\ output[r] = NoOutput /\ Raised(r)

RunOutcome(r) ==
  /\ pc[r] = "new" => status[r] = "absent"
  /\ pc[r] = "levelsdone" => NothingLive(r) /\ SkipsExplained(r)
  /\ pc[r] = "unwinding" => Raised(r) \/ OnlyUnwinding(r)
  /\ pc[r] = "failing" => Raised(r)
  /\ pc[r] = "returned" => EndsWithLevels(r) \/ EndsWithTimeout(r) \/ EndsWithError(r)

Outcomes == \A r \in Runs : RunOutcome(r)
-----------------------------------------------------------------------------
(* No step of a node makes a node live again, or takes one that unwinds    *)
(* anywhere but to its end.                                                *)
LEMMA NodeStepLive ==
  ASSUME TypeOK, NEW r \in Runs, NEW n \in Nodes, NodeStep(r, n) \/ Unwind(r, n),
         NEW q \in Runs, NEW m \in Nodes, task'[q][m] \in Live
  PROVE  task[q][m] \in Live /\ (task[q][m] = "cancelling" => task'[q][m] = "cancelling")
<1>1. PICK to \in Holding \cup Ended :
           /\ task' = [task EXCEPT ![r][n] = to]
           /\ PermitMoves(task[r][n], to)
  BY NodeStepEffect
<1>2. task[r][n] \in Live
  BY <1>1 DEF PermitMoves, Live, Holding
<1>3. task[r][n] = "cancelling" => task'[r][n] = "cancelled"
  <2>1. task[r][n] = "cancelling" => ~NodeStep(r, n)
    BY DEF NodeStep, AcquirePermit, AgentUnavailable, LookupRaises, ResolveFails, Invoke,
           AttemptSucceeds, AttemptRaises, AttemptFails, BackoffEnds
  <2>2. Unwind(r, n) => task'[r][n] = "cancelled"
    BY DEF Unwind, TypeOK
  <2>3. QED
    BY <2>1, <2>2
<1>4. "cancelled" \notin Live
  BY DEF Live, Holding, Suspended
<1>5. q # r \/ m # n => task'[q][m] = task[q][m]
  BY <1>1 DEF TypeOK
<1>6. QED
  BY <1>2, <1>3, <1>4, <1>5

(* What another run does, a node of this one, or a cancel request does to  *)
(* run q at most.                                                          *)
Undisturbed(q) ==
  /\ pc'[q] = pc[q] /\ status'[q] = status[q]
  /\ output'[q] = output[q] /\ results'[q] = results[q]
  /\ cancelEvent[q] => cancelEvent'[q]
  /\ \A n \in Nodes :
       /\ task[q][n] = "raised" => task'[q][n] = "raised"
       /\ task'[q][n] \in Live =>
            task[q][n] \in Live /\ (task[q][n] = "cancelling" => task'[q][n] = "cancelling")

LEMMA UndisturbedOutcome ==
  ASSUME NEW q \in Runs, RunOutcome(q), Undisturbed(q)
  PROVE  RunOutcome(q)'
<1>1. /\ Raised(q) => Raised(q)'
      /\ NothingLive(q) => NothingLive(q)'
      /\ OnlyUnwinding(q) => OnlyUnwinding(q)'
  BY DEF Undisturbed, Raised, NothingLive, OnlyUnwinding
<1>2. SkipsExplained(q) => SkipsExplained(q)'
  BY DEF Undisturbed, SkipsExplained, Explained
<1>3. EndsWithLevels(q) => EndsWithLevels(q)'
  BY <1>1, <1>2 DEF Undisturbed, EndsWithLevels
<1>4. EndsWithTimeout(q) => EndsWithTimeout(q)'
  BY <1>1 DEF Undisturbed, EndsWithTimeout
<1>5. EndsWithError(q) => EndsWithError(q)'
  BY <1>1 DEF Undisturbed, EndsWithError
<1>6. QED
  BY <1>1, <1>2, <1>3, <1>4, <1>5 DEF Undisturbed, RunOutcome

(* A level that was collected leaves nothing live, and the results up to   *)
(* it; when the loop ends there, the rest is explained.                    *)
LEMMA CollectLevelOutcome ==
  ASSUME TypeOK, DispatchDiscipline, NEW r \in Runs, CollectLevel(r)
  PROVE  RunOutcome(r)'
<1>1. level[r] \in 1..Depth /\ \A n \in Nodes : Level[n] \in 1..Depth
  BY WorkflowAssumption DEF TypeOK, CollectLevel, DispatchDiscipline
<1>2. /\ results' = [results EXCEPT ![r] = Stored(r)]
      /\ Recorded(results'[r]) = {n \in Nodes : Level[n] < level[r] + 1}
  BY StoredDiscipline
<1>3. \A n \in Nodes : task[r][n] \notin Live
  <2>1. SUFFICES ASSUME NEW n \in Nodes
                 PROVE  task[r][n] \in ResultKind \cup {"idle"}
    BY DEF Live, Holding, Suspended, ResultKind, CompletedKind
  <2>2. CASE Level[n] < level[r]
    BY <2>2 DEF DispatchDiscipline, TypeOK, NodeResults
  <2>3. CASE Level[n] = level[r]
    BY <2>3 DEF CollectLevel, LevelNodes
  <2>4. CASE Level[n] > level[r]
    BY <1>1, <2>4 DEF DispatchDiscipline
  <2>5. QED
    BY <1>1, <2>2, <2>3, <2>4
<1>4. CASE AllFailed(r) /\ pc' = [pc EXCEPT ![r] = "levelsdone"] /\ UNCHANGED <<level, task>>
  <2>1. SkipsExplained(r)'
    <3>1. SUFFICES ASSUME NEW n \in Nodes, n \notin Recorded(results'[r])
                   PROVE  \E k \in 1..(Level[n] - 1) :
                            \A m \in LevelNodes(k) : results'[r][m] = "failed"
      BY DEF SkipsExplained, Explained
    <3>2. level[r] \in 1..(Level[n] - 1)
      BY <1>1, <1>2, <3>1
    <3>3. \A m \in LevelNodes(level[r]) : results'[r][m] = "failed"
      BY <1>2, <1>4 DEF AllFailed, LevelNodes, Stored, TypeOK
    <3>4. QED
      BY <3>2, <3>3
  <2>2. NothingLive(r)'
    BY <1>3, <1>4 DEF NothingLive
  <2>3. QED
    BY <1>4, <2>1, <2>2 DEF RunOutcome, TypeOK
<1>5. CASE EnterLevel(r, level[r] + 1) /\ LoopEnds(r, level[r] + 1)
  <2>1. pc'[r] = "levelsdone" /\ task' = task /\ cancelEvent' = cancelEvent
    BY <1>5 DEF EnterLevel, CollectLevel, TypeOK
  <2>2. SkipsExplained(r)'
    <3>1. CASE cancelEvent[r]
      BY <2>1, <3>1 DEF SkipsExplained, Explained
    <3>2. CASE level[r] + 1 > Depth
      BY <1>1, <1>2, <3>2, WorkflowAssumption DEF SkipsExplained
    <3>3. QED
      BY <1>5, <3>1, <3>2 DEF LoopEnds
  <2>3. QED
    BY <1>3, <2>1, <2>2 DEF RunOutcome, NothingLive
<1>6. CASE EnterLevel(r, level[r] + 1) /\ ~LoopEnds(r, level[r] + 1)
  BY <1>6 DEF EnterLevel, RunOutcome, TypeOK
<1>7. QED
  BY <1>4, <1>5, <1>6 DEF CollectLevel

LEMMA StartLevelsOutcome ==
  ASSUME TypeOK, DispatchDiscipline, NEW r \in Runs, StartLevels(r)
  PROVE  RunOutcome(r)'
<1>1. CASE LoopEnds(r, 1)
  <2>1. cancelEvent'[r] /\ task' = task /\ pc'[r] = "levelsdone"
    BY <1>1, WorkflowAssumption DEF StartLevels, EnterLevel, LoopEnds, TypeOK
  <2>2. \A n \in Nodes : task[r][n] = "idle"
    BY WorkflowAssumption DEF StartLevels, DispatchDiscipline
  <2>3. QED
    BY <2>1, <2>2
      DEF RunOutcome, SkipsExplained, Explained, NothingLive, Live, Holding, Suspended
<1>2. CASE ~LoopEnds(r, 1)
  BY <1>2 DEF StartLevels, EnterLevel, RunOutcome, TypeOK
<1>3. QED
  BY <1>1, <1>2

(* The deadline reaches every live node of the level, or an exception has  *)
(* already settled the outcome of gather().                                *)
LEMMA TimeoutOutcome ==
  ASSUME TypeOK, DispatchDiscipline, NEW r \in Runs, Timeout(r)
  PROVE  RunOutcome(r)'
<1>1. pc'[r] = "unwinding"
  BY DEF Timeout, TypeOK
<1>2. \A n \in Nodes :
        task'[r][n] = IF n \in Cancellable(r) THEN CancelTask(task[r][n]) ELSE task[r][n]
  BY DEF Timeout, TypeOK
<1>3. Raised(r)' \/ OnlyUnwinding(r)'
  <2>1. CASE \E n \in Nodes : task[r][n] = "raised"
    BY <1>2, <2>1 DEF Cancellable, Raised, Live, Holding, Suspended
  <2>2. CASE \A n \in Nodes : task[r][n] # "raised"
    <3>1. SUFFICES ASSUME NEW n \in Nodes, task'[r][n] \in Live
                   PROVE  task'[r][n] = "cancelling"
      BY DEF OnlyUnwinding
    <3>2. CASE n \in Cancellable(r)
      BY <1>2, <3>1, <3>2 DEF CancelTask, Live, Holding, Suspended
    <3>3. CASE n \notin Cancellable(r)
      <4>1. task[r][n] \in Live /\ (pc[r] = "gather" => Level[n] # level[r])
        BY <1>2, <2>2, <3>1, <3>3 DEF Cancellable, LevelNodes
      <4>2. task[r][n] # "idle" /\ results[r][n] = "absent"
        BY <4>1
          DEF DispatchDiscipline, TypeOK, NodeResults, Live, Holding, Suspended, ResultKind, CompletedKind
      <4>3. Level[n] <= level[r] /\ ~(Level[n] < level[r]) /\ Level[n] \in Nat \ {0} /\ level[r] \in Nat
        BY <4>2, WorkflowAssumption DEF DispatchDiscipline, TypeOK
      <4>4. QED
        BY <4>1, <4>3 DEF Timeout, DispatchDiscipline
    <3>4. QED
      BY <3>2, <3>3
  <2>3. QED
    BY <2>1, <2>2
<1>4. QED
  BY <1>1, <1>3 DEF RunOutcome

(* The three ends of start_run().                                          *)
LEMMA FinishOutcome ==
  ASSUME TypeOK, NEW r \in Runs, RunOutcome(r),
         FinishTimeout(r) \/ FinishFailed(r) \/ FinishRun(r)
  PROVE  RunOutcome(r)'
<1>1. ASSUME NEW st, NEW out, Return(r, st, out)
      PROVE  /\ pc'[r] = "returned" /\ status'[r] = st /\ output'[r] = out
             /\ UNCHANGED <<results, task, cancelEvent>>
  BY <1>1 DEF Return, TypeOK, taskVars
<1>2. CASE FinishTimeout(r)
  <2>1. /\ pc'[r] = "returned" /\ status'[r] = "TIMED_OUT"
        /\ output'[r] = AggregateOutput(results[r])
        /\ UNCHANGED <<results, task, cancelEvent>>
    BY <1>1, <1>2 DEF FinishTimeout
  <2>2. Raised(r) \/ OnlyUnwinding(r)
    BY <1>2 DEF FinishTimeout, RunOutcome
  <2>3. EndsWithTimeout(r)'
    BY <2>1, <2>2 DEF EndsWithTimeout, Raised, OnlyUnwinding
  <2>4. QED
    BY <2>1, <2>3 DEF RunOutcome
<1>3. CASE FinishFailed(r)
  <2>1. /\ pc'[r] = "returned" /\ status'[r] = "FAILED" /\ output'[r] = NoOutput
        /\ UNCHANGED <<results, task, cancelEvent>>
    BY <1>1, <1>3 DEF FinishFailed
  <2>2. EndsWithError(r)'
    BY <1>3, <2>1 DEF FinishFailed, RunOutcome, EndsWithError, Raised
  <2>3. QED
    BY <2>1, <2>2 DEF RunOutcome
<1>4. CASE FinishRun(r)
  <2>1. /\ pc'[r] = "returned" /\ status'[r] = ComputeStatus(results[r])
        /\ output'[r] = AggregateOutput(results[r])
        /\ UNCHANGED <<results, task, cancelEvent>>
    BY <1>1, <1>4 DEF FinishRun
  <2>2. NothingLive(r) /\ SkipsExplained(r)
    BY <1>4 DEF FinishRun, RunOutcome
  <2>3. EndsWithLevels(r)'
    BY <2>1, <2>2 DEF EndsWithLevels, NothingLive, SkipsExplained, Explained
  <2>4. QED
    BY <2>1, <2>3 DEF RunOutcome
<1>5. QED
  BY <1>2, <1>3, <1>4

(* A cancel request, at either end of its sleep(0).                        *)
LEMMA CancelOutcome ==
  ASSUME TypeOK, Outcomes, NEW c \in Clients,
         CompleteCancel(c) \/ \E r \in Runs : RequestCancel(c, r)
  PROVE  Outcomes'
<1> SUFFICES ASSUME NEW q \in Runs
             PROVE  RunOutcome(q)'
  BY DEF Outcomes
<1>1. RunOutcome(q)
  BY DEF Outcomes
<1>2. pc' = pc /\ task' = task /\ results' = results /\ (cancelEvent[q] => cancelEvent'[q])
  BY DEF CompleteCancel, RequestCancel, TypeOK, taskVars
<1>3. CASE status'[q] = status[q] /\ output'[q] = output[q]
  BY <1>1, <1>2, <1>3, UndisturbedOutcome DEF Undisturbed
<1>4. CASE status[q] = "RUNNING"
  <2>1. pc[q] \notin {"new", "returned"}
    BY <1>1, <1>4, ComputeStatusType
      DEF RunOutcome, EndsWithLevels, EndsWithTimeout, EndsWithError
  <2>2. /\ Raised(q) => Raised(q)'
        /\ NothingLive(q) => NothingLive(q)'
        /\ OnlyUnwinding(q) => OnlyUnwinding(q)'
        /\ SkipsExplained(q) => SkipsExplained(q)'
    BY <1>2 DEF Raised, NothingLive, OnlyUnwinding, SkipsExplained, Explained
  <2>3. QED
    BY <1>1, <1>2, <2>1, <2>2 DEF RunOutcome
<1>5. QED
  <2>1. status[q] = "RUNNING" \/ (status'[q] = status[q] /\ output'[q] = output[q])
    BY DEF CompleteCancel, RequestCancel, TypeOK
  <2>2. QED
    BY <1>3, <1>4, <2>1

LEMMA OutcomesInvariant == TypeOK /\ DispatchDiscipline /\ Outcomes /\ [Next]_vars => Outcomes'
<1> SUFFICES ASSUME TypeOK, DispatchDiscipline, Outcomes, [Next]_vars
             PROVE  Outcomes'
  OBVIOUS
<1>1. ASSUME NEW r \in Runs, RunOutcome(r)', \A q \in Runs \ {r} : Undisturbed(q)
      PROVE  Outcomes'
  BY <1>1, UndisturbedOutcome DEF Outcomes
<1>2. ASSUME \A q \in Runs : Undisturbed(q)
      PROVE  Outcomes'
  BY <1>2, UndisturbedOutcome DEF Outcomes
<1>3. CASE UNCHANGED vars
  BY <1>2, <1>3 DEF Undisturbed, vars, runVars, taskVars
<1>4. ASSUME NEW r \in Runs, StartRun(r)
      PROVE  Outcomes'
  <2>1. \A q \in Runs \ {r} : Undisturbed(q)
    BY <1>4 DEF StartRun, Undisturbed, TypeOK, taskVars
  <2>2. RunOutcome(r)'
    BY <1>4 DEF StartRun, RunOutcome, TypeOK
  <2>3. QED
    BY <1>1, <2>1, <2>2
<1>5. ASSUME NEW r \in Runs, StartLevels(r) \/ CollectLevel(r)
      PROVE  Outcomes'
  <2>1. \A q \in Runs \ {r} : Undisturbed(q)
    BY <1>5 DEF StartLevels, CollectLevel, EnterLevel, Undisturbed, TypeOK
  <2>2. RunOutcome(r)'
    BY <1>5, StartLevelsOutcome, CollectLevelOutcome
  <2>3. QED
    BY <1>1, <2>1, <2>2
<1>6. ASSUME NEW r \in Runs, PropagateError(r)
      PROVE  Outcomes'
  <2>1. \A q \in Runs \ {r} : Undisturbed(q)
    BY <1>6 DEF PropagateError, Undisturbed, TypeOK, taskVars
  <2>2. RunOutcome(r)'
    BY <1>6 DEF PropagateError, RunOutcome, Raised, LevelNodes, TypeOK, taskVars
  <2>3. QED
    BY <1>1, <2>1, <2>2
<1>7. ASSUME NEW r \in Runs, Timeout(r)
      PROVE  Outcomes'
  <2>1. \A q \in Runs \ {r} : Undisturbed(q)
    BY <1>7 DEF Timeout, Undisturbed, TypeOK
  <2>2. QED
    BY <1>1, <1>7, <2>1, TimeoutOutcome
<1>8. ASSUME NEW r \in Runs, FinishTimeout(r) \/ FinishFailed(r) \/ FinishRun(r)
      PROVE  Outcomes'
  <2>1. \A q \in Runs \ {r} : Undisturbed(q)
    BY <1>8 DEF FinishTimeout, FinishFailed, FinishRun, Return, Undisturbed, TypeOK, taskVars
  <2>2. RunOutcome(r)'
    BY <1>8, FinishOutcome DEF Outcomes
  <2>3. QED
    BY <1>1, <2>1, <2>2
<1>9. ASSUME NEW r \in Runs, NEW n \in Nodes, NodeStep(r, n) \/ Unwind(r, n)
      PROVE  Outcomes'
  <2>1. \A q \in Runs : Undisturbed(q)
    BY <1>9, NodeStepFrame, NodeStepLive DEF Undisturbed, Ended
  <2>2. QED
    BY <1>2, <2>1
<1>10. ASSUME NEW c \in Clients, CompleteCancel(c) \/ \E r \in Runs : RequestCancel(c, r)
       PROVE  Outcomes'
  BY <1>10, CancelOutcome
<1>11. QED
  BY <1>3, <1>4, <1>5, <1>6, <1>7, <1>8, <1>9, <1>10 DEF Next, DriverStep

LEMMA OutcomesHold == Spec => []Outcomes
<1>1. Init => Outcomes
  BY DEF Init, Outcomes, RunOutcome
<1>2. QED
  BY <1>1, TypeCorrect, DispatchIsDisciplined, OutcomesInvariant, PTL DEF Spec
-----------------------------------------------------------------------------
(* When the levels ran to their end, a node without a result is one that   *)
(* was cancelled or comes after a level that failed as a whole.            *)
THEOREM SkipsAreExplained == Spec => []SkippedNodesExplained
<1>1. Outcomes => SkippedNodesExplained
  BY DEF Outcomes, RunOutcome, EndsWithLevels, EndsWithTimeout, EndsWithError, SkipsExplained,
         Explained, SkippedNodesExplained
<1>2. QED
  BY <1>1, OutcomesHold, PTL

(* compute_status() says COMPLETED of a dict without failures.             *)
LEMMA CompletedHasNoFailure ==
  ASSUME NEW res, ComputeStatus(res) = "COMPLETED", NEW n \in Recorded(res)
  PROVE  res[n] # "failed"
<1> DEFINE statuses == {NodeStatus(res[m]) : m \in Recorded(res)}
<1>1. statuses = {"COMPLETED"}
  BY DEF ComputeStatus
<1>2. NodeStatus(res[n]) \in statuses
  OBVIOUS
<1>3. QED
  BY <1>1, <1>2 DEF NodeStatus

(* COMPLETED, unless cancelled, means that every node completed.           *)
THEOREM CompletedMeansComplete == Spec => []CompletedIsComplete
<1>1. TypeOK /\ Outcomes => CompletedIsComplete
  <2> SUFFICES ASSUME TypeOK, Outcomes, NEW r \in Runs, pc[r] = "returned",
                      status[r] = "COMPLETED", ~cancelEvent[r], NEW n \in Nodes
               PROVE  results[r][n] \in CompletedKind
    BY DEF CompletedIsComplete
  <2>1. ComputeStatus(results[r]) = "COMPLETED" /\ SkipsExplained(r)
    BY DEF Outcomes, RunOutcome, EndsWithLevels, EndsWithTimeout, EndsWithError
  <2>2. \A m \in Recorded(results[r]) : results[r][m] # "failed"
    BY <2>1, CompletedHasNoFailure
  <2>3. ASSUME NEW k \in 1..(Level[n] - 1)
        PROVE  \E m \in LevelNodes(k) : results[r][m] # "failed"
    <3>1. k \in 1..Depth
      BY WorkflowAssumption
    <3>2. PICK m \in Nodes : Level[m] = k
      BY <3>1, WorkflowAssumption
    <3>3. results[r][m] # "failed"
      BY <2>2 DEF Recorded
    <3>4. QED
      BY <3>2, <3>3 DEF LevelNodes
  <2>4. n \in Recorded(results[r])
    BY <2>1, <2>3 DEF SkipsExplained, Explained
  <2>5. QED
    BY <2>2, <2>4 DEF TypeOK, NodeResults, Recorded, ResultKind
<1>2. QED
  BY <1>1, TypeCorrect, OutcomesHold, PTL

(* The output is that of the results, unless an exception ended the run.   *)
THEOREM OutputIsThatOfResults == Spec => []OutputIsAggregate
<1>1. Outcomes => OutputIsAggregate
  <2>1. \A res : AggregateOutput(res) # NoOutput
    BY DEF AggregateOutput, NoOutput
  <2>2. QED
    BY <2>1
      DEF Outcomes, RunOutcome, EndsWithLevels, EndsWithTimeout, EndsWithError, OutputIsAggregate
<1>2. QED
  BY <1>1, OutcomesHold, PTL

(* A run leaves nodes running only when one of them raised.                *)
THEOREM OrphansComeFromErrors == Spec => []NoOrphansUnlessRaised
<1>1. Outcomes => NoOrphansUnlessRaised
  BY DEF Outcomes, RunOutcome, EndsWithLevels, EndsWithTimeout, EndsWithError, NothingLive,
         OnlyUnwinding, NoOrphansUnlessRaised
<1>2. QED
  BY <1>1, OutcomesHold, PTL
-----------------------------------------------------------------------------
(* Only the end of a gather() touches node_results, and it only adds.      *)
LEMMA ResultsOnlyGrow ==
  ASSUME TypeOK, DispatchDiscipline, [Next]_vars
  PROVE  /\ results' = results \/ \E r \in Runs : CollectLevel(r)
         /\ \A q \in Runs, n \in Nodes :
              results[q][n] # "absent" => results'[q][n] = results[q][n]
<1>1. results' = results \/ \E r \in Runs : CollectLevel(r)
  <2>1. ASSUME NEW r \in Runs, NEW n \in Nodes, NodeStep(r, n) \/ Unwind(r, n)
        PROVE  results' = results
    BY <2>1, NodeStepFrame
  <2>2. QED
    BY <2>1 DEF Next, DriverStep, StartRun, StartLevels, PropagateError, Timeout, FinishTimeout,
                FinishFailed, FinishRun, Return, CompleteCancel, RequestCancel, vars, runVars
<1>2. ASSUME NEW r \in Runs, CollectLevel(r)
      PROVE  \A q \in Runs, n \in Nodes :
               results[q][n] # "absent" => results'[q][n] = results[q][n]
  BY <1>2, StoredDiscipline DEF TypeOK
<1>3. QED
  BY <1>1, <1>2

LEMMA RecordedIsPrefixHolds == Spec => []RecordedIsPrefix
<1>1. Init => RecordedIsPrefix
  BY DEF Init, NoResults, RecordedIsPrefix
<1>2. TypeOK /\ DispatchDiscipline /\ RecordedIsPrefix /\ [Next]_vars => RecordedIsPrefix'
  <2> SUFFICES ASSUME TypeOK, DispatchDiscipline, RecordedIsPrefix, [Next]_vars
               PROVE  RecordedIsPrefix'
    OBVIOUS
  <2>1. CASE results' = results
    BY <2>1 DEF RecordedIsPrefix
  <2>2. ASSUME NEW r \in Runs, CollectLevel(r)
        PROVE  RecordedIsPrefix'
    <3>1. \A q \in Runs \ {r} : results'[q] = results[q]
      BY <2>2 DEF CollectLevel, TypeOK
    <3>2. Recorded(results'[r]) = {n \in Nodes : Level[n] < level[r] + 1}
      BY <2>2, StoredDiscipline
    <3>3. \A m, n \in Nodes :
            results'[r][m] # "absent" /\ Level[n] <= Level[m] => results'[r][n] # "absent"
      <4>1. level[r] \in Nat /\ \A n \in Nodes : Level[n] \in Nat
        BY WorkflowAssumption DEF TypeOK
      <4>2. \A n \in Nodes : results'[r][n] # "absent" <=> Level[n] < level[r] + 1
        BY <3>2 DEF Recorded
      <4>3. QED
        BY <4>1, <4>2
    <3>4. QED
      BY <3>1, <3>3 DEF RecordedIsPrefix
  <2>3. QED
    BY <2>1, <2>2, ResultsOnlyGrow
<1>3. QED
  BY <1>1, <1>2, TypeCorrect, DispatchIsDisciplined, PTL DEF Spec

(* A node past the lookup of its agent has the inputs it asked for, all of *)
(* them results of earlier levels.                                         *)
PastInputs == {"invoking", "backoff"} \cup CompletedKind

InputsHeld ==
  \A r \in Runs, n \in Nodes : task[r][n] \in PastInputs =>
    \A m \in Refs[n] : Level[m] < Level[n] /\ results[r][m] = "data"

LEMMA NodeStepInputs ==
  ASSUME TypeOK, NEW r \in Runs, NEW n \in Nodes, NodeStep(r, n) \/ Unwind(r, n),
         NEW q \in Runs, NEW m \in Nodes, task'[q][m] \in PastInputs
  PROVE  \/ task[q][m] \in PastInputs
         \/ task[q][m] = "lookup" /\ Resolvable(q, m)
<1> DEFINE Advance(to) ==
      /\ task' = [task EXCEPT ![r][n] = to]
      /\ \/ to \notin PastInputs
         \/ task[r][n] \in PastInputs
         \/ task[r][n] = "lookup" /\ Resolvable(r, n)
<1>1. /\ "lookup" \notin PastInputs /\ "failed" \notin PastInputs
      /\ "raised" \notin PastInputs /\ "cancelled" \notin PastInputs
      /\ "invoking" \in PastInputs /\ "backoff" \in PastInputs
  BY DEF PastInputs, CompletedKind
<1>2. \E to : Advance(to)
  <2>1. CASE AcquirePermit(r, n)
    <3>1. Advance("lookup")
      BY <1>1, <2>1 DEF AcquirePermit
    <3>2. QED
      BY <3>1
  <2>2. CASE Unwind(r, n)
    <3>1. Advance("cancelled")
      BY <1>1, <2>2 DEF Unwind
    <3>2. QED
      BY <3>1
  <2>3. CASE AgentUnavailable(r, n)
    <3>1. Advance("failed")
      BY <1>1, <2>3 DEF AgentUnavailable, End
    <3>2. QED
      BY <3>1
  <2>4. CASE LookupRaises(r, n) \/ AttemptRaises(r, n)
    <3>1. Advance("raised")
      BY <1>1, <2>4 DEF LookupRaises, AttemptRaises, End
    <3>2. QED
      BY <3>1
  <2>5. CASE ResolveFails(r, n)
    <3>1. Advance("failed") \/ Advance("raised")
      BY <1>1, <2>5 DEF ResolveFails, End
    <3>2. QED
      BY <3>1
  <2>6. CASE Invoke(r, n) \/ BackoffEnds(r, n)
    <3>1. Advance("invoking")
      BY <1>1, <2>6 DEF Invoke, BackoffEnds, Move
    <3>2. QED
      BY <3>1
  <2>7. CASE AttemptSucceeds(r, n)
    <3>1. \E kind \in Answers : Advance(kind)
      BY <1>1, <2>7 DEF AttemptSucceeds, End
    <3>2. QED
      BY <3>1
  <2>8. CASE AttemptFails(r, n)
    <3>1. Advance("backoff") \/ Advance("failed")
      BY <1>1, <2>8 DEF AttemptFails, End, Move
    <3>2. QED
      BY <3>1
  <2>9. QED
    BY <2>1, <2>2, <2>3, <2>4, <2>5, <2>6, <2>7, <2>8 DEF NodeStep
<1>3. QED
  BY <1>2 DEF TypeOK

LEMMA InputsHeldInvariant ==
  TypeOK /\ DispatchDiscipline /\ RecordedIsPrefix /\ InputsHeld /\ [Next]_vars => InputsHeld'
<1> SUFFICES ASSUME TypeOK, DispatchDiscipline, RecordedIsPrefix, InputsHeld, [Next]_vars,
                    NEW q \in Runs, NEW n \in Nodes, task'[q][n] \in PastInputs,
                    NEW m \in Refs[n]
             PROVE  Level[m] < Level[n] /\ results'[q][m] = "data"
  BY DEF InputsHeld
<1>1. m \in Nodes
  BY ManagerAssumption
<1>2. SUFFICES Level[m] < Level[n] /\ results[q][m] = "data"
  BY <1>1, ResultsOnlyGrow
<1>3. CASE task[q][n] \in PastInputs
  BY <1>3 DEF InputsHeld
<1>4. CASE task[q][n] = "lookup" /\ Resolvable(q, n)
  <2>1. results[q][m] = "data"
    BY <1>4 DEF Resolvable
  <2>2. results[q][n] = "absent"
    BY <1>4 DEF DispatchDiscipline, TypeOK, NodeResults, ResultKind, CompletedKind
  <2>3. ~(Level[n] <= Level[m])
    BY <1>1, <2>1, <2>2 DEF RecordedIsPrefix
  <2>4. Level[m] \in Nat /\ Level[n] \in Nat
    BY <1>1, WorkflowAssumption
  <2>5. QED
    BY <2>1, <2>3, <2>4
<1>5. task[q][n] \in PastInputs \/ (task[q][n] = "lookup" /\ Resolvable(q, n))
  <2>1. ASSUME NEW r \in Runs, NEW k \in Nodes, NodeStep(r, k) \/ Unwind(r, k)
        PROVE  task[q][n] \in PastInputs \/ (task[q][n] = "lookup" /\ Resolvable(q, n))
    BY <2>1, NodeStepInputs
  <2>2. ASSUME NEW r \in Runs, StartLevels(r) \/ CollectLevel(r)
        PROVE  task[q][n] \in PastInputs
    BY <2>2 DEF StartLevels, CollectLevel, EnterLevel, Dispatched, PastInputs, CompletedKind, TypeOK
  <2>3. ASSUME NEW r \in Runs, Timeout(r)
        PROVE  task[q][n] \in PastInputs
    BY <2>3 DEF Timeout, CancelTask, PastInputs, CompletedKind, TypeOK
  <2>4. CASE task' = task
    BY <2>4
  <2>5. QED
    BY <2>1, <2>2, <2>3, <2>4
      DEF Next, DriverStep, StartRun, PropagateError, FinishTimeout, FinishFailed, FinishRun,
          Return, CompleteCancel, RequestCancel, vars, taskVars
<1>6. QED
  BY <1>3, <1>4, <1>5

(* A node completes only on the outputs of completed nodes of earlier      *)
(* levels, although nothing ties input_mapping to the edges.               *)
THEOREM SuccessNeedsItsInputs == Spec => []SuccessHasItsInputs
<1>1. Init => InputsHeld
  BY DEF Init, InputsHeld, PastInputs, CompletedKind
<1>2. InputsHeld => SuccessHasItsInputs
  BY DEF InputsHeld, SuccessHasItsInputs, PastInputs
<1>3. QED
  BY <1>1, <1>2, TypeCorrect, DispatchIsDisciplined, RecordedIsPrefixHolds, InputsHeldInvariant,
     PTL DEF Spec
-----------------------------------------------------------------------------
(* The refinement of RunLifecycle: one step of the manager is one step of  *)
(* it, or changes nothing a reader of _runs sees.                          *)
Phase(where) == CASE where = "new" -> "unknown" [] where = "returned" -> "closed" [] OTHER -> "open"
Phases == [r \in Runs |-> Phase(pc[r])]

LEMMA PhaseUnchanged ==
  ASSUME TypeOK, NEW r \in Runs, pc[r] \notin {"new", "returned"},
         pc' = pc \/ \E to \in ControlState \ {"new", "returned"} : pc' = [pc EXCEPT ![r] = to]
  PROVE  Phases' = Phases
BY DEF Phases, Phase, TypeOK, ControlState

LEMMA OpenRefined ==
  ASSUME TypeOK, NEW r \in Runs, StartRun(r)
  PROVE  Lifecycle!Open(r)
<1>1. Phases[r] = "unknown" /\ Phases' = [Phases EXCEPT ![r] = "open"]
  BY DEF StartRun, Phases, Phase, TypeOK
<1>2. QED
  BY <1>1 DEF StartRun, Phases, Phase, Lifecycle!Open

(* The end of a level is the entry of its results.                         *)
LEMMA RecordRefined ==
  ASSUME TypeOK, DispatchDiscipline, NEW r \in Runs, CollectLevel(r)
  PROVE  Lifecycle!Record(r)
<1>1. Phases[r] = "open" /\ Phases' = Phases /\ status' = status /\ output' = output
  <2>1. pc[r] = "gather"
    BY DEF CollectLevel
  <2>2. \E to \in ControlState \ {"new", "returned"} : pc' = [pc EXCEPT ![r] = to]
    BY DEF CollectLevel, EnterLevel, ControlState
  <2>3. QED
    BY <2>1, <2>2, PhaseUnchanged DEF CollectLevel, Phases, Phase
<1>2. level[r] \in 1..Depth /\ Recorded(results[r]) = {n \in Nodes : Level[n] < level[r]}
  BY WorkflowAssumption DEF TypeOK, CollectLevel, DispatchDiscipline
<1> DEFINE kind == [n \in LevelNodes(level[r]) |-> task[r][n]]
<1>3. kind \in [LevelNodes(level[r]) -> ResultKind]
  BY DEF CollectLevel
<1>4. results' = [results EXCEPT ![r] =
        [n \in Nodes |-> IF Level[n] = level[r] THEN kind[n] ELSE results[r][n]]]
  BY DEF CollectLevel, Stored, LevelNodes
<1> HIDE DEF kind
<1>5. QED
  BY <1>1, <1>2, <1>3, <1>4
    DEF Phases, Phase, Lifecycle!Record, Lifecycle!Recorded, Recorded, Lifecycle!LevelNodes,
        LevelNodes, Lifecycle!ResultKind, ResultKind, Lifecycle!CompletedKind, CompletedKind

LEMMA CloseRefined ==
  ASSUME TypeOK, NEW r \in Runs, FinishTimeout(r) \/ FinishFailed(r) \/ FinishRun(r)
  PROVE  Lifecycle!Close(r)
<1>1. Phases[r] = "open" /\ Phases' = [Phases EXCEPT ![r] = "closed"] /\ results' = results
  BY DEF FinishTimeout, FinishFailed, FinishRun, Return, Phases, Phase, TypeOK
<1>2. PICK rec \in {<<ComputeStatus(results[r]), AggregateOutput(results[r])>>,
                    <<"TIMED_OUT", AggregateOutput(results[r])>>, <<"FAILED", NoOutput>>} :
             status' = [status EXCEPT ![r] = rec[1]] /\ output' = [output EXCEPT ![r] = rec[2]]
  BY DEF FinishTimeout, FinishFailed, FinishRun, Return
<1>3. /\ Lifecycle!ComputeStatus(results[r]) = ComputeStatus(results[r])
      /\ Lifecycle!AggregateOutput(results[r]) = AggregateOutput(results[r])
      /\ Lifecycle!NoOutput = NoOutput
  BY DEF Lifecycle!ComputeStatus, ComputeStatus, Lifecycle!NodeStatus, NodeStatus,
         Lifecycle!Recorded, Recorded, Lifecycle!AggregateOutput, AggregateOutput,
         Lifecycle!NoOutput, NoOutput
<1>4. rec \in Lifecycle!ClosingRecords(results[r])
  BY <1>2, <1>3 DEF Lifecycle!ClosingRecords
<1>5. QED
  BY <1>1, <1>2, <1>4 DEF Phases, Phase, Lifecycle!Close

(* A record that reads RUNNING belongs to a run that was not closed.       *)
LEMMA MarkCancelledRefined ==
  ASSUME TypeOK, Outcomes, NEW c \in Clients, CompleteCancel(c)
  PROVE  Lifecycle!MarkCancelled(yielding[c]) \/ UNCHANGED <<pc, status, output, results>>
<1> DEFINE r == yielding[c]
<1>1. r \in Runs
  BY DEF CompleteCancel, TypeOK
<1>2. CASE status[r] = "RUNNING"
  <2>1. pc[r] \notin {"new", "returned"}
    BY <1>1, <1>2, ComputeStatusType
      DEF Outcomes, RunOutcome, EndsWithLevels, EndsWithTimeout, EndsWithError
  <2>2. Phases[r] = "open" /\ Phases' = Phases
    BY <1>1, <2>1 DEF CompleteCancel, Phases, Phase
  <2>3. QED
    BY <1>1, <1>2, <2>2
      DEF CompleteCancel, Phases, Phase, Lifecycle!MarkCancelled, Lifecycle!AggregateOutput,
          AggregateOutput
<1>3. CASE status[r] # "RUNNING"
  BY <1>3 DEF CompleteCancel
<1>4. QED
  BY <1>2, <1>3

(* To readers of the record a run is what RunLifecycle says: results enter *)
(* by whole levels in the order of the DAG, CANCELLED only before the end, *)
(* and the record is closed once, with a status and an output that fit the *)
(* results (that it is closed at all is model-checked).                    *)
THEOREM RefinesLifecycle == Spec => Lifecycle!Init /\ [][Lifecycle!Next]_(Lifecycle!vars)
<1>1. Init => Lifecycle!Init
  BY DEF Init, Lifecycle!Init, NoResults, Lifecycle!NoResults, NoOutput, Lifecycle!NoOutput
<1>2. TypeOK /\ DispatchDiscipline /\ Outcomes /\ [Next]_vars => [Lifecycle!Next]_(Lifecycle!vars)
  <2> SUFFICES ASSUME TypeOK, DispatchDiscipline, Outcomes, [Next]_vars
               PROVE  Lifecycle!Next \/ UNCHANGED Lifecycle!vars
    OBVIOUS
  <2>1. ASSUME Phases' = Phases, UNCHANGED <<status, output, results>>
        PROVE  UNCHANGED Lifecycle!vars
    BY <2>1 DEF Phases, Phase, Lifecycle!vars
  <2>2. ASSUME UNCHANGED <<pc, status, output, results>>
        PROVE  UNCHANGED Lifecycle!vars
    BY <2>1, <2>2 DEF Phases
  <2>3. ASSUME NEW r \in Runs, StartRun(r) \/ CollectLevel(r)
               \/ FinishTimeout(r) \/ FinishFailed(r) \/ FinishRun(r)
        PROVE  Lifecycle!Next
    BY <2>3, OpenRefined, RecordRefined, CloseRefined DEF Lifecycle!Next
  <2>4. ASSUME NEW r \in Runs, StartLevels(r) \/ PropagateError(r) \/ Timeout(r)
        PROVE  UNCHANGED Lifecycle!vars
    <3>1. pc[r] \notin {"new", "returned"} /\ UNCHANGED <<status, output, results>>
      BY <2>4 DEF StartLevels, PropagateError, Timeout
    <3>2. \E to \in ControlState \ {"new", "returned"} : pc' = [pc EXCEPT ![r] = to]
      BY <2>4 DEF StartLevels, EnterLevel, PropagateError, Timeout, ControlState
    <3>3. QED
      BY <2>1, <3>1, <3>2, PhaseUnchanged
  <2>5. ASSUME NEW r \in Runs, NEW n \in Nodes, NodeStep(r, n) \/ Unwind(r, n)
        PROVE  UNCHANGED Lifecycle!vars
    BY <2>2, <2>5, NodeStepFrame
  <2>6. ASSUME NEW c \in Clients, CompleteCancel(c)
        PROVE  Lifecycle!Next \/ UNCHANGED Lifecycle!vars
    <3>1. yielding[c] \in Runs
      BY <2>6 DEF CompleteCancel, TypeOK
    <3>2. QED
      BY <2>2, <2>6, <3>1, MarkCancelledRefined DEF Lifecycle!Next
  <2>7. ASSUME NEW c \in Clients, NEW r \in Runs, RequestCancel(c, r)
        PROVE  UNCHANGED Lifecycle!vars
    BY <2>2, <2>7 DEF RequestCancel
  <2>8. CASE UNCHANGED vars
    BY <2>2, <2>8 DEF vars, runVars
  <2>9. QED
    BY <2>3, <2>4, <2>5, <2>6, <2>7, <2>8 DEF Next, DriverStep
<1>3. QED
  BY <1>1, <1>2, TypeCorrect, DispatchIsDisciplined, OutcomesHold, PTL DEF Spec
=============================================================================
