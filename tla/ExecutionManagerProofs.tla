----------------------- MODULE ExecutionManagerProofs -----------------------
(***************************************************************************)
(* What ExecutionManager guarantees for every workflow, any number of runs *)
(* and clients, any retry budgets and any number of permits.               *)
(***************************************************************************)
EXTENDS ExecutionManager, FiniteSetTheorems, TLAPS

(* Every way _run_levels() enters a level keeps the types of what it sets. *)
LEMMA EnterLevelTypes ==
  ASSUME TypeOK, NEW r \in Runs, NEW k \in Nat \ {0}, EnterLevel(r, k)
  PROVE  /\ pc' \in [Runs -> ControlState]
         /\ level' \in [Runs -> 0..Depth]
         /\ task' \in [Runs -> [Nodes -> TaskState]]
<1>1. CASE LoopEnds(r, k)
  BY <1>1 DEF EnterLevel, TypeOK, ControlState
<1>2. CASE ~LoopEnds(r, k)
  <2>1. k \in 0..Depth
    BY <1>2, WorkflowAssumption DEF LoopEnds
  <2>2. Dispatched(r, k) \in [Nodes -> TaskState]
    BY DEF Dispatched, TypeOK, TaskState, Live
  <2>3. pc' = [pc EXCEPT ![r] = "gather"] /\ pc' \in [Runs -> ControlState]
    BY <1>2 DEF EnterLevel, TypeOK, ControlState
  <2>4. level' \in [Runs -> 0..Depth]
    <3>1. level' = [level EXCEPT ![r] = k]
      BY <1>2 DEF EnterLevel
    <3>2. level \in [Runs -> 0..Depth]
      BY DEF TypeOK
    <3>3. QED
      BY <2>1, <3>1, <3>2
  <2>5. task' = [task EXCEPT ![r] = Dispatched(r, k)]
    BY <1>2 DEF EnterLevel
  <2>6. task \in [Runs -> [Nodes -> TaskState]]
    BY DEF TypeOK
  <2>7. QED
    BY <2>2, <2>3, <2>4, <2>5, <2>6
<1>3. QED
  BY <1>1, <1>2

(* NodeStep and Unwind change a task, the budget and the permits, and keep *)
(* their types.                                                            *)
LEMMA NodeStepTypes ==
  ASSUME TypeOK, NEW r \in Runs, NEW n \in Nodes, NodeStep(r, n) \/ Unwind(r, n)
  PROVE  /\ task' \in [Runs -> [Nodes -> TaskState]]
         /\ retriesLeft' \in [Runs -> [Nodes -> Nat]]
         /\ permits' \in Nat
         /\ UNCHANGED <<runVars, yielding>>
<1> USE DEF TypeOK, End, Move, TaskState, Live, Holding, Suspended, ResultKind
<1>1. CASE AcquirePermit(r, n)
  BY <1>1 DEF AcquirePermit
<1>2. CASE AgentUnavailable(r, n)
  BY <1>2 DEF AgentUnavailable
<1>3. CASE LookupRaises(r, n)
  BY <1>3 DEF LookupRaises
<1>4. CASE ResolveFails(r, n)
  BY <1>4 DEF ResolveFails
<1>5. CASE Invoke(r, n)
  BY <1>5, ManagerAssumption DEF Invoke
<1>6. CASE AttemptSucceeds(r, n)
  BY <1>6, ManagerAssumption DEF AttemptSucceeds
<1>7. CASE AttemptRaises(r, n)
  BY <1>7 DEF AttemptRaises
<1>8. CASE AttemptFails(r, n)
  <2>1. CASE /\ retriesLeft[r][n] > 0
             /\ retriesLeft' = [retriesLeft EXCEPT ![r][n] = retriesLeft[r][n] - 1]
             /\ Move(r, n, "backoff")
    <3>1. retriesLeft[r][n] \in Nat /\ retriesLeft[r][n] > 0
      BY <2>1
    <3>2. retriesLeft[r][n] - 1 \in Nat
      BY <3>1
    <3>3. QED
      BY <2>1, <3>2
  <2>2. CASE End(r, n, "failed")
    BY <2>2
  <2>3. QED
    BY <1>8, <2>1, <2>2 DEF AttemptFails
<1>9. CASE BackoffEnds(r, n)
  BY <1>9 DEF BackoffEnds
<1>10. CASE Unwind(r, n)
  BY <1>10 DEF Unwind
<1>11. QED
  BY <1>1, <1>2, <1>3, <1>4, <1>5, <1>6, <1>7, <1>8, <1>9, <1>10 DEF NodeStep

LEMMA ComputeStatusType ==
  ASSUME NEW res
  PROVE  ComputeStatus(res) \in {"PENDING", "COMPLETED", "FAILED", "PARTIALLY_FAILED"}
BY DEF ComputeStatus

LEMMA AggregateOutputType ==
  ASSUME NEW res
  PROVE  AggregateOutput(res) \in Outputs /\ NoOutput \in Outputs
BY DEF AggregateOutput, NoOutput, Outputs

LEMMA TypeOKInvariant == TypeOK /\ [Next]_vars => TypeOK'
<1> SUFFICES ASSUME TypeOK, [Next]_vars
             PROVE  TypeOK'
  OBVIOUS
<1>1. CASE UNCHANGED vars
  BY <1>1 DEF vars, runVars, taskVars, TypeOK
<1>2. ASSUME NEW r \in Runs, StartRun(r)
      PROVE  TypeOK'
  BY <1>2 DEF StartRun, TypeOK, taskVars, ControlState, RunStatus
<1>3. ASSUME NEW r \in Runs, StartLevels(r)
      PROVE  TypeOK'
  BY <1>3, EnterLevelTypes DEF StartLevels, TypeOK
<1>4. ASSUME NEW r \in Runs, CollectLevel(r)
      PROVE  TypeOK'
  <2>1. Stored(r) \in NodeResults
    BY <1>4 DEF CollectLevel, Stored, NodeResults, LevelNodes, TypeOK
  <2>2. /\ pc' \in [Runs -> ControlState]
        /\ level' \in [Runs -> 0..Depth]
        /\ task' \in [Runs -> [Nodes -> TaskState]]
    <3>1. level[r] + 1 \in Nat \ {0}
      BY WorkflowAssumption DEF TypeOK
    <3>2. QED
      BY <1>4, <3>1, EnterLevelTypes DEF CollectLevel, TypeOK, ControlState
  <2>3. QED
    BY <1>4, <2>1, <2>2 DEF CollectLevel, TypeOK
<1>5. ASSUME NEW r \in Runs, PropagateError(r)
      PROVE  TypeOK'
  BY <1>5 DEF PropagateError, TypeOK, taskVars, ControlState
<1>6. ASSUME NEW r \in Runs, Timeout(r)
      PROVE  TypeOK'
  BY <1>6 DEF Timeout, CancelTask, TypeOK, ControlState, TaskState, Live, Holding
<1>7. ASSUME NEW r \in Runs, FinishTimeout(r) \/ FinishFailed(r) \/ FinishRun(r)
      PROVE  TypeOK'
  <2>1. ASSUME NEW st \in RunStatus, NEW out \in Outputs, Return(r, st, out)
        PROVE  TypeOK'
    BY <2>1 DEF Return, TypeOK, taskVars, ControlState
  <2>2. /\ AggregateOutput(results[r]) \in Outputs
        /\ NoOutput \in Outputs
        /\ ComputeStatus(results[r]) \in RunStatus
    BY ComputeStatusType, AggregateOutputType DEF RunStatus
  <2>3. {"TIMED_OUT", "FAILED"} \subseteq RunStatus
    BY DEF RunStatus
  <2>4. QED
    BY <1>7, <2>1, <2>2, <2>3 DEF FinishTimeout, FinishFailed, FinishRun
<1>8. ASSUME NEW r \in Runs, NEW n \in Nodes, NodeStep(r, n) \/ Unwind(r, n)
      PROVE  TypeOK'
  BY <1>8, NodeStepTypes DEF TypeOK, runVars
<1>9. ASSUME NEW c \in Clients, NEW r \in Runs, RequestCancel(c, r)
      PROVE  TypeOK'
  BY <1>9 DEF RequestCancel, TypeOK, taskVars
<1>10. ASSUME NEW c \in Clients, CompleteCancel(c)
       PROVE  TypeOK'
  <2>1. yielding[c] \in Runs
    BY <1>10 DEF CompleteCancel, TypeOK
  <2>2. AggregateOutput(results[yielding[c]]) \in Outputs
    BY AggregateOutputType
  <2>3. /\ status' \in [Runs -> RunStatus \cup {"absent"}]
        /\ output' \in [Runs -> Outputs]
    <3>1. CASE status[yielding[c]] = "RUNNING"
      <4>1. /\ status' = [status EXCEPT ![yielding[c]] = "CANCELLED"]
            /\ output' = [output EXCEPT ![yielding[c]] = AggregateOutput(results[yielding[c]])]
        BY <1>10, <3>1 DEF CompleteCancel
      <4>2. /\ status \in [Runs -> RunStatus \cup {"absent"}]
            /\ output \in [Runs -> Outputs]
            /\ "CANCELLED" \in RunStatus
        BY DEF TypeOK, RunStatus
      <4>3. QED
        BY <2>2, <4>1, <4>2
    <3>2. CASE status[yielding[c]] # "RUNNING"
      BY <1>10, <3>2 DEF CompleteCancel, TypeOK
    <3>3. QED
      BY <3>1, <3>2
  <2>4. QED
    BY <1>10, <2>3 DEF CompleteCancel, TypeOK, taskVars
<1>11. QED
  BY <1>1, <1>2, <1>3, <1>4, <1>5, <1>6, <1>7, <1>8, <1>9, <1>10 DEF Next, DriverStep

(* The types of the state of every run.                                    *)
THEOREM TypeCorrect == Spec => []TypeOK
<1>1. Init => TypeOK
  BY WorkflowAssumption, ManagerAssumption
    DEF Init, TypeOK, ControlState, TaskState, NodeResults, NoResults, NoOutput, Outputs
<1>2. QED
  BY <1>1, TypeOKInvariant, PTL DEF Spec
-----------------------------------------------------------------------------
(* A step of a node moves a live task on, never back to "idle" or          *)
(* "waiting", and moves a permit when it enters or leaves the semaphore.   *)
PermitMoves(from, to) ==
  \/ from = "waiting" /\ to = "lookup" /\ permits > 0 /\ permits' = permits - 1
  \/ from \in Holding /\ to \in Holding /\ permits' = permits
  \/ from \in Holding /\ to \in Ended /\ permits' = permits + 1

LEMMA NodeStepEffect ==
  ASSUME TypeOK, NEW r \in Runs, NEW n \in Nodes, NodeStep(r, n) \/ Unwind(r, n)
  PROVE  \E to \in Holding \cup Ended :
           /\ task' = [task EXCEPT ![r][n] = to]
           /\ PermitMoves(task[r][n], to)
           /\ UNCHANGED <<runVars, yielding>>
<1> USE DEF End, Move, PermitMoves, Holding, Suspended, Ended, ResultKind
<1>1. CASE AcquirePermit(r, n)
  BY <1>1 DEF AcquirePermit
<1>2. CASE AgentUnavailable(r, n)
  BY <1>2 DEF AgentUnavailable
<1>3. CASE LookupRaises(r, n)
  BY <1>3 DEF LookupRaises
<1>4. CASE ResolveFails(r, n)
  BY <1>4 DEF ResolveFails
<1>5. CASE Invoke(r, n)
  BY <1>5 DEF Invoke
<1>6. CASE AttemptSucceeds(r, n)
  BY <1>6, ManagerAssumption DEF AttemptSucceeds
<1>7. CASE AttemptRaises(r, n)
  BY <1>7 DEF AttemptRaises
<1>8. CASE AttemptFails(r, n)
  BY <1>8 DEF AttemptFails
<1>9. CASE BackoffEnds(r, n)
  BY <1>9 DEF BackoffEnds
<1>10. CASE Unwind(r, n)
  BY <1>10 DEF Unwind
<1>11. QED
  BY <1>1, <1>2, <1>3, <1>4, <1>5, <1>6, <1>7, <1>8, <1>9, <1>10 DEF NodeStep

(* Entering level k, the one after the level of r, keeps the discipline of *)
(* the other runs and gives tasks to the nodes of level k only.            *)
LEMMA EnterLevelDiscipline ==
  ASSUME TypeOK, NEW r \in Runs, EnterLevel(r, level[r] + 1),
         \A n \in Nodes : task[r][n] # "idle" <=> Level[n] <= level[r]
  PROVE  /\ \A q \in Runs \ {r} : pc'[q] = pc[q] /\ level'[q] = level[q] /\ task'[q] = task[q]
         /\ \A n \in Nodes : task'[r][n] # "idle" <=> Level[n] <= level'[r]
         /\ \A n \in Nodes : task[r][n] # "idle" => task'[r][n] = task[r][n]
         /\ \/ pc'[r] = "levelsdone" /\ level'[r] = level[r]
            \/ pc'[r] = "gather" /\ level'[r] = level[r] + 1
         /\ cancelEvent[r] => task' = task
<1>1. level[r] \in Nat /\ \A n \in Nodes : Level[n] \in Nat
  BY WorkflowAssumption DEF TypeOK
<1>2. CASE LoopEnds(r, level[r] + 1)
  BY <1>2 DEF EnterLevel, TypeOK
<1>3. CASE ~LoopEnds(r, level[r] + 1)
  <2>1. /\ pc' = [pc EXCEPT ![r] = "gather"]
        /\ level' = [level EXCEPT ![r] = level[r] + 1]
        /\ task' = [task EXCEPT ![r] = Dispatched(r, level[r] + 1)]
        /\ ~cancelEvent[r]
    BY <1>3 DEF EnterLevel, LoopEnds
  <2>2. \A n \in Nodes : task'[r][n] = IF Level[n] = level[r] + 1 THEN "waiting" ELSE task[r][n]
    BY <2>1 DEF Dispatched, TypeOK
  <2>3. level'[r] = level[r] + 1 /\ pc'[r] = "gather"
    BY <2>1 DEF TypeOK
  <2>4. \A n \in Nodes : task'[r][n] # "idle" <=> Level[n] <= level'[r]
    BY <1>1, <2>2, <2>3
  <2>5. \A n \in Nodes : task[r][n] # "idle" => task'[r][n] = task[r][n]
    BY <1>1, <2>2
  <2>6. QED
    BY <1>3, <2>1, <2>3, <2>4, <2>5 DEF TypeOK
<1>4. QED
  BY <1>2, <1>3

(* What CollectLevel stores agrees with the tasks.                         *)
LEMMA StoredDiscipline ==
  ASSUME TypeOK, DispatchDiscipline, NEW r \in Runs, CollectLevel(r)
  PROVE  /\ results' = [results EXCEPT ![r] = Stored(r)]
         /\ Recorded(results'[r]) = {n \in Nodes : Level[n] < level[r] + 1}
         /\ \A n \in Nodes : results'[r][n] # "absent" => results'[r][n] = task[r][n]
         /\ \A n \in Nodes : results[r][n] # "absent" => results'[r][n] = results[r][n]
<1>1. level[r] \in Nat /\ \A n \in Nodes : Level[n] \in Nat
  BY WorkflowAssumption DEF TypeOK
<1>2. results' = [results EXCEPT ![r] = Stored(r)]
  BY DEF CollectLevel
<1>3. \A n \in Nodes :
        results'[r][n] = IF Level[n] = level[r] THEN task[r][n] ELSE results[r][n]
  BY <1>2 DEF Stored, TypeOK
<1>4. \A n \in Nodes : Level[n] = level[r] => task[r][n] # "absent" /\ results[r][n] = "absent"
  BY <1>1 DEF CollectLevel, LevelNodes, DispatchDiscipline, Recorded, ResultKind, CompletedKind
<1>5. \A n \in Nodes : Level[n] # level[r] => (results[r][n] # "absent" <=> Level[n] < level[r])
  BY <1>1 DEF CollectLevel, DispatchDiscipline, Recorded
<1>6. Recorded(results'[r]) = {n \in Nodes : Level[n] < level[r] + 1}
  BY <1>1, <1>3, <1>4, <1>5 DEF Recorded
<1>7. QED
  BY <1>2, <1>3, <1>4, <1>6 DEF DispatchDiscipline

(* The step of a node leaves everything of every node but its own task, and *)
(* a task that ended stays as it is.                                       *)
LEMMA NodeStepFrame ==
  ASSUME TypeOK, NEW r \in Runs, NEW n \in Nodes, NodeStep(r, n) \/ Unwind(r, n)
  PROVE  /\ UNCHANGED <<pc, level, cancelEvent, status, output, results, yielding>>
         /\ \A q \in Runs, m \in Nodes :
              /\ task'[q][m] # "idle" <=> task[q][m] # "idle"
              /\ task[q][m] \in Ended \cup {"idle"} => task'[q][m] = task[q][m]
<1>1. PICK to \in Holding \cup Ended :
           /\ task' = [task EXCEPT ![r][n] = to]
           /\ PermitMoves(task[r][n], to)
           /\ UNCHANGED <<runVars, yielding>>
  BY NodeStepEffect
<1>2. task[r][n] \in Live /\ to # "idle"
  BY <1>1 DEF PermitMoves, Live, Holding, Suspended, Ended, ResultKind, CompletedKind
<1>3. task[r][n] \notin Ended \cup {"idle"}
  BY <1>2 DEF Live, Holding, Suspended, Ended, ResultKind, CompletedKind
<1>4. QED
  BY <1>1, <1>2, <1>3 DEF runVars, TypeOK

LEMMA DispatchDisciplineInvariant == TypeOK /\ DispatchDiscipline /\ [Next]_vars => DispatchDiscipline'
<1> SUFFICES ASSUME TypeOK, DispatchDiscipline, [Next]_vars
             PROVE  DispatchDiscipline'
  OBVIOUS
<1>1. \A r \in Runs : level[r] \in Nat
  BY WorkflowAssumption DEF TypeOK
<1>2. \A n \in Nodes : Level[n] \in Nat \ {0}
  BY WorkflowAssumption
<1>3. ASSUME UNCHANGED <<pc, level, results, task>>
      PROVE  DispatchDiscipline'
  BY <1>3 DEF DispatchDiscipline, Recorded
<1>4. ASSUME NEW r \in Runs, NEW k, k \notin {"new", "spawned", "gather"},
             pc' = [pc EXCEPT ![r] = k], UNCHANGED <<level, results, task>>
      PROVE  DispatchDiscipline'
  BY <1>4 DEF DispatchDiscipline, Recorded, TypeOK
<1>5. ASSUME NEW r \in Runs, StartRun(r)
      PROVE  DispatchDiscipline'
  BY <1>5 DEF StartRun, DispatchDiscipline, Recorded, TypeOK, taskVars
<1>6. ASSUME NEW r \in Runs, StartLevels(r)
      PROVE  DispatchDiscipline'
  <2>1. level[r] = 0 /\ EnterLevel(r, level[r] + 1) /\ results' = results
    BY <1>6 DEF StartLevels, DispatchDiscipline
  <2>2. /\ \A q \in Runs \ {r} : pc'[q] = pc[q] /\ level'[q] = level[q] /\ task'[q] = task[q]
        /\ \A n \in Nodes : task'[r][n] # "idle" <=> Level[n] <= level'[r]
        /\ \/ pc'[r] = "levelsdone" /\ level'[r] = level[r]
           \/ pc'[r] = "gather" /\ level'[r] = level[r] + 1
    BY <2>1, EnterLevelDiscipline DEF DispatchDiscipline
  <2>3. \A n \in Nodes : results[r][n] = "absent"
    <3>1. SUFFICES ASSUME NEW n \in Nodes, results[r][n] # "absent"
                   PROVE  FALSE
      OBVIOUS
    <3>2. task[r][n] = "idle"
      BY <1>2, <2>1 DEF DispatchDiscipline
    <3>3. results[r][n] = "idle" /\ results[r][n] \in ResultKind \cup {"absent"}
      BY <3>1, <3>2 DEF DispatchDiscipline, TypeOK, NodeResults
    <3>4. QED
      BY <3>3 DEF ResultKind, CompletedKind
  <2>4. \A n \in Nodes : ~(Level[n] < level'[r])
    BY <1>2, <2>1, <2>2
  <2>5. QED
    BY <2>1, <2>2, <2>3, <2>4 DEF DispatchDiscipline, Recorded
<1>7. ASSUME NEW r \in Runs, CollectLevel(r)
      PROVE  DispatchDiscipline'
  <2>1. /\ results' = [results EXCEPT ![r] = Stored(r)]
        /\ Recorded(results'[r]) = {n \in Nodes : Level[n] < level[r] + 1}
        /\ \A n \in Nodes : results'[r][n] # "absent" => results'[r][n] = task[r][n]
    BY <1>7, StoredDiscipline
  <2>2. \A n \in Nodes : results'[r][n] # "absent" => task[r][n] # "idle"
    BY <1>1, <1>2, <2>1 DEF Recorded, DispatchDiscipline
  <2>3. \A q \in Runs \ {r} : results'[q] = results[q]
    BY <2>1 DEF TypeOK
  <2>4. CASE pc' = [pc EXCEPT ![r] = "levelsdone"] /\ UNCHANGED <<level, task>>
    <3>1. \A n \in Nodes : Level[n] < level[r] => results'[r][n] # "absent"
      BY <1>1, <1>2, <2>1 DEF Recorded
    <3>2. pc'[r] = "levelsdone" /\ \A q \in Runs \ {r} : pc'[q] = pc[q]
      BY <2>4 DEF TypeOK
    <3>3. QED
      BY <2>1, <2>3, <2>4, <3>1, <3>2 DEF DispatchDiscipline, Recorded
  <2>5. CASE EnterLevel(r, level[r] + 1)
    <3>1. /\ \A q \in Runs \ {r} : pc'[q] = pc[q] /\ level'[q] = level[q] /\ task'[q] = task[q]
          /\ \A n \in Nodes : task'[r][n] # "idle" <=> Level[n] <= level'[r]
          /\ \A n \in Nodes : task[r][n] # "idle" => task'[r][n] = task[r][n]
          /\ \/ pc'[r] = "levelsdone" /\ level'[r] = level[r]
             \/ pc'[r] = "gather" /\ level'[r] = level[r] + 1
      BY <2>5, EnterLevelDiscipline DEF DispatchDiscipline
    <3>2. \A n \in Nodes : Level[n] < level'[r] => results'[r][n] # "absent"
      BY <1>1, <1>2, <2>1, <3>1 DEF Recorded
    <3>3. \A n \in Nodes : results'[r][n] # "absent" => results'[r][n] = task'[r][n]
      BY <2>1, <2>2, <3>1
    <3>4. pc'[r] = "gather" =>
            level'[r] > 0 /\ Recorded(results'[r]) = {n \in Nodes : Level[n] < level'[r]}
      BY <1>1, <2>1, <3>1
    <3>5. pc'[r] \notin {"new", "spawned"}
      BY <3>1
    <3>6. QED
      BY <2>3, <3>1, <3>2, <3>3, <3>4, <3>5 DEF DispatchDiscipline, Recorded
  <2>6. QED
    BY <1>7, <2>4, <2>5 DEF CollectLevel
<1>8. ASSUME NEW r \in Runs, Timeout(r)
      PROVE  DispatchDiscipline'
  <2>1. \A q \in Runs, n \in Nodes : task'[q][n] # task[q][n] =>
          task[q][n] \in Live /\ task'[q][n] \in {"cancelled", "cancelling"}
    <3>1. \A q \in Runs \ {r} : task'[q] = task[q]
      BY <1>8 DEF Timeout, TypeOK
    <3>2. \A n \in Nodes :
            /\ n \notin Cancellable(r) => task'[r][n] = task[r][n]
            /\ n \in Cancellable(r) => task'[r][n] \in {"cancelled", "cancelling"}
      BY <1>8 DEF Timeout, TypeOK, CancelTask
    <3>3. \A n \in Cancellable(r) : task[r][n] \in Live
      BY DEF Cancellable
    <3>4. \A n \in Nodes : task'[r][n] # task[r][n] =>
            n \in Cancellable(r) /\ task'[r][n] \in {"cancelled", "cancelling"}
      BY <3>2
    <3>5. QED
      BY <3>1, <3>3, <3>4
  <2>2. \A q \in Runs, n \in Nodes : results[q][n] # "absent" => task[q][n] \in ResultKind
    BY DEF DispatchDiscipline, TypeOK, NodeResults
  <2>3. \A q \in Runs, n \in Nodes :
          /\ task'[q][n] # "idle" <=> task[q][n] # "idle"
          /\ results[q][n] # "absent" => task'[q][n] = task[q][n]
    BY <2>1, <2>2 DEF Live, Holding, Suspended, ResultKind, CompletedKind
  <2>4. pc'[r] = "unwinding" /\ \A q \in Runs \ {r} : pc'[q] = pc[q]
    BY <1>8 DEF Timeout, TypeOK
  <2>5. QED
    BY <1>8, <2>3, <2>4 DEF Timeout, DispatchDiscipline, Recorded
<1>9. ASSUME NEW r \in Runs, NEW n \in Nodes, NodeStep(r, n) \/ Unwind(r, n)
      PROVE  DispatchDiscipline'
  <2>1. /\ UNCHANGED <<pc, level, results>>
        /\ \A q \in Runs, m \in Nodes :
             /\ task'[q][m] # "idle" <=> task[q][m] # "idle"
             /\ task[q][m] \in Ended \cup {"idle"} => task'[q][m] = task[q][m]
    BY <1>9, NodeStepFrame
  <2>2. \A q \in Runs, m \in Nodes : results[q][m] # "absent" => task[q][m] \in Ended
    BY DEF DispatchDiscipline, TypeOK, NodeResults, Ended
  <2>3. QED
    BY <2>1, <2>2 DEF DispatchDiscipline, Recorded
<1>10. QED
  <2>1. CASE UNCHANGED vars
    BY <1>3, <2>1 DEF vars, runVars, taskVars
  <2>2. ASSUME NEW r \in Runs, PropagateError(r)
        PROVE  DispatchDiscipline'
    BY <1>4, <2>2 DEF PropagateError, taskVars
  <2>3. ASSUME NEW r \in Runs, FinishTimeout(r) \/ FinishFailed(r) \/ FinishRun(r)
        PROVE  DispatchDiscipline'
    BY <1>4, <2>3 DEF FinishTimeout, FinishFailed, FinishRun, Return, taskVars
  <2>4. ASSUME NEW c \in Clients, CompleteCancel(c) \/ \E r \in Runs : RequestCancel(c, r)
        PROVE  DispatchDiscipline'
    BY <1>3, <2>4 DEF CompleteCancel, RequestCancel, taskVars
  <2>5. QED
    BY <1>5, <1>6, <1>7, <1>8, <1>9, <2>1, <2>2, <2>3, <2>4 DEF Next, DriverStep

(* Levels are dispatched in order, and node_results agrees with the tasks. *)
THEOREM DispatchIsDisciplined == Spec => []DispatchDiscipline
<1>1. Init => DispatchDiscipline
  BY WorkflowAssumption DEF Init, DispatchDiscipline, NoResults
<1>2. QED
  BY <1>1, TypeCorrect, DispatchDisciplineInvariant, PTL DEF Spec

(* A node is dispatched only after all its predecessors have results.      *)
THEOREM PredecessorsAreFirst == Spec => []PredecessorsFirst
<1>1. TypeOK /\ DispatchDiscipline => PredecessorsFirst
  <2> SUFFICES ASSUME TypeOK, DispatchDiscipline,
                      NEW r \in Runs, NEW n \in Nodes, task[r][n] # "idle", NEW p \in Preds[n]
               PROVE  p \in Recorded(results[r])
    BY DEF PredecessorsFirst
  <2>1. /\ p \in Nodes /\ Level[p] \in Nat /\ Level[n] \in Nat /\ level[r] \in Nat
        /\ Level[p] < Level[n]
    BY WorkflowAssumption DEF TypeOK
  <2>2. Level[n] <= level[r]
    BY DEF DispatchDiscipline
  <2>3. QED
    BY <2>1, <2>2 DEF DispatchDiscipline, Recorded
<1>2. QED
  BY <1>1, TypeCorrect, DispatchIsDisciplined, PTL
-----------------------------------------------------------------------------
(* No node runs twice in a run and no result is replaced.                  *)
THEOREM NodesRunAtMostOnce == Spec => NodesRunOnce
<1> DEFINE Kept ==
      \A r \in Runs, n \in Nodes :
        /\ task[r][n] \in Ended => task'[r][n] = task[r][n]
        /\ results[r][n] # "absent" => results'[r][n] = results[r][n]
<1>1. TypeOK /\ DispatchDiscipline /\ [Next]_vars => Kept
  <2> SUFFICES ASSUME TypeOK, DispatchDiscipline, [Next]_vars
               PROVE  Kept
    OBVIOUS
  <2> HIDE DEF Kept
  <2>1. ASSUME UNCHANGED <<results, task>>
        PROVE  Kept
    BY <2>1 DEF Kept
  <2>2. ASSUME NEW r \in Runs, EnterLevel(r, level[r] + 1), UNCHANGED results
        PROVE  Kept
    BY <2>2, EnterLevelDiscipline DEF DispatchDiscipline, Kept, Ended, ResultKind, CompletedKind
  <2>3. ASSUME NEW r \in Runs, CollectLevel(r)
        PROVE  Kept
    <3>1. \A q \in Runs, n \in Nodes : results[q][n] # "absent" => results'[q][n] = results[q][n]
      BY <2>3, StoredDiscipline DEF TypeOK
    <3>2. \A q \in Runs, n \in Nodes : task[q][n] # "idle" => task'[q][n] = task[q][n]
      BY <2>3, EnterLevelDiscipline DEF CollectLevel, DispatchDiscipline
    <3>3. QED
      BY <3>1, <3>2 DEF Kept, Ended, ResultKind, CompletedKind
  <2>4. ASSUME NEW r \in Runs, Timeout(r)
        PROVE  Kept
    <3>1. \A q \in Runs, n \in Nodes : task[q][n] \notin Live => task'[q][n] = task[q][n]
      BY <2>4 DEF Timeout, Cancellable, TypeOK
    <3>2. Ended \cap Live = {}
      BY DEF Ended, Live, Holding, Suspended, ResultKind, CompletedKind
    <3>3. QED
      BY <2>4, <3>1, <3>2 DEF Timeout, Kept
  <2>5. ASSUME NEW r \in Runs, NEW n \in Nodes, NodeStep(r, n) \/ Unwind(r, n)
        PROVE  Kept
    BY <2>5, NodeStepFrame DEF Kept
  <2>6. CASE UNCHANGED vars
    BY <2>1, <2>6 DEF vars, runVars, taskVars
  <2>7. ASSUME NEW r \in Runs,
               StartRun(r) \/ PropagateError(r) \/ FinishTimeout(r) \/ FinishFailed(r) \/ FinishRun(r)
        PROVE  Kept
    BY <2>1, <2>7
      DEF StartRun, PropagateError, FinishTimeout, FinishFailed, FinishRun, Return, taskVars
  <2>8. ASSUME NEW r \in Runs, StartLevels(r)
        PROVE  Kept
    BY <2>2, <2>8 DEF StartLevels, DispatchDiscipline
  <2>9. ASSUME NEW c \in Clients, CompleteCancel(c) \/ \E r \in Runs : RequestCancel(c, r)
        PROVE  Kept
    BY <2>1, <2>9 DEF CompleteCancel, RequestCancel, taskVars
  <2>10. QED
    BY <2>3, <2>4, <2>5, <2>6, <2>7, <2>8, <2>9 DEF Next, DriverStep
<1>2. QED
  BY <1>1, TypeCorrect, DispatchIsDisciplined, PTL DEF Spec, NodesRunOnce

(* After a cancel request no node gets a task.                             *)
THEOREM CancelStopsDispatch == Spec => NoLevelAfterCancel
<1> DEFINE Held ==
      \A r \in Runs, n \in Nodes :
        cancelEvent[r] /\ task[r][n] = "idle" => task'[r][n] = "idle"
<1>1. TypeOK /\ DispatchDiscipline /\ [Next]_vars => Held
  <2> SUFFICES ASSUME TypeOK, DispatchDiscipline, [Next]_vars
               PROVE  Held
    OBVIOUS
  <2> HIDE DEF Held
  <2>1. ASSUME UNCHANGED task
        PROVE  Held
    BY <2>1 DEF Held
  <2>2. ASSUME NEW r \in Runs, StartLevels(r) \/ CollectLevel(r)
        PROVE  Held
    <3>1. task' = task \/ EnterLevel(r, level[r] + 1)
      BY <2>2 DEF StartLevels, CollectLevel, DispatchDiscipline
    <3>2. QED
      BY <3>1, <2>1, EnterLevelDiscipline DEF DispatchDiscipline, Held
  <2>3. ASSUME NEW r \in Runs, Timeout(r)
        PROVE  Held
    <3>1. \A q \in Runs, n \in Nodes : task[q][n] \notin Live => task'[q][n] = task[q][n]
      BY <2>3 DEF Timeout, Cancellable, TypeOK
    <3>2. QED
      BY <3>1 DEF Held, Live, Holding, Suspended
  <2>4. ASSUME NEW r \in Runs, NEW n \in Nodes, NodeStep(r, n) \/ Unwind(r, n)
        PROVE  Held
    BY <2>4, NodeStepFrame DEF Held
  <2>5. CASE UNCHANGED vars
    BY <2>1, <2>5 DEF vars, taskVars
  <2>6. ASSUME NEW r \in Runs,
               StartRun(r) \/ PropagateError(r) \/ FinishTimeout(r) \/ FinishFailed(r) \/ FinishRun(r)
        PROVE  Held
    BY <2>1, <2>6
      DEF StartRun, PropagateError, FinishTimeout, FinishFailed, FinishRun, Return, taskVars
  <2>7. ASSUME NEW c \in Clients, CompleteCancel(c) \/ \E r \in Runs : RequestCancel(c, r)
        PROVE  Held
    BY <2>1, <2>7 DEF CompleteCancel, RequestCancel, taskVars
  <2>8. QED
    BY <2>2, <2>3, <2>4, <2>5, <2>6, <2>7 DEF Next, DriverStep
<1>2. QED
  BY <1>1, TypeCorrect, DispatchIsDisciplined, PTL DEF Spec, NoLevelAfterCancel
-----------------------------------------------------------------------------
(* compute_status() never says RUNNING of the results it is given, so a    *)
(* cancel_run() that wakes up after the end finds nothing to replace.      *)
ReturnedNotRunning == \A r \in Runs : pc[r] = "returned" => status[r] # "RUNNING"

LEMMA ReturnedNotRunningInvariant ==
  TypeOK /\ ReturnedNotRunning /\ [Next]_vars => ReturnedNotRunning'
<1> SUFFICES ASSUME TypeOK, ReturnedNotRunning, [Next]_vars
             PROVE  ReturnedNotRunning'
  OBVIOUS
<1>1. ASSUME UNCHANGED <<pc, status>>
      PROVE  ReturnedNotRunning'
  BY <1>1 DEF ReturnedNotRunning
<1>2. ASSUME NEW r \in Runs, pc'[r] # "returned", status' = status \/ pc[r] = "new",
             \A q \in Runs \ {r} : pc'[q] = pc[q] /\ status'[q] = status[q]
      PROVE  ReturnedNotRunning'
  BY <1>2 DEF ReturnedNotRunning
<1>3. ASSUME NEW r \in Runs, StartRun(r)
      PROVE  ReturnedNotRunning'
  BY <1>2, <1>3 DEF StartRun, TypeOK
<1>4. ASSUME NEW r \in Runs, StartLevels(r) \/ CollectLevel(r)
      PROVE  ReturnedNotRunning'
  BY <1>2, <1>4 DEF StartLevels, CollectLevel, EnterLevel, TypeOK
<1>5. ASSUME NEW r \in Runs, PropagateError(r) \/ Timeout(r)
      PROVE  ReturnedNotRunning'
  BY <1>2, <1>5 DEF PropagateError, Timeout, TypeOK
<1>6. ASSUME NEW r \in Runs, FinishTimeout(r) \/ FinishFailed(r) \/ FinishRun(r)
      PROVE  ReturnedNotRunning'
  <2>1. ASSUME NEW st, NEW out, st # "RUNNING", Return(r, st, out)
        PROVE  ReturnedNotRunning'
    BY <2>1 DEF Return, ReturnedNotRunning, TypeOK
  <2>2. ComputeStatus(results[r]) # "RUNNING"
    BY ComputeStatusType
  <2>3. QED
    BY <1>6, <2>1, <2>2 DEF FinishTimeout, FinishFailed, FinishRun
<1>7. ASSUME NEW r \in Runs, NEW n \in Nodes, NodeStep(r, n) \/ Unwind(r, n)
      PROVE  ReturnedNotRunning'
  BY <1>1, <1>7, NodeStepFrame
<1>8. ASSUME NEW c \in Clients, CompleteCancel(c) \/ \E r \in Runs : RequestCancel(c, r)
      PROVE  ReturnedNotRunning'
  BY <1>8 DEF CompleteCancel, RequestCancel, ReturnedNotRunning, TypeOK
<1>9. QED
  BY <1>1, <1>3, <1>4, <1>5, <1>6, <1>7, <1>8 DEF Next, DriverStep, vars, runVars

(* The record start_run() returned is never changed, whatever client was   *)
(* inside cancel_run() and whatever node is still running.                 *)
THEOREM ReturnedRecordIsFinal == Spec => ReturnedIsFinal
<1> DEFINE Final ==
      \A r \in Runs : pc[r] = "returned" =>
        /\ status'[r] = status[r]
        /\ output'[r] = output[r]
        /\ results'[r] = results[r]
<1>1. TypeOK /\ ReturnedNotRunning /\ [Next]_vars => Final
  <2> SUFFICES ASSUME TypeOK, ReturnedNotRunning, [Next]_vars
               PROVE  Final
    OBVIOUS
  <2> HIDE DEF Final
  <2>1. ASSUME UNCHANGED <<status, output, results>>
        PROVE  Final
    BY <2>1 DEF Final
  <2>2. ASSUME NEW r \in Runs,
               StartRun(r) \/ FinishTimeout(r) \/ FinishFailed(r) \/ FinishRun(r)
        PROVE  Final
    BY <2>2 DEF StartRun, FinishTimeout, FinishFailed, FinishRun, Return, Final, TypeOK
  <2>3. ASSUME NEW r \in Runs, CollectLevel(r)
        PROVE  Final
    BY <2>3 DEF CollectLevel, Final, TypeOK
  <2>4. ASSUME NEW r \in Runs, StartLevels(r) \/ PropagateError(r) \/ Timeout(r)
        PROVE  Final
    BY <2>1, <2>4 DEF StartLevels, PropagateError, Timeout
  <2>5. ASSUME NEW r \in Runs, NEW n \in Nodes, NodeStep(r, n) \/ Unwind(r, n)
        PROVE  Final
    BY <2>1, <2>5, NodeStepFrame
  <2>6. ASSUME NEW c \in Clients, CompleteCancel(c)
        PROVE  Final
    BY <2>6 DEF CompleteCancel, ReturnedNotRunning, Final, TypeOK
  <2>7. ASSUME NEW c \in Clients, NEW r \in Runs, RequestCancel(c, r)
        PROVE  Final
    BY <2>1, <2>7 DEF RequestCancel
  <2>8. QED
    BY <2>1, <2>2, <2>3, <2>4, <2>5, <2>6, <2>7 DEF Next, DriverStep, vars, runVars
<1>2. Init => ReturnedNotRunning
  BY DEF Init, ReturnedNotRunning
<1>3. QED
  BY <1>1, <1>2, TypeCorrect, ReturnedNotRunningInvariant, PTL DEF Spec, ReturnedIsFinal
-----------------------------------------------------------------------------
LEMMA HoldersFinite == IsFiniteSet(Holders)
<1>1. IsFiniteSet(Runs \X Nodes)
  BY FS_Product, WorkflowAssumption, ManagerAssumption
<1>2. QED
  BY <1>1, FS_Subset DEF Holders

LEMMA PermitsConservedInvariant ==
  TypeOK /\ DispatchDiscipline /\ PermitsConserved /\ [Next]_vars => PermitsConserved'
<1> SUFFICES ASSUME TypeOK, DispatchDiscipline, PermitsConserved, [Next]_vars
             PROVE  PermitsConserved'
  OBVIOUS
<1>1. ASSUME permits' = permits,
             \A r \in Runs, n \in Nodes : task'[r][n] \in Holding <=> task[r][n] \in Holding
      PROVE  PermitsConserved'
  <2>1. Holders' = Holders
    BY <1>1 DEF Holders
  <2>2. QED
    BY <1>1, <2>1 DEF PermitsConserved
<1>2. ASSUME UNCHANGED <<task, permits>>
      PROVE  PermitsConserved'
  BY <1>1, <1>2
<1>3. ASSUME NEW r \in Runs, StartLevels(r) \/ CollectLevel(r)
      PROVE  PermitsConserved'
  <2>1. permits' = permits /\ (task' = task \/ EnterLevel(r, level[r] + 1))
    BY <1>3 DEF StartLevels, CollectLevel, DispatchDiscipline
  <2>2. \A q \in Runs, n \in Nodes :
          task'[q][n] # task[q][n] => task[q][n] = "idle" /\ task'[q][n] = "waiting"
    <3>1. CASE task' = task
      BY <3>1
    <3>2. CASE EnterLevel(r, level[r] + 1) /\ task' # task
      <4>1. task' = [task EXCEPT ![r] = Dispatched(r, level[r] + 1)]
        BY <3>2 DEF EnterLevel
      <4>2. \A n \in Nodes : task[r][n] # "idle" => task'[r][n] = task[r][n]
        BY <3>2, EnterLevelDiscipline DEF DispatchDiscipline
      <4>3. QED
        BY <4>1, <4>2 DEF Dispatched, TypeOK
    <3>3. QED
      BY <2>1, <3>1, <3>2
  <2>3. QED
    BY <1>1, <2>1, <2>2 DEF Holding, Suspended
<1>4. ASSUME NEW r \in Runs, Timeout(r)
      PROVE  PermitsConserved'
  <2>1. \A q \in Runs, n \in Nodes :
          task'[q][n] = task[q][n] \/ (task[q][n] \in Live /\ task'[q][n] = CancelTask(task[q][n]))
    BY <1>4 DEF Timeout, Cancellable, TypeOK
  <2>2. \A where \in Live : CancelTask(where) \in Holding <=> where \in Holding
    BY DEF CancelTask, Live, Holding, Suspended
  <2>3. QED
    BY <1>1, <1>4, <2>1, <2>2 DEF Timeout
<1>5. ASSUME NEW r \in Runs, NEW n \in Nodes, NodeStep(r, n) \/ Unwind(r, n)
      PROVE  PermitsConserved'
  <2>1. PICK to \in Holding \cup Ended :
             task' = [task EXCEPT ![r][n] = to] /\ PermitMoves(task[r][n], to)
    BY <1>5, NodeStepEffect
  <2>2. \A q \in Runs, m \in Nodes :
          task'[q][m] = IF q = r /\ m = n THEN to ELSE task[q][m]
    BY <2>1 DEF TypeOK
  <2>3. permits \in Nat /\ Cardinality(Holders) \in Nat /\ MaxConcurrency \in Nat
    BY HoldersFinite, FS_CardinalityType, ManagerAssumption DEF TypeOK
  <2>4. CASE task[r][n] = "waiting" /\ to = "lookup" /\ permits > 0 /\ permits' = permits - 1
    <3>1. Holders' = Holders \cup {<<r, n>>} /\ <<r, n>> \notin Holders
      BY <2>2, <2>4 DEF Holders, Holding, Suspended
    <3>2. Cardinality(Holders') = Cardinality(Holders) + 1
      BY <3>1, HoldersFinite, FS_AddElement
    <3>3. QED
      BY <2>3, <2>4, <3>2 DEF PermitsConserved
  <2>5. CASE task[r][n] \in Holding /\ to \in Holding /\ permits' = permits
    BY <1>1, <2>2, <2>5
  <2>6. CASE task[r][n] \in Holding /\ to \in Ended /\ permits' = permits + 1
    <3>1. to \notin Holding
      BY <2>6 DEF Ended, ResultKind, CompletedKind, Holding, Suspended
    <3>2. Holders' = Holders \ {<<r, n>>} /\ <<r, n>> \in Holders
      BY <2>2, <2>6, <3>1 DEF Holders
    <3>3. Cardinality(Holders') = Cardinality(Holders) - 1
      BY <3>2, HoldersFinite, FS_RemoveElement
    <3>4. QED
      BY <2>3, <2>6, <3>3 DEF PermitsConserved
  <2>7. QED
    BY <2>1, <2>4, <2>5, <2>6 DEF PermitMoves
<1>6. ASSUME NEW r \in Runs,
             StartRun(r) \/ PropagateError(r) \/ FinishTimeout(r) \/ FinishFailed(r) \/ FinishRun(r)
      PROVE  PermitsConserved'
  BY <1>2, <1>6
    DEF StartRun, PropagateError, FinishTimeout, FinishFailed, FinishRun, Return, taskVars
<1>7. ASSUME NEW c \in Clients, CompleteCancel(c) \/ \E r \in Runs : RequestCancel(c, r)
      PROVE  PermitsConserved'
  BY <1>2, <1>7 DEF CompleteCancel, RequestCancel, taskVars
<1>8. QED
  BY <1>2, <1>3, <1>4, <1>5, <1>6, <1>7 DEF Next, DriverStep, vars, taskVars

(* Permits are neither lost nor made, over all runs together.              *)
THEOREM PermitsAreConserved == Spec => []PermitsConserved
<1>1. Init => PermitsConserved
  <2> SUFFICES ASSUME Init
               PROVE  PermitsConserved
    OBVIOUS
  <2>1. Holders = {}
    BY DEF Init, Holders, Holding, Suspended
  <2>2. QED
    BY <2>1, FS_EmptySet, ManagerAssumption DEF Init, PermitsConserved
<1>2. QED
  BY <1>1, TypeCorrect, DispatchIsDisciplined, PermitsConservedInvariant, PTL DEF Spec
=============================================================================
