-------------------------- MODULE ExecutionManager --------------------------
(***************************************************************************)
(* execution/manager.py with execution/runner.py: ExecutionManager drives  *)
(* runs of a workflow level by level, each level a gather() of one task    *)
(* per node, all runs sharing one semaphore, with a deadline on the whole  *)
(* run and with cancel requests coming from other coroutines.              *)
(*                                                                         *)
(* Everything runs on one asyncio event loop, so control changes hands     *)
(* only at an await.  An action is the code between two awaits; where a    *)
(* coroutine is suspended is its state: pc[r] for start_run() together     *)
(* with the task wait_for() makes of _run_levels(), task[r][n] for the     *)
(* task gather() makes for node n, yielding[c] for a cancel_run().         *)
(*                                                                         *)
(* A definition named for a mistake (LoopEndsLate, StoredWithoutFailures,  *)
(* UnwindKeepingPermit ...) is a wrong variant of the one that follows it, *)
(* kept to show that the properties tell the two apart.                    *)
(***************************************************************************)
EXTENDS RunModel

CONSTANTS
  Runs,            \* the calls of start_run()
  Clients,         \* the callers of cancel_run()
  NoRun,           \* the client is not inside cancel_run()
  MaxConcurrency,  \* the permits of the semaphore
  RetryBudgets,    \* the values retry_override and max_retries may have
  Mapped,          \* the nodes with a non-empty input_mapping
  Refs,            \* Refs[n]: the nodes whose output n's input_mapping names
  Answers          \* the kinds of output agents answer with

ASSUME ManagerAssumption ==
  /\ IsFiniteSet(Runs)
  /\ MaxConcurrency \in Nat \ {0}
  /\ RetryBudgets \subseteq Nat /\ RetryBudgets # {}
  /\ NoRun \notin Runs
  /\ Mapped \subseteq Nodes
  /\ Refs \in [Nodes -> SUBSET Nodes]
  /\ \A n \in Nodes : Refs[n] # {} => n \in Mapped
  /\ Answers \subseteq CompletedKind

VARIABLES
  pc,           \* where start_run() is
  level,        \* the level _run_levels() dispatched last, 0 before the first
  cancelEvent,  \* _cancel_events[r].is_set()
  status,       \* _runs[r].status
  output,       \* _runs[r].output
  results,      \* node_results, one dict shared by every copy of the run
  task,         \* where the task of a node is, or how it ended
  retriesLeft,  \* the attempts a node may still make after the current one
  permits,      \* the value of the semaphore
  yielding      \* the run whose cancel_run() the client is inside of

runVars == <<pc, level, cancelEvent, status, output, results>>
taskVars == <<task, retriesLeft, permits>>
vars == <<runVars, taskVars, yielding>>

(***************************************************************************)
(* start_run(): "new", then                                                *)
(*   "spawned"     suspended in wait_for(), _run_levels() not yet scheduled*)
(*   "gather"      _run_levels() suspended in gather()                     *)
(*   "levelsdone"  _run_levels() has returned, start_run() not yet resumed *)
(*   "failing"     _run_levels() has raised, start_run() not yet resumed   *)
(*   "unwinding"   the deadline passed, wait_for() is cancelling the levels*)
(*   "returned"                                                            *)
(* A node: "idle" without a task; "waiting" for the semaphore; "lookup" in *)
(* registry.get(); "invoking" the agent; "backoff" between two attempts;   *)
(* "cancelling" from the CancelledError until its finally blocks have run; *)
(* and at its end "cancelled", "raised", or the kind of its NodeResult.    *)
(***************************************************************************)
ControlState ==
  {"new", "spawned", "gather", "levelsdone", "failing", "unwinding", "returned"}
Suspended == {"lookup", "invoking", "backoff"}
Holding == Suspended \cup {"cancelling"}   \* inside async with self._semaphore
Live == Holding \cup {"waiting"}
TaskState == Live \cup ResultKind \cup {"idle", "raised", "cancelled"}

TypeOK ==
  /\ pc \in [Runs -> ControlState]
  /\ level \in [Runs -> 0..Depth]
  /\ cancelEvent \in [Runs -> BOOLEAN]
  /\ status \in [Runs -> RunStatus \cup {"absent"}]
  /\ output \in [Runs -> Outputs]
  /\ results \in [Runs -> NodeResults]
  /\ task \in [Runs -> [Nodes -> TaskState]]
  /\ retriesLeft \in [Runs -> [Nodes -> Nat]]
  /\ permits \in Nat
  /\ yielding \in [Clients -> Runs \cup {NoRun}]

Init ==
  /\ pc = [r \in Runs |-> "new"]
  /\ level = [r \in Runs |-> 0]
  /\ cancelEvent = [r \in Runs |-> FALSE]
  /\ status = [r \in Runs |-> "absent"]
  /\ output = [r \in Runs |-> NoOutput]
  /\ results = [r \in Runs |-> NoResults]
  /\ task = [r \in Runs |-> [n \in Nodes |-> "idle"]]
  /\ retriesLeft = [r \in Runs |-> [n \in Nodes |-> 0]]
  /\ permits = MaxConcurrency
  /\ yielding = [c \in Clients |-> NoRun]
-----------------------------------------------------------------------------
(* start_run() up to its first await.                                      *)
StartRun(r) ==
  /\ pc[r] = "new"
  /\ pc' = [pc EXCEPT ![r] = "spawned"]
  /\ status' = [status EXCEPT ![r] = "RUNNING"]
  /\ UNCHANGED <<level, cancelEvent, output, results, taskVars, yielding>>

(* The head of the level loop, entered in the same step as whatever came   *)
(* before it: level k is dispatched unless the levels are exhausted or the *)
(* run was cancelled.                                                      *)
LoopEndsIgnoringCancel(r, k) == k > Depth
LoopEndsLate(r, k) == k > Depth + 1 \/ cancelEvent[r]
LoopEnds(r, k) == k > Depth \/ cancelEvent[r]

DispatchedAgain(r, k) == [n \in Nodes |-> IF Level[n] <= k THEN "waiting" ELSE task[r][n]]
Dispatched(r, k) == [n \in Nodes |-> IF Level[n] = k THEN "waiting" ELSE task[r][n]]

EnterLevel(r, k) ==
  IF LoopEnds(r, k)
  THEN /\ pc' = [pc EXCEPT ![r] = "levelsdone"]
       /\ UNCHANGED <<level, task>>
  ELSE /\ pc' = [pc EXCEPT ![r] = "gather"]
       /\ level' = [level EXCEPT ![r] = k]
       /\ task' = [task EXCEPT ![r] = Dispatched(r, k)]

StartLevels(r) ==
  /\ pc[r] = "spawned"
  /\ EnterLevel(r, 1)
  /\ UNCHANGED <<cancelEvent, status, output, results, retriesLeft, permits, yielding>>

StoredWithoutFailures(r) ==
  [n \in Nodes |-> IF Level[n] = level[r] /\ task[r][n] # "failed"
                     THEN task[r][n] ELSE results[r][n]]

Stored(r) ==
  [n \in Nodes |-> IF Level[n] = level[r] THEN task[r][n] ELSE results[r][n]]

AnyFailed(r) == \E n \in LevelNodes(level[r]) : task[r][n] = "failed"
AllFailed(r) == \A n \in LevelNodes(level[r]) : task[r][n] = "failed"

(* gather() returned: the results of the level are stored, and the loop    *)
(* breaks if they are all failures or goes on to its head.                 *)
CollectLevel(r) ==
  /\ pc[r] = "gather"
  /\ \A n \in LevelNodes(level[r]) : task[r][n] \in ResultKind
  /\ results' = [results EXCEPT ![r] = Stored(r)]
  /\ \/ /\ AllFailed(r)
        /\ pc' = [pc EXCEPT ![r] = "levelsdone"]
        /\ UNCHANGED <<level, task>>
     \/ /\ ~AllFailed(r)
        /\ EnterLevel(r, level[r] + 1)
  /\ UNCHANGED <<cancelEvent, status, output, retriesLeft, permits, yielding>>

(* gather() hands on the first exception of a node at once, and leaves the *)
(* other nodes of the level running.                                       *)
PropagateError(r) ==
  /\ pc[r] = "gather"
  /\ \E n \in LevelNodes(level[r]) : task[r][n] = "raised"
  /\ pc' = [pc EXCEPT ![r] = "failing"]
  /\ UNCHANGED <<level, cancelEvent, status, output, results, taskVars, yielding>>
-----------------------------------------------------------------------------
(* The tasks that cancelling gather() reaches: none, once an exception has *)
(* settled its outcome.                                                    *)
CancellableShielded(r) == {}

Cancellable(r) ==
  IF pc[r] = "gather" /\ \A n \in LevelNodes(level[r]) : task[r][n] # "raised"
  THEN {n \in LevelNodes(level[r]) : task[r][n] \in Live}
  ELSE {}

(* A node that still waits for the semaphore has nothing to unwind.        *)
CancelTask(where) == IF where = "waiting" THEN "cancelled" ELSE "cancelling"

(* The deadline: wait_for() cancels _run_levels() and waits for it to end. *)
TimeoutBetweenLevels(r) ==
  /\ pc[r] = "spawned"
  /\ pc' = [pc EXCEPT ![r] = "unwinding"]
  /\ UNCHANGED <<level, cancelEvent, status, output, results, taskVars, yielding>>

Timeout(r) ==
  /\ pc[r] \in {"spawned", "gather"}
  /\ pc' = [pc EXCEPT ![r] = "unwinding"]
  /\ task' = [task EXCEPT ![r] =
       [n \in Nodes |-> IF n \in Cancellable(r) THEN CancelTask(@[n]) ELSE @[n]]]
  /\ UNCHANGED <<level, cancelEvent, status, output, results, retriesLeft, permits, yielding>>

(* A cancelled node leaves its finally blocks and the semaphore.           *)
UnwindKeepingPermit(r, n) ==
  /\ task[r][n] = "cancelling"
  /\ task' = [task EXCEPT ![r][n] = "cancelled"]
  /\ UNCHANGED <<runVars, retriesLeft, permits, yielding>>

Unwind(r, n) ==
  /\ task[r][n] = "cancelling"
  /\ task' = [task EXCEPT ![r][n] = "cancelled"]
  /\ permits' = permits + 1
  /\ UNCHANGED <<runVars, retriesLeft, yielding>>

Return(r, st, out) ==
  /\ pc' = [pc EXCEPT ![r] = "returned"]
  /\ status' = [status EXCEPT ![r] = st]
  /\ output' = [output EXCEPT ![r] = out]
  /\ UNCHANGED <<level, cancelEvent, results, taskVars, yielding>>

(* except TimeoutError.  The first cancelled node settles gather(), so the *)
(* others may still be unwinding.                                          *)
FinishTimeout(r) ==
  /\ pc[r] = "unwinding"
  /\ (\E n \in Nodes : task[r][n] = "cancelling") => \E n \in Nodes : task[r][n] = "cancelled"
  /\ Return(r, "TIMED_OUT", AggregateOutput(results[r]))

(* except Exception: output stays as it is on start_run()'s own copy.      *)
FinishFailed(r) ==
  /\ pc[r] = "failing"
  /\ Return(r, "FAILED", NoOutput)

FinishRunKeepingOutput(r) ==
  /\ pc[r] = "levelsdone"
  /\ Return(r, ComputeStatus(results[r]), output[r])

FinishRun(r) ==
  /\ pc[r] = "levelsdone"
  /\ Return(r, ComputeStatus(results[r]), AggregateOutput(results[r]))
-----------------------------------------------------------------------------
(* async with self._semaphore.  Any waiter may be next; the semaphore's    *)
(* first-come order is one of these choices.                               *)
AcquireUnguarded(r, n) ==
  /\ task[r][n] = "waiting"
  /\ task' = [task EXCEPT ![r][n] = "lookup"]
  /\ permits' = permits - 1
  /\ UNCHANGED <<runVars, retriesLeft, yielding>>

AcquirePermit(r, n) ==
  /\ task[r][n] = "waiting"
  /\ permits > 0
  /\ task' = [task EXCEPT ![r][n] = "lookup"]
  /\ permits' = permits - 1
  /\ UNCHANGED <<runVars, retriesLeft, yielding>>

(* The node ends with a result or an exception and gives its permit back.  *)
EndKeepingPermitOnError(r, n, how) ==
  /\ task' = [task EXCEPT ![r][n] = how]
  /\ retriesLeft' = [retriesLeft EXCEPT ![r][n] = 0]
  /\ permits' = IF how = "raised" THEN permits ELSE permits + 1
  /\ UNCHANGED <<runVars, yielding>>

End(r, n, how) ==
  /\ task' = [task EXCEPT ![r][n] = how]
  /\ retriesLeft' = [retriesLeft EXCEPT ![r][n] = 0]
  /\ permits' = permits + 1
  /\ UNCHANGED <<runVars, yielding>>

Move(r, n, where) ==
  /\ task' = [task EXCEPT ![r][n] = where]
  /\ UNCHANGED <<runVars, permits, yielding>>

(* The agent is not registered, or not ACTIVE.                             *)
AgentUnavailable(r, n) ==
  /\ task[r][n] = "lookup"
  /\ End(r, n, "failed")

(* registry.get() raises, or the status is a bare string (a PATCH of the   *)
(* in-memory registry stores one) and .value on it raises.                 *)
LookupRaises(r, n) ==
  /\ task[r][n] = "lookup"
  /\ End(r, n, "raised")

(* A path of input_mapping that does not resolve: a DataResolverError is   *)
(* the node's failure, a ValueError (a list indexed by a word) escapes.    *)
ResolveFails(r, n) ==
  /\ task[r][n] = "lookup"
  /\ n \in Mapped
  /\ \E how \in {"failed", "raised"} : End(r, n, how)

(* A reference resolves only in the non-empty output of a completed node.  *)
Resolvable(r, n) == \A m \in Refs[n] : results[r][m] = "data"

InvokeUnresolved(r, n) ==
  /\ task[r][n] = "lookup"
  /\ \E budget \in RetryBudgets :
       retriesLeft' = [retriesLeft EXCEPT ![r][n] = budget]
  /\ Move(r, n, "invoking")

Invoke(r, n) ==
  /\ task[r][n] = "lookup"
  /\ Resolvable(r, n)
  /\ \E budget \in RetryBudgets :
       retriesLeft' = [retriesLeft EXCEPT ![r][n] = budget]
  /\ Move(r, n, "invoking")

AttemptSucceeds(r, n) ==
  /\ task[r][n] = "invoking"
  /\ \E kind \in Answers : End(r, n, kind)

(* The answer is not JSON, or JSON that is neither an object nor null, or  *)
(* the endpoint is no URL: nothing in run() catches it.                    *)
AttemptRaises(r, n) ==
  /\ task[r][n] = "invoking"
  /\ End(r, n, "raised")

(* HTTPStatusError, RequestError or TimeoutError.                          *)
AttemptFailsUncounted(r, n) ==
  /\ task[r][n] = "invoking"
  /\ Move(r, n, "backoff")
  /\ UNCHANGED retriesLeft

AttemptFails(r, n) ==
  /\ task[r][n] = "invoking"
  /\ \/ /\ retriesLeft[r][n] > 0
        /\ retriesLeft' = [retriesLeft EXCEPT ![r][n] = @ - 1]
        /\ Move(r, n, "backoff")
     \/ /\ retriesLeft[r][n] = 0
        /\ End(r, n, "failed")

BackoffEnds(r, n) ==
  /\ task[r][n] = "backoff"
  /\ Move(r, n, "invoking")
  /\ UNCHANGED retriesLeft

NodeStep(r, n) ==
  \/ AcquirePermit(r, n) \/ AgentUnavailable(r, n) \/ LookupRaises(r, n)
  \/ ResolveFails(r, n) \/ Invoke(r, n) \/ AttemptSucceeds(r, n)
  \/ AttemptRaises(r, n) \/ AttemptFails(r, n) \/ BackoffEnds(r, n)
-----------------------------------------------------------------------------
(* cancel_run() up to sleep(0): for a run that is known and still RUNNING. *)
RequestCancel(c, r) ==
  /\ yielding[c] = NoRun
  /\ status[r] = "RUNNING"
  /\ cancelEvent' = [cancelEvent EXCEPT ![r] = TRUE]
  /\ yielding' = [yielding EXCEPT ![c] = r]
  /\ UNCHANGED <<pc, level, status, output, results, taskVars>>

(* After sleep(0) the record is read again, and replaced only if it still  *)
(* says RUNNING.                                                           *)
CompleteCancelBlindly(c) ==
  /\ yielding[c] # NoRun
  /\ status' = [status EXCEPT ![yielding[c]] = "CANCELLED"]
  /\ output' = [output EXCEPT ![yielding[c]] = AggregateOutput(results[yielding[c]])]
  /\ yielding' = [yielding EXCEPT ![c] = NoRun]
  /\ UNCHANGED <<pc, level, cancelEvent, results, taskVars>>

CompleteCancel(c) ==
  /\ yielding[c] # NoRun
  /\ LET r == yielding[c]
     IN  \/ /\ status[r] = "RUNNING"
            /\ status' = [status EXCEPT ![r] = "CANCELLED"]
            /\ output' = [output EXCEPT ![r] = AggregateOutput(results[r])]
         \/ /\ status[r] # "RUNNING"
            /\ UNCHANGED <<status, output>>
  /\ yielding' = [yielding EXCEPT ![c] = NoRun]
  /\ UNCHANGED <<pc, level, cancelEvent, results, taskVars>>
-----------------------------------------------------------------------------
DriverStep(r) ==
  \/ StartLevels(r) \/ CollectLevel(r) \/ PropagateError(r)
  \/ FinishTimeout(r) \/ FinishFailed(r) \/ FinishRun(r)

Next ==
  \/ \E r \in Runs : StartRun(r) \/ DriverStep(r) \/ Timeout(r)
  \/ \E r \in Runs, n \in Nodes : NodeStep(r, n) \/ Unwind(r, n)
  \/ \E c \in Clients : CompleteCancel(c) \/ \E r \in Runs : RequestCancel(c, r)

(* The event loop resumes what is ready, the timer of wait_for() fires,    *)
(* and finally blocks end.  Nothing is assumed of agents or of callers.    *)
Fairness ==
  /\ \A r \in Runs : WF_vars(DriverStep(r)) /\ WF_vars(Timeout(r))
  /\ \A r \in Runs, n \in Nodes : WF_vars(Unwind(r, n))
  /\ \A c \in Clients : WF_vars(CompleteCancel(c))

Spec == Init /\ [][Next]_vars /\ Fairness

(* With agents that answer or time out in the end (httpx has a timeout).   *)
AnsweredSpec == Spec /\ \A r \in Runs, n \in Nodes : WF_vars(NodeStep(r, n))
-----------------------------------------------------------------------------
Holders == {h \in Runs \X Nodes : task[h[1]][h[2]] \in Holding}

(* Every permit is with a node between the two ends of its async with, or  *)
(* in the semaphore: none is lost when a node fails, raises or is          *)
(* cancelled, so at most MaxConcurrency nodes run, over all runs.          *)
PermitsConserved ==
  permits >= 0 /\ permits + Cardinality(Holders) = MaxConcurrency

(* A node has a task only when the results of all its predecessors are in  *)
(* node_results, where _execute_node() looks for them.                     *)
PredecessorsFirst ==
  \A r \in Runs, n \in Nodes :
    task[r][n] # "idle" => Preds[n] \subseteq Recorded(results[r])

(* Levels are dispatched one after the other, each when all results of the *)
(* one before are stored: a node has a task exactly when its level was     *)
(* reached, node_results holds what the tasks returned and no more, and    *)
(* while a level runs it holds the levels below.                           *)
DispatchDiscipline ==
  \A r \in Runs :
    /\ pc[r] \in {"new", "spawned"} => level[r] = 0
    /\ pc[r] = "gather" => level[r] > 0 /\ Recorded(results[r]) = {n \in Nodes : Level[n] < level[r]}
    /\ \A n \in Nodes :
         /\ task[r][n] # "idle" <=> Level[n] <= level[r]
         /\ Level[n] < level[r] => results[r][n] # "absent"
         /\ results[r][n] # "absent" => results[r][n] = task[r][n]

(* A node succeeds only on inputs from completed nodes of earlier levels,  *)
(* although nothing checks that input_mapping follows the edges.           *)
SuccessHasItsInputs ==
  \A r \in Runs, n \in Nodes : task[r][n] \in CompletedKind =>
    \A m \in Refs[n] : Level[m] < Level[n] /\ results[r][m] = "data"

Ended == ResultKind \cup {"raised", "cancelled"}

(* A node runs at most once in a run, and its result is never replaced,    *)
(* not even by a task that outlives the run.                               *)
NodesRunOnce ==
  [][\A r \in Runs, n \in Nodes :
       /\ task[r][n] \in Ended => task'[r][n] = task[r][n]
       /\ results[r][n] # "absent" => results'[r][n] = results[r][n]]_vars

(* Once cancel_run() has set the event, no node gets a task.               *)
NoLevelAfterCancel ==
  [][\A r \in Runs, n \in Nodes :
       cancelEvent[r] /\ task[r][n] = "idle" => task'[r][n] = "idle"]_vars

(* What start_run() returned is what every later get_run() finds: neither  *)
(* a cancel_run() that was waiting nor a node that was left running        *)
(* changes the record any more.                                            *)
ReturnedIsFinal ==
  [][\A r \in Runs : pc[r] = "returned" =>
       /\ status'[r] = status[r]
       /\ output'[r] = output[r]
       /\ results'[r] = results[r]]_vars

Raised(r) == \E n \in Nodes : task[r][n] = "raised"

(* When the levels ran to their end and a node has no result all the same, *)
(* the run was cancelled, or a level before that node failed as a whole.   *)
SkippedNodesExplained ==
  \A r \in Runs : pc[r] = "returned" /\ status[r] # "TIMED_OUT" /\ ~Raised(r) =>
    \A n \in Nodes \ Recorded(results[r]) :
      \/ cancelEvent[r]
      \/ \E k \in 1..(Level[n] - 1) : \A m \in LevelNodes(k) : results[r][m] = "failed"

(* COMPLETED, when nobody cancelled, says that every node of the workflow  *)
(* completed.                                                              *)
CompletedIsComplete ==
  \A r \in Runs : pc[r] = "returned" /\ status[r] = "COMPLETED" /\ ~cancelEvent[r] =>
    \A n \in Nodes : results[r][n] \in CompletedKind

(* The output of a run that returned is that of its node_results, unless   *)
(* an exception ended it; a CANCELLED record in between leaves no trace.   *)
OutputIsAggregate ==
  \A r \in Runs : pc[r] = "returned" =>
    output[r] \in {AggregateOutput(results[r]), NoOutput} /\ (output[r] = NoOutput => Raised(r))

(* A run leaves nodes behind, waiting for permits and calling agents, only *)
(* when a node raised; after a deadline the rest is at most unwinding.     *)
NoOrphansUnlessRaised ==
  \A r \in Runs : pc[r] = "returned" /\ ~Raised(r) =>
    \A n \in Nodes : task[r][n] \in Live =>
      status[r] = "TIMED_OUT" /\ task[r][n] = "cancelling"

(* start_run() returns, whatever the agents do.                            *)
RunsReturn == \A r \in Runs : pc[r] = "spawned" ~> pc[r] = "returned"

(* When agents answer or time out, all permits come back in the end, those *)
(* of nodes that outlive their run included.                               *)
PermitsReturn == <>[](permits = MaxConcurrency)

Lifecycle == INSTANCE RunLifecycle WITH
  phase <- [r \in Runs |-> CASE pc[r] = "new"      -> "unknown"
                             [] pc[r] = "returned" -> "closed"
                             [] OTHER              -> "open"]

(* To readers of _runs a run is what RunLifecycle says: results enter by   *)
(* whole levels in DAG order, and the record is closed once, consistently. *)
ImplementsLifecycle == Lifecycle!Spec
-----------------------------------------------------------------------------
(* What the documentation says and the code does not do.                   *)

(* ws.py closes the stream on CANCELLED as on the other terminal statuses, *)
(* and cancel_run() returns it as the outcome: it should stay.             *)
CancelledIsTerminal ==
  [][\A r \in Runs : status[r] = "CANCELLED" => status'[r] = "CANCELLED"]_vars
=============================================================================
