---------------------------- MODULE RunLifecycle ----------------------------
(***************************************************************************)
(* What the execution manager promises to whoever looks at a run through   *)
(* get_run(): the HTTP handlers and the status streams.  Nothing here says *)
(* how nodes are dispatched.  node_results grows by whole levels, in the   *)
(* order of the DAG; a cancellation may put CANCELLED in the record while  *)
(* the run is still being driven; and the run is closed exactly once, with *)
(* the record every later reader will find.                                *)
(*                                                                         *)
(* The record in _runs is replaced, never modified, but every copy shares  *)
(* the one node_results dict (model_copy is shallow): so results is a      *)
(* variable of its own and not a field of the record.                      *)
(***************************************************************************)
EXTENDS RunModel

CONSTANT Runs

VARIABLES
  phase,     \* "unknown" to the manager, "open" while start_run() drives it, "closed"
  status,    \* _runs[r].status
  output,    \* _runs[r].output
  results    \* _runs[r].node_results, shared by every copy of the record

vars == <<phase, status, output, results>>

TypeOK ==
  /\ phase \in [Runs -> {"unknown", "open", "closed"}]
  /\ status \in [Runs -> RunStatus \cup {"absent"}]
  /\ output \in [Runs -> Outputs]
  /\ results \in [Runs -> NodeResults]

Init ==
  /\ phase = [r \in Runs |-> "unknown"]
  /\ status = [r \in Runs |-> "absent"]
  /\ output = [r \in Runs |-> NoOutput]
  /\ results = [r \in Runs |-> NoResults]

(* start_run() stores a fresh record. *)
Open(r) ==
  /\ phase[r] = "unknown"
  /\ phase' = [phase EXCEPT ![r] = "open"]
  /\ status' = [status EXCEPT ![r] = "RUNNING"]
  /\ UNCHANGED <<output, results>>

(* The results of level k enter the shared dict at once, after those of    *)
(* every level before it.                                                  *)
Record(r) ==
  /\ phase[r] = "open"
  /\ \E k \in 1..Depth :
       /\ Recorded(results[r]) = {n \in Nodes : Level[n] < k}
       /\ \E kind \in [LevelNodes(k) -> ResultKind] :
            results' = [results EXCEPT ![r] =
              [n \in Nodes |-> IF Level[n] = k THEN kind[n] ELSE @[n]]]
  /\ UNCHANGED <<phase, status, output>>

(* cancel_run() replaces the record of a run that still reads RUNNING.     *)
MarkCancelled(r) ==
  /\ phase[r] = "open"
  /\ status[r] = "RUNNING"
  /\ status' = [status EXCEPT ![r] = "CANCELLED"]
  /\ output' = [output EXCEPT ![r] = AggregateOutput(results[r])]
  /\ UNCHANGED <<phase, results>>

(* The three ways start_run() ends: the levels ran or were cut short, the  *)
(* deadline passed, or an exception escaped.                               *)
ClosingRecords(res) ==
  {<<ComputeStatus(res), AggregateOutput(res)>>,
   <<"TIMED_OUT", AggregateOutput(res)>>,
   <<"FAILED", NoOutput>>}

Close(r) ==
  /\ phase[r] = "open"
  /\ phase' = [phase EXCEPT ![r] = "closed"]
  /\ \E rec \in ClosingRecords(results[r]) :
       /\ status' = [status EXCEPT ![r] = rec[1]]
       /\ output' = [output EXCEPT ![r] = rec[2]]
  /\ UNCHANGED results

Next == \E r \in Runs : Open(r) \/ Record(r) \/ MarkCancelled(r) \/ Close(r)

(* A run that was opened is closed: start_run() runs under wait_for().     *)
Fairness == \A r \in Runs : WF_vars(Close(r))

Spec == Init /\ [][Next]_vars /\ Fairness
=============================================================================
