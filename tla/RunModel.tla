------------------------------ MODULE RunModel ------------------------------
(***************************************************************************)
(* The data an execution run is made of (models/execution.py) and the      *)
(* workflow it executes, as the execution manager sees it: the nodes, the  *)
(* level the DAG engine gave to each of them, and the nodes each depends   *)
(* on.  What the DAG engine guarantees about levels is the assumption      *)
(* below; the module DAGEngine models how it computes them.                *)
(***************************************************************************)
EXTENDS Integers, FiniteSets

CONSTANTS
  Nodes,      \* the node ids of the workflow
  Depth,      \* how many levels the DAG engine found
  Level,      \* Level[n]: the position of n's level in compute_levels()
  Preds       \* Preds[n]: the sources of the edges into n

ASSUME WorkflowAssumption ==
  /\ IsFiniteSet(Nodes)
  /\ Depth \in Nat \ {0}
  /\ Level \in [Nodes -> 1..Depth]
  /\ \A k \in 1..Depth : \E n \in Nodes : Level[n] = k
  /\ Preds \in [Nodes -> SUBSET Nodes]
  /\ \A n \in Nodes : \A p \in Preds[n] : Level[p] < Level[n]

(* One member of compute_levels(): the nodes dispatched together.          *)
LevelNodes(k) == {n \in Nodes : Level[n] = k}
-----------------------------------------------------------------------------
RunStatus == {"PENDING", "RUNNING", "COMPLETED", "FAILED",
              "PARTIALLY_FAILED", "TIMED_OUT", "CANCELLED"}

(* The statuses after which the stream of a run is closed.                 *)
TerminalStatus == RunStatus \ {"PENDING", "RUNNING"}

(***************************************************************************)
(* A NodeResult, up to what the manager tells apart: "failed" is FAILED    *)
(* with no output; the others are COMPLETED with a non-empty dict, with    *)
(* the empty dict, and with None (the agent answered null).                *)
(***************************************************************************)
CompletedKind == {"data", "empty", "null"}
ResultKind == CompletedKind \cup {"failed"}

(* node_results: a dict keyed by node id; "absent" says n is not a key.    *)
NodeResults == [Nodes -> ResultKind \cup {"absent"}]
NoResults == [n \in Nodes |-> "absent"]

Recorded(res) == {n \in Nodes : res[n] # "absent"}

NodeStatus(kind) == IF kind = "failed" THEN "FAILED" ELSE "COMPLETED"

(* NodeResult.status is only ever COMPLETED or FAILED, which leaves four   *)
(* of the outcomes of compute_status().                                    *)
ComputeStatusIgnoringFailures(res) ==
  IF Recorded(res) = {} THEN "PENDING" ELSE "COMPLETED"

ComputeStatus(res) ==
  LET statuses == {NodeStatus(res[n]) : n \in Recorded(res)}
  IN  CASE statuses = {}            -> "PENDING"
        [] statuses = {"COMPLETED"} -> "COMPLETED"
        [] statuses = {"FAILED"}    -> "FAILED"
        [] OTHER                    -> "PARTIALLY_FAILED"

(***************************************************************************)
(* ExecutionRun.output, as the set of the dicts it holds: none when it is  *)
(* None, else one dict, of which only the keys matter.  The aggregate has  *)
(* an entry for each node that is COMPLETED with a truthy output.          *)
(***************************************************************************)
NoOutput == {}
AggregateOutput(res) == {{n \in Nodes : res[n] = "data"}}
Outputs == {NoOutput} \cup {{d} : d \in SUBSET Nodes}
=============================================================================
