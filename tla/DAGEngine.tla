----------------------------- MODULE DAGEngine ------------------------------
(***************************************************************************)
(* dag/engine.py: validate() and the levels compute_levels() hands to the  *)
(* execution manager.  A workflow is the two lists of a request: node ids, *)
(* maybe repeated, and edges, maybe repeated, maybe between ids that are   *)
(* no nodes.  A level is a set here: the code sorts it, for a stable order *)
(* of dispatch.  One step of Kahn's algorithm is one turn of its while     *)
(* loop, so that what holds between two turns can be stated and proved.    *)
(*                                                                         *)
(* A definition named for a mistake (InitialInDegreeOfSources, IsReached,  *)
(* KahnNodeByNode ...) is a wrong variant of the one that follows it, kept *)
(* to show that the properties tell the two apart.                         *)
(***************************************************************************)
EXTENDS Integers, Sequences, FiniteSets

CONSTANTS Ids, Workflows

ASSUME RequestAssumption ==
  \A w \in Workflows : /\ w.nodes \in Seq(Ids) /\ w.nodes # <<>>
                       /\ w.edges \in Seq(Ids \X Ids)

VARIABLES
  workflow,     \* the request
  pc,           \* "validating", "sorting", "done"
  verdict,      \* why it was rejected, or "valid"
  inDegree,     \* in_degree
  queue,        \* the nodes of queue
  levels,       \* levels
  sortedCount   \* the sum of the lengths of levels

vars == <<workflow, pc, verdict, inDegree, queue, levels, sortedCount>>

NodeIds == {workflow.nodes[i] : i \in DOMAIN workflow.nodes}
EdgeIndices == DOMAIN workflow.edges
Source(i) == workflow.edges[i][1]
Target(i) == workflow.edges[i][2]

(* How many edges lead from nodes of S to n; repeated edges count.         *)
EdgesFrom(S, n) == Cardinality({i \in EdgeIndices : Source(i) \in S /\ Target(i) = n})

Rejection == {"duplicate", "source", "target", "self_loop", "cycle"}

TypeOK ==
  /\ workflow \in Workflows
  /\ pc \in {"validating", "sorting", "done"}
  /\ verdict \in Rejection \cup {"none", "valid"}
  /\ pc = "sorting" => inDegree \in [NodeIds -> Int]
  /\ queue \subseteq NodeIds
  /\ levels \in Seq(SUBSET NodeIds)
  /\ sortedCount \in Nat

Init ==
  /\ workflow \in Workflows
  /\ pc = "validating"
  /\ verdict = "none"
  /\ inDegree = <<>>
  /\ queue = {}
  /\ levels = <<>>
  /\ sortedCount = 0

Decide(v) ==
  /\ pc' = "done"
  /\ verdict' = v
  /\ UNCHANGED <<workflow, inDegree, queue, levels, sortedCount>>

HasDuplicates == Cardinality(NodeIds) # Len(workflow.nodes)

RejectDuplicates ==
  /\ pc = "validating"
  /\ HasDuplicates
  /\ Decide("duplicate")

(* The checks of one edge, in the order of the code.                       *)
EdgeError(i) ==
  CASE Source(i) \notin NodeIds -> "source"
    [] Target(i) \notin NodeIds -> "target"
    [] Source(i) = Target(i)    -> "self_loop"
    [] OTHER                    -> "none"

RejectEdge ==
  /\ pc = "validating"
  /\ ~HasDuplicates
  /\ \E i \in EdgeIndices :
       /\ EdgeError(i) # "none"
       /\ \A j \in EdgeIndices : j < i => EdgeError(j) = "none"
       /\ Decide(EdgeError(i))

InitialInDegreeOfTargets ==
  [n \in {Target(i) : i \in EdgeIndices} |-> EdgesFrom(NodeIds, n)]
InitialInDegreeOfSources ==
  [n \in NodeIds |-> Cardinality({Source(i) : i \in {j \in EdgeIndices : Target(j) = n}})]
InitialInDegree == [n \in NodeIds |-> EdgesFrom(NodeIds, n)]

(* in_degree, and the nodes no edge leads to.                              *)
StartSort ==
  /\ pc = "validating"
  /\ ~HasDuplicates
  /\ \A i \in EdgeIndices : EdgeError(i) = "none"
  /\ pc' = "sorting"
  /\ inDegree' = InitialInDegree
  /\ queue' = {n \in DOMAIN InitialInDegree : InitialInDegree[n] = 0}
  /\ UNCHANGED <<workflow, verdict, levels, sortedCount>>

(* The edges of the current level are taken off the in-degrees one by one, *)
(* and a node is queued when its own reaches 0 on the way.                 *)
IsReached(n) == EdgesFrom(queue, n) > 0
IsFreed(n) == inDegree[n] > 0 /\ inDegree[n] - EdgesFrom(queue, n) <= 0

KahnNodeByNode ==
  /\ pc = "sorting"
  /\ queue # {}
  /\ \E first \in queue :
       /\ inDegree' = [n \in NodeIds |-> inDegree[n] - EdgesFrom({first}, n)]
       /\ queue' = (queue \ {first}) \cup {n \in NodeIds : inDegree[n] > 0 /\ inDegree'[n] <= 0}
       /\ levels' = Append(levels, {first})
  /\ sortedCount' = sortedCount + 1
  /\ UNCHANGED <<workflow, pc, verdict>>

KahnLevel ==
  /\ pc = "sorting"
  /\ queue # {}
  /\ inDegree' = [n \in NodeIds |-> inDegree[n] - EdgesFrom(queue, n)]
  /\ queue' = {n \in NodeIds : IsFreed(n)}
  /\ levels' = Append(levels, queue)
  /\ sortedCount' = sortedCount + Cardinality(queue)
  /\ UNCHANGED <<workflow, pc, verdict>>

FinishSortUnchecked ==
  /\ pc = "sorting"
  /\ queue = {}
  /\ Decide("valid")

FinishSortWhenAllSorted ==
  /\ pc = "sorting"
  /\ sortedCount = Cardinality(NodeIds)
  /\ Decide("valid")

FinishSort ==
  /\ pc = "sorting"
  /\ queue = {}
  /\ Decide(IF sortedCount # Cardinality(NodeIds) THEN "cycle" ELSE "valid")

Next == RejectDuplicates \/ RejectEdge \/ StartSort \/ KahnLevel \/ FinishSort

Spec == Init /\ [][Next]_vars /\ WF_vars(Next)
-----------------------------------------------------------------------------
Placed == UNION {levels[k] : k \in DOMAIN levels}

(* Between two turns in_degree counts the edges that still come from nodes *)
(* without a level, and the queue holds the nodes it is 0 for.             *)
InDegreeCountsPending ==
  pc = "sorting" =>
    /\ \A n \in NodeIds : inDegree[n] = EdgesFrom(NodeIds \ Placed, n)
    /\ queue = {n \in NodeIds \ Placed : inDegree[n] = 0}

(* The levels of an accepted workflow have every node once.                *)
LevelsPartition ==
  verdict = "valid" =>
    /\ Placed = NodeIds
    /\ \A j, k \in DOMAIN levels : j # k => levels[j] \cap levels[k] = {}
    /\ \A k \in DOMAIN levels : levels[k] # {}

(* An edge leads to a later level: level N+1 depends on level N.           *)
EdgesGoForward ==
  \A i \in EdgeIndices : \A k \in DOMAIN levels :
    Target(i) \in levels[k] => \E j \in 1..(k - 1) : Source(i) \in levels[j]

(* A node is in the earliest level it can be in: some predecessor is in    *)
(* the level just before, so the levels are as parallel as they can be.    *)
LevelsTight ==
  \A k \in DOMAIN levels \ {1} : \A n \in levels[k] :
    \E i \in EdgeIndices : Target(i) = n /\ Source(i) \in levels[k - 1]

(* Distinct nodes, edges between nodes, and no set of nodes that each have *)
(* a predecessor in the set: what it is to be a DAG, without an algorithm. *)
IsDAG ==
  /\ \A i, j \in DOMAIN workflow.nodes : workflow.nodes[i] = workflow.nodes[j] => i = j
  /\ \A i \in EdgeIndices : {Source(i), Target(i)} \subseteq NodeIds
  /\ \A S \in (SUBSET NodeIds) \ {{}} :
       \E n \in S : \A i \in EdgeIndices : Target(i) = n => Source(i) \notin S

(* validate() accepts the workflows that are DAGs, and no other.           *)
AcceptsExactlyDAGs == pc = "done" => (verdict = "valid" <=> IsDAG)

(* The sort ends on every request, cyclic ones included.                   *)
Terminates == <>(pc = "done")
=============================================================================
