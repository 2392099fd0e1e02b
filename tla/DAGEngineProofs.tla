--------------------------- MODULE DAGEngineProofs --------------------------
(***************************************************************************)
(* validate() accepts exactly the DAGs and compute_levels() gives them the *)
(* levels the execution manager relies on, for requests of any size.       *)
(***************************************************************************)
EXTENDS DAGEngine, FiniteSetTheorems, TLAPS

(* A request is finite, and so are the sets of its nodes and edges.        *)
LEMMA RequestIsFinite ==
  ASSUME TypeOK
  PROVE  /\ workflow.nodes \in Seq(Ids) /\ workflow.edges \in Seq(Ids \X Ids)
         /\ IsFiniteSet(NodeIds) /\ NodeIds # {}
         /\ IsFiniteSet(EdgeIndices)
<1>1. /\ workflow.nodes \in Seq(Ids) /\ workflow.nodes # <<>>
      /\ workflow.edges \in Seq(Ids \X Ids)
  BY RequestAssumption DEF TypeOK
<1>2. /\ DOMAIN workflow.nodes = 1..Len(workflow.nodes) /\ Len(workflow.nodes) \in Nat \ {0}
      /\ EdgeIndices = 1..Len(workflow.edges) /\ Len(workflow.edges) \in Nat
  BY <1>1 DEF EdgeIndices
<1>3. IsFiniteSet(DOMAIN workflow.nodes) /\ IsFiniteSet(EdgeIndices)
  BY <1>2, FS_Interval
<1> DEFINE f == [i \in DOMAIN workflow.nodes |-> workflow.nodes[i]]
<1>4. f \in Surjection(DOMAIN workflow.nodes, NodeIds)
  BY DEF Surjection, NodeIds
<1>5. IsFiniteSet(NodeIds)
  BY <1>3, <1>4, FS_Surjection
<1>6. workflow.nodes[1] \in NodeIds
  BY <1>2 DEF NodeIds
<1>7. QED
  BY <1>1, <1>3, <1>5, <1>6

(* As many distinct ids as entries means that no id is repeated.           *)
LEMMA NoDuplicatesIsInjective ==
  ASSUME TypeOK
  PROVE  ~HasDuplicates <=>
           \A i, j \in DOMAIN workflow.nodes : workflow.nodes[i] = workflow.nodes[j] => i = j
<1>1. DOMAIN workflow.nodes = 1..Len(workflow.nodes) /\ Len(workflow.nodes) \in Nat
  BY RequestIsFinite
<1>2. IsFiniteSet(DOMAIN workflow.nodes) /\ Cardinality(DOMAIN workflow.nodes) = Len(workflow.nodes)
  BY <1>1, FS_Interval
<1> DEFINE f == [i \in DOMAIN workflow.nodes |-> workflow.nodes[i]]
<1>3. f \in Surjection(DOMAIN workflow.nodes, NodeIds)
  BY DEF Surjection, NodeIds
<1>4. ~HasDuplicates <=> f \in Injection(DOMAIN workflow.nodes, NodeIds)
  BY <1>2, <1>3, FS_Surjection DEF HasDuplicates
<1>5. f \in [DOMAIN workflow.nodes -> NodeIds]
  BY <1>3 DEF Surjection
<1>6. f \in Injection(DOMAIN workflow.nodes, NodeIds) <=>
        \A i, j \in DOMAIN workflow.nodes : workflow.nodes[i] = workflow.nodes[j] => i = j
  BY <1>5 DEF Injection, IsInjective
<1>7. QED
  BY <1>4, <1>6

(* Counting the edges into a node: zero, and what a level takes off.       *)
LEMMA EdgesFromZero ==
  ASSUME TypeOK, NEW S, NEW n
  PROVE  /\ EdgesFrom(S, n) \in Nat
         /\ EdgesFrom(S, n) = 0 <=> \A i \in EdgeIndices : Target(i) = n => Source(i) \notin S
<1> DEFINE into == {i \in EdgeIndices : Source(i) \in S /\ Target(i) = n}
<1>1. IsFiniteSet(into)
  BY RequestIsFinite, FS_Subset
<1>2. Cardinality(into) \in Nat /\ (Cardinality(into) = 0 <=> into = {})
  BY <1>1, FS_CardinalityType, FS_EmptySet
<1>3. QED
  BY <1>2 DEF EdgesFrom

LEMMA EdgesFromMinus ==
  ASSUME TypeOK, NEW S, NEW Q \in SUBSET S, NEW n
  PROVE  EdgesFrom(S \ Q, n) = EdgesFrom(S, n) - EdgesFrom(Q, n)
<1> DEFINE into(U) == {i \in EdgeIndices : Source(i) \in U /\ Target(i) = n}
<1>1. IsFiniteSet(into(S))
  BY RequestIsFinite, FS_Subset
<1>2. Cardinality(into(S) \ into(Q)) = Cardinality(into(S)) - Cardinality(into(S) \cap into(Q))
  BY <1>1, FS_Difference
<1>3. into(S) \ into(Q) = into(S \ Q) /\ into(S) \cap into(Q) = into(Q)
  OBVIOUS
<1>4. QED
  BY <1>2, <1>3 DEF EdgesFrom
-----------------------------------------------------------------------------
(* The inductive invariant.                                                *)
CheckedBeforeSort ==
  /\ pc = "validating" => levels = <<>>
  /\ pc # "done" => verdict = "none"
  /\ pc = "sorting" => ~HasDuplicates /\ \A i \in EdgeIndices : EdgeError(i) = "none"

CountsPlaced == sortedCount = Cardinality(Placed)

LevelsDisjoint ==
  /\ \A j, k \in DOMAIN levels : j # k => levels[j] \cap levels[k] = {}
  /\ \A k \in DOMAIN levels : levels[k] # {}

(* What was freed was freed by the level before.                           *)
QueueTight ==
  pc = "sorting" /\ levels # <<>> =>
    \A n \in queue : \E i \in EdgeIndices : Target(i) = n /\ Source(i) \in levels[Len(levels)]

(* No cycle among the nodes that have levels.                              *)
PlacedAcyclic ==
  \A S \in (SUBSET Placed) \ {{}} :
    \E n \in S : \A i \in EdgeIndices : Target(i) = n => Source(i) \notin S

ValidIsSorted == verdict = "valid" => Placed = NodeIds

SortInv ==
  /\ TypeOK /\ CheckedBeforeSort /\ CountsPlaced /\ LevelsDisjoint /\ QueueTight
  /\ PlacedAcyclic /\ ValidIsSorted
  /\ InDegreeCountsPending /\ EdgesGoForward /\ LevelsTight /\ AcceptsExactlyDAGs

LEMMA PlacedInNodes ==
  ASSUME TypeOK
  PROVE  Placed \subseteq NodeIds /\ IsFiniteSet(Placed)
<1>1. Placed \subseteq NodeIds
  BY DEF Placed, TypeOK
<1>2. QED
  BY <1>1, RequestIsFinite, FS_Subset

(* An edge into a node with a level comes from a node with a level.        *)
LEMMA PlacedIsClosed ==
  ASSUME TypeOK, EdgesGoForward, NEW i \in EdgeIndices, Target(i) \in Placed
  PROVE  Source(i) \in Placed
<1>1. DOMAIN levels = 1..Len(levels) /\ Len(levels) \in Nat
  BY DEF TypeOK
<1>2. PICK k \in DOMAIN levels : Target(i) \in levels[k]
  BY DEF Placed
<1>3. PICK j \in 1..(k - 1) : Source(i) \in levels[j]
  BY <1>2 DEF EdgesGoForward
<1>4. j \in DOMAIN levels
  BY <1>1
<1>5. QED
  BY <1>3, <1>4 DEF Placed

(* The request is never changed.                                           *)
LEMMA SameRequest ==
  ASSUME [Next]_vars
  PROVE  /\ workflow' = workflow
         /\ NodeIds' = NodeIds /\ EdgeIndices' = EdgeIndices
         /\ \A i : Source(i)' = Source(i) /\ Target(i)' = Target(i)
         /\ \A i : EdgeError(i)' = EdgeError(i)
         /\ \A S, n : EdgesFrom(S, n)' = EdgesFrom(S, n)
         /\ HasDuplicates' <=> HasDuplicates
         /\ IsDAG' <=> IsDAG
<1>1. workflow' = workflow
  BY DEF Next, RejectDuplicates, RejectEdge, StartSort, KahnLevel, FinishSort, Decide, vars
<1>2. QED
  BY <1>1 DEF NodeIds, EdgeIndices, Source, Target, EdgeError, EdgesFrom, HasDuplicates, IsDAG

(* What a turn of the loop does to the levels.                             *)
LEMMA KahnLevelEffect ==
  ASSUME SortInv, KahnLevel
  PROVE  /\ Len(levels) \in Nat /\ DOMAIN levels = 1..Len(levels)
         /\ levels' \in Seq(SUBSET NodeIds)
         /\ Len(levels') = Len(levels) + 1 /\ DOMAIN levels' = 1..(Len(levels) + 1)
         /\ levels'[Len(levels) + 1] = queue
         /\ \A k \in DOMAIN levels : levels'[k] = levels[k]
         /\ Placed' = Placed \cup queue
         /\ queue \in SUBSET (NodeIds \ Placed)
<1>1. /\ Len(levels) \in Nat /\ DOMAIN levels = 1..Len(levels)
      /\ levels' \in Seq(SUBSET NodeIds)
      /\ Len(levels') = Len(levels) + 1 /\ DOMAIN levels' = 1..(Len(levels) + 1)
      /\ levels'[Len(levels) + 1] = queue
      /\ \A k \in DOMAIN levels : levels'[k] = levels[k]
  BY DEF KahnLevel, SortInv, TypeOK
<1>2. Placed' = Placed \cup queue
  <2>1. \A n : n \in Placed' => n \in Placed \cup queue
    BY <1>1 DEF Placed
  <2>2. \A n : n \in Placed \cup queue => n \in Placed'
    <3>1. ASSUME NEW n \in Placed
          PROVE  n \in Placed'
      <4>1. PICK k \in DOMAIN levels : n \in levels[k]
        BY <3>1 DEF Placed
      <4>2. k \in DOMAIN levels' /\ n \in levels'[k]
        BY <1>1, <4>1
      <4>3. QED
        BY <4>2 DEF Placed
    <3>2. ASSUME NEW n \in queue
          PROVE  n \in Placed'
      <4>1. Len(levels) + 1 \in DOMAIN levels' /\ n \in levels'[Len(levels) + 1]
        BY <1>1, <3>2
      <4>2. QED
        BY <4>1 DEF Placed
    <3>3. QED
      BY <3>1, <3>2
  <2>3. QED
    BY <2>1, <2>2
<1>3. queue \in SUBSET (NodeIds \ Placed)
  BY DEF KahnLevel, SortInv, InDegreeCountsPending
<1>4. QED
  BY <1>1, <1>2, <1>3

(* Every edge into the queue comes from a node with a level.               *)
LEMMA QueueIsReady ==
  ASSUME SortInv, pc = "sorting", NEW i \in EdgeIndices, Target(i) \in queue
  PROVE  Source(i) \in Placed
<1>1. inDegree[Target(i)] = 0 /\ Target(i) \in NodeIds
  BY DEF SortInv, InDegreeCountsPending
<1>2. EdgesFrom(NodeIds \ Placed, Target(i)) = 0
  BY <1>1 DEF SortInv, InDegreeCountsPending
<1>3. Source(i) \notin NodeIds \ Placed
  BY <1>2, EdgesFromZero DEF SortInv
<1>4. Source(i) \in NodeIds
  BY DEF SortInv, CheckedBeforeSort, EdgeError
<1>5. QED
  BY <1>3, <1>4

LEMMA KahnLevelCounts ==
  ASSUME SortInv, KahnLevel
  PROVE  InDegreeCountsPending' /\ CountsPlaced' /\ QueueTight'
<1>1. /\ NodeIds' = NodeIds /\ EdgeIndices' = EdgeIndices
      /\ \A i : Source(i)' = Source(i) /\ Target(i)' = Target(i)
      /\ \A S, n : EdgesFrom(S, n)' = EdgesFrom(S, n)
  BY SameRequest DEF Next
<1>2. Placed' = Placed \cup queue /\ queue \in SUBSET (NodeIds \ Placed)
  BY KahnLevelEffect
<1>3. pc = "sorting" /\ TypeOK
  BY DEF KahnLevel, SortInv
<1>4. \A n \in NodeIds : inDegree'[n] = inDegree[n] - EdgesFrom(queue, n)
  BY DEF KahnLevel
<1>5. \A n \in NodeIds : inDegree[n] = EdgesFrom(NodeIds \ Placed, n)
  BY <1>3 DEF SortInv, InDegreeCountsPending
<1>6. \A n \in NodeIds : inDegree'[n] = EdgesFrom(NodeIds \ Placed', n)
  <2>1. NodeIds \ Placed' = (NodeIds \ Placed) \ queue
    BY <1>2
  <2>2. QED
    BY <1>2, <1>3, <1>4, <1>5, <2>1, EdgesFromMinus
<1>7. \A n \in NodeIds : inDegree[n] \in Nat /\ inDegree'[n] \in Nat /\ EdgesFrom(queue, n) \in Nat
  BY <1>3, <1>5, <1>6, EdgesFromZero
<1>8. \A n \in Placed : inDegree[n] = 0
  <2>1. SUFFICES ASSUME NEW n \in Placed
                 PROVE  EdgesFrom(NodeIds \ Placed, n) = 0
    BY <1>3, <1>5, PlacedInNodes
  <2>2. \A i \in EdgeIndices : Target(i) = n => Source(i) \notin NodeIds \ Placed
    BY PlacedIsClosed DEF SortInv
  <2>3. QED
    BY <1>3, <2>2, EdgesFromZero
<1>9. queue = {n \in NodeIds \ Placed : inDegree[n] = 0}
  BY <1>3 DEF SortInv, InDegreeCountsPending
<1>10. queue' = {n \in NodeIds : inDegree[n] > 0 /\ inDegree'[n] = 0}
  <2>1. queue' = {n \in NodeIds : inDegree[n] > 0 /\ inDegree[n] - EdgesFrom(queue, n) <= 0}
    BY DEF KahnLevel, IsFreed
  <2>2. \A n \in NodeIds : inDegree[n] - EdgesFrom(queue, n) <= 0 <=> inDegree'[n] = 0
    BY <1>4, <1>7
  <2>3. QED
    BY <2>1, <2>2
<1>11. queue' = {n \in NodeIds \ Placed' : inDegree'[n] = 0}
  <2>1. \A n \in NodeIds : inDegree[n] > 0 <=> n \notin Placed'
    BY <1>2, <1>7, <1>8, <1>9
  <2>2. QED
    BY <1>10, <2>1
<1>12. InDegreeCountsPending'
  <2>1. (\A n \in NodeIds : inDegree[n] = EdgesFrom(NodeIds \ Placed, n))'
    BY <1>1, <1>6
  <2>2. QED
    BY <1>1, <1>11, <2>1 DEF InDegreeCountsPending
<1>13. CountsPlaced'
  <2>1. IsFiniteSet(Placed) /\ IsFiniteSet(queue)
    BY <1>2, <1>3, PlacedInNodes, RequestIsFinite, FS_Subset
  <2>2. Placed \cap queue = {}
    BY <1>2
  <2>3. Cardinality(Placed \cup queue) = Cardinality(Placed) + Cardinality(queue)
    <3>1. Cardinality(Placed \cap queue) = 0
      BY <2>2, FS_EmptySet
    <3>2. Cardinality(Placed) \in Nat /\ Cardinality(queue) \in Nat
      BY <2>1, FS_CardinalityType
    <3>3. Cardinality(Placed \cup queue)
            = Cardinality(Placed) + Cardinality(queue) - Cardinality(Placed \cap queue)
      BY <2>1, FS_Union
    <3>4. QED
      BY <3>1, <3>2, <3>3
  <2>4. QED
    BY <1>2, <2>3 DEF KahnLevel, SortInv, CountsPlaced
<1>14. QueueTight'
  <2>1. SUFFICES ASSUME NEW n \in queue'
                 PROVE  \E i \in EdgeIndices : Target(i) = n /\ Source(i) \in levels'[Len(levels')]
    BY <1>1 DEF QueueTight
  <2>2. n \in NodeIds /\ inDegree[n] > 0 /\ inDegree'[n] = 0
    BY <1>10, <2>1
  <2>3. EdgesFrom(queue, n) # 0
    BY <1>4, <1>7, <2>2
  <2>4. \E i \in EdgeIndices : Target(i) = n /\ Source(i) \in queue
    BY <1>3, <2>3, EdgesFromZero
  <2>5. QED
    BY <2>4, KahnLevelEffect
<1>15. QED
  BY <1>12, <1>13, <1>14

LEMMA KahnLevelShape ==
  ASSUME SortInv, KahnLevel
  PROVE  LevelsDisjoint' /\ EdgesGoForward' /\ LevelsTight' /\ PlacedAcyclic'
<1>1. /\ EdgeIndices' = EdgeIndices
      /\ \A i : Source(i)' = Source(i) /\ Target(i)' = Target(i)
  BY SameRequest DEF Next
<1> DEFINE new == Len(levels) + 1
<1>2. /\ Len(levels) \in Nat /\ DOMAIN levels = 1..Len(levels) /\ DOMAIN levels' = 1..new
      /\ levels'[new] = queue
      /\ \A k \in DOMAIN levels : levels'[k] = levels[k]
      /\ Placed' = Placed \cup queue /\ queue \in SUBSET (NodeIds \ Placed)
      /\ pc = "sorting"
  BY KahnLevelEffect DEF KahnLevel
<1>3. \A k \in DOMAIN levels' : k = new \/ k \in DOMAIN levels
  BY <1>2
<1>4. \A k \in DOMAIN levels : levels[k] \subseteq Placed
  BY DEF Placed
<1>5. LevelsDisjoint'
  <2>1. queue # {}
    BY DEF KahnLevel
  <2>2. ASSUME NEW j \in DOMAIN levels', NEW k \in DOMAIN levels', j # k
        PROVE  levels'[j] \cap levels'[k] = {}
    <3>1. CASE j \in DOMAIN levels /\ k \in DOMAIN levels
      BY <1>2, <2>2, <3>1 DEF SortInv, LevelsDisjoint
    <3>2. CASE j = new /\ k \in DOMAIN levels
      BY <1>2, <1>4, <3>2
    <3>3. CASE k = new /\ j \in DOMAIN levels
      BY <1>2, <1>4, <3>3
    <3>4. QED
      BY <1>3, <2>2, <3>1, <3>2, <3>3
  <2>3. \A k \in DOMAIN levels' : levels'[k] # {}
    BY <1>2, <1>3, <2>1 DEF SortInv, LevelsDisjoint
  <2>4. QED
    BY <2>2, <2>3 DEF LevelsDisjoint
<1>6. EdgesGoForward'
  <2>1. SUFFICES ASSUME NEW i \in EdgeIndices, NEW k \in DOMAIN levels', Target(i) \in levels'[k]
                 PROVE  \E j \in 1..(k - 1) : Source(i) \in levels'[j]
    BY <1>1 DEF EdgesGoForward
  <2>2. CASE k \in DOMAIN levels
    <3>1. PICK j \in 1..(k - 1) : Source(i) \in levels[j]
      BY <1>2, <2>1, <2>2 DEF SortInv, EdgesGoForward
    <3>2. j \in DOMAIN levels
      BY <1>2, <2>2
    <3>3. QED
      BY <1>2, <3>1, <3>2
  <2>3. CASE k = new
    <3>1. Source(i) \in Placed
      BY <1>2, <2>1, <2>3, QueueIsReady
    <3>2. PICK j \in DOMAIN levels : Source(i) \in levels[j]
      BY <3>1 DEF Placed
    <3>3. j \in 1..(k - 1) /\ levels'[j] = levels[j]
      BY <1>2, <2>3
    <3>4. QED
      BY <3>2, <3>3
  <2>4. QED
    BY <1>3, <2>1, <2>2, <2>3
<1>7. LevelsTight'
  <2>1. SUFFICES ASSUME NEW k \in DOMAIN levels' \ {1}, NEW n \in levels'[k]
                 PROVE  \E i \in EdgeIndices : Target(i) = n /\ Source(i) \in levels'[k - 1]
    BY <1>1 DEF LevelsTight
  <2>2. k - 1 \in DOMAIN levels
    BY <1>2, <2>1
  <2>3. CASE k \in DOMAIN levels
    BY <1>2, <2>1, <2>2, <2>3 DEF SortInv, LevelsTight
  <2>4. CASE k = new
    <3>1. levels # <<>> /\ n \in queue /\ k - 1 = Len(levels)
      BY <1>2, <2>1, <2>2, <2>4
    <3>2. \E i \in EdgeIndices : Target(i) = n /\ Source(i) \in levels[Len(levels)]
      BY <1>2, <3>1 DEF SortInv, QueueTight
    <3>3. QED
      BY <1>2, <2>2, <3>1, <3>2
  <2>5. QED
    BY <1>3, <2>3, <2>4
<1>8. PlacedAcyclic'
  <2>1. SUFFICES ASSUME NEW S \in (SUBSET (Placed \cup queue)) \ {{}}
                 PROVE  \E n \in S : \A i \in EdgeIndices : Target(i) = n => Source(i) \notin S
    BY <1>1, <1>2 DEF PlacedAcyclic
  <2>2. \A i \in EdgeIndices : Target(i) \in Placed \cup queue => Source(i) \in Placed
    BY <1>2, QueueIsReady, PlacedIsClosed DEF SortInv
  <2>3. CASE S \cap Placed = {}
    BY <2>1, <2>2, <2>3
  <2>4. CASE S \cap Placed # {}
    <3>1. PICK n \in S \cap Placed :
               \A i \in EdgeIndices : Target(i) = n => Source(i) \notin S \cap Placed
      BY <2>4 DEF SortInv, PlacedAcyclic
    <3>2. QED
      BY <2>2, <3>1
  <2>5. QED
    BY <2>3, <2>4
<1>9. QED
  BY <1>5, <1>6, <1>7, <1>8

(* The three verdicts.                                                     *)
LEMMA RejectedIsNoDAG ==
  ASSUME SortInv, RejectDuplicates \/ RejectEdge
  PROVE  ~IsDAG
<1>1. CASE RejectDuplicates
  BY <1>1, NoDuplicatesIsInjective DEF RejectDuplicates, IsDAG, SortInv
<1>2. CASE RejectEdge
  <2>1. PICK i \in EdgeIndices : EdgeError(i) # "none"
    BY <1>2 DEF RejectEdge
  <2>2. CASE {Source(i), Target(i)} \subseteq NodeIds
    <3>1. Source(i) = Target(i)
      BY <2>1, <2>2 DEF EdgeError
    <3>2. {Source(i)} \in (SUBSET NodeIds) \ {{}}
      BY <2>2
    <3>3. QED
      BY <3>1, <3>2 DEF IsDAG
  <2>3. QED
    BY <2>2 DEF IsDAG
<1>3. QED
  BY <1>1, <1>2

LEMMA SortDecides ==
  ASSUME SortInv, FinishSort
  PROVE  /\ verdict' \in {"cycle", "valid"}
         /\ verdict' = "valid" <=> Placed = NodeIds
         /\ verdict' = "valid" <=> IsDAG
<1>1. TypeOK /\ pc = "sorting" /\ queue = {}
  BY DEF SortInv, FinishSort
<1>2. verdict' = IF Cardinality(Placed) # Cardinality(NodeIds) THEN "cycle" ELSE "valid"
  BY DEF FinishSort, Decide, SortInv, CountsPlaced
<1>3. Cardinality(Placed) = Cardinality(NodeIds) <=> Placed = NodeIds
  BY <1>1, PlacedInNodes, RequestIsFinite, FS_Subset
<1>4. ~HasDuplicates /\ \A i \in EdgeIndices : {Source(i), Target(i)} \subseteq NodeIds
  BY <1>1 DEF SortInv, CheckedBeforeSort, EdgeError
<1>5. ASSUME Placed = NodeIds
      PROVE  IsDAG
  BY <1>1, <1>4, <1>5, NoDuplicatesIsInjective DEF IsDAG, SortInv, PlacedAcyclic
<1>6. ASSUME Placed # NodeIds
      PROVE  ~IsDAG
  <2> DEFINE S == NodeIds \ Placed
  <2>1. S \in (SUBSET NodeIds) \ {{}}
    BY <1>1, <1>6, PlacedInNodes
  <2>2. ASSUME NEW n \in S
        PROVE  \E i \in EdgeIndices : Target(i) = n /\ Source(i) \in S
    <3>1. EdgesFrom(S, n) # 0
      BY <1>1 DEF SortInv, InDegreeCountsPending
    <3>2. QED
      BY <1>1, <3>1, EdgesFromZero
  <2> HIDE DEF S
  <2>3. QED
    BY <2>1, <2>2 DEF IsDAG
<1>7. QED
  BY <1>2, <1>3, <1>5, <1>6
-----------------------------------------------------------------------------
LEMMA InitSortInv == Init => SortInv
<1> SUFFICES ASSUME Init
             PROVE  SortInv
  OBVIOUS
<1>1. levels = <<>> /\ DOMAIN levels = {} /\ Placed = {}
  BY DEF Init, Placed
<1>2. TypeOK
  BY <1>1 DEF Init, TypeOK
<1>3. CountsPlaced
  BY <1>1, FS_EmptySet DEF Init, CountsPlaced
<1>4. QED
  BY <1>1, <1>2, <1>3
    DEF Init, SortInv, CheckedBeforeSort, LevelsDisjoint, QueueTight, PlacedAcyclic, ValidIsSorted,
        InDegreeCountsPending, EdgesGoForward, LevelsTight, AcceptsExactlyDAGs

(* A verdict changes nothing else.                                         *)
LEMMA DecideKeepsInv ==
  ASSUME SortInv, [Next]_vars, NEW v \in Rejection \cup {"valid"}, Decide(v),
         v = "valid" => Placed = NodeIds, v = "valid" <=> IsDAG
  PROVE  SortInv'
<1>1. /\ pc' = "done" /\ verdict' = v
      /\ workflow' = workflow /\ levels' = levels /\ queue' = queue
      /\ sortedCount' = sortedCount /\ inDegree' = inDegree
  BY DEF Decide
<1>2. /\ NodeIds' = NodeIds /\ EdgeIndices' = EdgeIndices /\ Placed' = Placed
      /\ \A i : Source(i)' = Source(i) /\ Target(i)' = Target(i)
      /\ IsDAG' <=> IsDAG
  BY <1>1, SameRequest DEF Placed
<1>3. TypeOK'
  BY <1>1, <1>2 DEF SortInv, TypeOK
<1>4. CheckedBeforeSort' /\ QueueTight' /\ InDegreeCountsPending'
  BY <1>1 DEF CheckedBeforeSort, QueueTight, InDegreeCountsPending
<1>5. CountsPlaced' /\ LevelsDisjoint' /\ PlacedAcyclic' /\ EdgesGoForward' /\ LevelsTight'
  BY <1>1, <1>2
    DEF SortInv, CountsPlaced, LevelsDisjoint, PlacedAcyclic, EdgesGoForward, LevelsTight
<1>6. ValidIsSorted' /\ AcceptsExactlyDAGs'
  BY <1>1, <1>2 DEF ValidIsSorted, AcceptsExactlyDAGs
<1>7. QED
  BY <1>3, <1>4, <1>5, <1>6 DEF SortInv

LEMMA StartSortKeepsInv ==
  ASSUME SortInv, StartSort
  PROVE  SortInv'
<1>1. /\ workflow' = workflow /\ levels' = levels /\ verdict' = verdict
      /\ pc = "validating" /\ pc' = "sorting" /\ levels = <<>> /\ DOMAIN levels = {}
      /\ sortedCount' = sortedCount
  BY DEF StartSort, SortInv, CheckedBeforeSort
<1>2. /\ NodeIds' = NodeIds /\ EdgeIndices' = EdgeIndices
      /\ \A i : Source(i)' = Source(i) /\ Target(i)' = Target(i)
      /\ \A i : EdgeError(i)' = EdgeError(i)
      /\ \A S, n : EdgesFrom(S, n)' = EdgesFrom(S, n)
      /\ HasDuplicates' <=> HasDuplicates
  BY SameRequest DEF Next
<1>3. Placed = {} /\ Placed' = {}
  BY <1>1 DEF Placed
<1>4. /\ inDegree' = [n \in NodeIds |-> EdgesFrom(NodeIds, n)]
      /\ queue' = {n \in NodeIds : EdgesFrom(NodeIds, n) = 0}
  BY DEF StartSort, InitialInDegree
<1>5. NodeIds \ Placed' = NodeIds
  BY <1>3
<1>6. InDegreeCountsPending'
  <2>1. (\A n \in NodeIds : inDegree[n] = EdgesFrom(NodeIds \ Placed, n))'
    BY <1>2, <1>4, <1>5
  <2>2. (queue = {n \in NodeIds \ Placed : inDegree[n] = 0})'
    BY <1>2, <1>4, <1>5
  <2>3. QED
    BY <2>1, <2>2 DEF InDegreeCountsPending
<1>7. TypeOK'
  <2>1. inDegree' \in [NodeIds -> Int]
    BY <1>4, EdgesFromZero DEF SortInv
  <2>2. QED
    BY <1>1, <1>2, <1>4, <2>1 DEF SortInv, TypeOK
<1>8. CheckedBeforeSort'
  BY <1>1, <1>2 DEF StartSort, SortInv, CheckedBeforeSort
<1>9. LevelsDisjoint' /\ QueueTight' /\ EdgesGoForward' /\ LevelsTight' /\ PlacedAcyclic'
  BY <1>1, <1>3 DEF LevelsDisjoint, QueueTight, EdgesGoForward, LevelsTight, PlacedAcyclic
<1>10. CountsPlaced' /\ ValidIsSorted' /\ AcceptsExactlyDAGs'
  BY <1>1, <1>3
    DEF SortInv, CheckedBeforeSort, CountsPlaced, ValidIsSorted, AcceptsExactlyDAGs
<1>11. QED
  BY <1>6, <1>7, <1>8, <1>9, <1>10 DEF SortInv

LEMMA KahnLevelKeepsInv ==
  ASSUME SortInv, KahnLevel
  PROVE  SortInv'
<1>1. /\ workflow' = workflow /\ verdict' = verdict /\ pc = "sorting" /\ pc' = pc
      /\ verdict = "none"
  BY DEF KahnLevel, SortInv, CheckedBeforeSort
<1>2. /\ NodeIds' = NodeIds /\ EdgeIndices' = EdgeIndices
      /\ \A i : EdgeError(i)' = EdgeError(i)
      /\ HasDuplicates' <=> HasDuplicates
  BY SameRequest DEF Next
<1>3. TypeOK'
  <2>1. inDegree' \in [NodeIds -> Int]
    <3>1. \A n \in NodeIds : inDegree[n] \in Int /\ EdgesFrom(queue, n) \in Int
      BY <1>1, EdgesFromZero DEF SortInv, TypeOK
    <3>2. QED
      BY <3>1 DEF KahnLevel
  <2>2. sortedCount' \in Nat
    <3>1. IsFiniteSet(queue)
      BY RequestIsFinite, FS_Subset DEF SortInv, TypeOK
    <3>2. QED
      BY <3>1, FS_CardinalityType DEF KahnLevel, SortInv, TypeOK
  <2>3. queue' \subseteq NodeIds /\ levels' \in Seq(SUBSET NodeIds)
    BY KahnLevelEffect DEF KahnLevel
  <2>4. QED
    BY <1>1, <1>2, <2>1, <2>2, <2>3 DEF SortInv, TypeOK
<1>4. CheckedBeforeSort'
  BY <1>1, <1>2 DEF SortInv, CheckedBeforeSort
<1>5. ValidIsSorted' /\ AcceptsExactlyDAGs'
  BY <1>1 DEF ValidIsSorted, AcceptsExactlyDAGs
<1>6. QED
  BY <1>3, <1>4, <1>5, KahnLevelCounts, KahnLevelShape DEF SortInv

LEMMA SortInvHolds == Spec => []SortInv
<1>1. SortInv /\ [Next]_vars => SortInv'
  <2> SUFFICES ASSUME SortInv, [Next]_vars
               PROVE  SortInv'
    OBVIOUS
  <2>1. CASE RejectDuplicates \/ RejectEdge
    <3>1. PICK v \in Rejection : Decide(v)
      BY <2>1 DEF RejectDuplicates, RejectEdge, EdgeError, Rejection
    <3>2. v # "valid"
      BY DEF Rejection
    <3>3. QED
      BY <2>1, <3>1, <3>2, RejectedIsNoDAG, DecideKeepsInv
  <2>2. CASE StartSort
    BY <2>2, StartSortKeepsInv
  <2>3. CASE KahnLevel
    BY <2>3, KahnLevelKeepsInv
  <2>4. CASE FinishSort
    <3>1. Decide(verdict')
      BY <2>4 DEF FinishSort, Decide
    <3>2. verdict' \in Rejection \cup {"valid"}
      BY <2>4, SortDecides DEF Rejection
    <3>3. QED
      BY <2>4, <3>1, <3>2, SortDecides, DecideKeepsInv
  <2>5. CASE UNCHANGED vars
    <3>1. Placed' = Placed
      BY <2>5 DEF vars, Placed
    <3>2. /\ NodeIds' = NodeIds /\ EdgeIndices' = EdgeIndices
          /\ \A i : Source(i)' = Source(i) /\ Target(i)' = Target(i)
          /\ \A i : EdgeError(i)' = EdgeError(i)
          /\ \A S, n : EdgesFrom(S, n)' = EdgesFrom(S, n)
          /\ HasDuplicates' <=> HasDuplicates
          /\ IsDAG' <=> IsDAG
      BY SameRequest
    <3>3. TypeOK' /\ CheckedBeforeSort' /\ CountsPlaced' /\ LevelsDisjoint' /\ QueueTight'
      BY <2>5, <3>1, <3>2
        DEF vars, SortInv, TypeOK, CheckedBeforeSort, CountsPlaced, LevelsDisjoint, QueueTight
    <3>4. PlacedAcyclic' /\ ValidIsSorted' /\ AcceptsExactlyDAGs'
      BY <2>5, <3>1, <3>2 DEF vars, SortInv, PlacedAcyclic, ValidIsSorted, AcceptsExactlyDAGs
    <3>5. InDegreeCountsPending' /\ EdgesGoForward' /\ LevelsTight'
      BY <2>5, <3>1, <3>2 DEF vars, SortInv, InDegreeCountsPending, EdgesGoForward, LevelsTight
    <3>6. QED
      BY <3>3, <3>4, <3>5 DEF SortInv
  <2>6. QED
    BY <2>1, <2>2, <2>3, <2>4, <2>5 DEF Next
<1>2. QED
  BY <1>1, InitSortInv, PTL DEF Spec
-----------------------------------------------------------------------------
(* The types of the sort, for every list of requests.                      *)
THEOREM SortTypesHold == Spec => []TypeOK
BY SortInvHolds, PTL DEF SortInv

(* in_degree counts the edges from nodes without a level, and the queue    *)
(* holds the nodes it is 0 for.                                            *)
THEOREM InDegreesArePending == Spec => []InDegreeCountsPending
BY SortInvHolds, PTL DEF SortInv

(* The levels of an accepted workflow have every node once.                *)
THEOREM LevelsArePartition == Spec => []LevelsPartition
<1>1. SortInv => LevelsPartition
  BY DEF SortInv, LevelsPartition, ValidIsSorted, LevelsDisjoint
<1>2. QED
  BY <1>1, SortInvHolds, PTL

(* Every edge leads to a later level.                                      *)
THEOREM EdgesLeadForward == Spec => []EdgesGoForward
BY SortInvHolds, PTL DEF SortInv

(* No node could be in an earlier level.                                   *)
THEOREM LevelsAreTight == Spec => []LevelsTight
BY SortInvHolds, PTL DEF SortInv

(* validate() accepts a workflow exactly if it is a DAG.                   *)
THEOREM ValidateAcceptsExactlyDAGs == Spec => []AcceptsExactlyDAGs
BY SortInvHolds, PTL DEF SortInv
-----------------------------------------------------------------------------
(* What a run is given: the levels as a function of the node, and the      *)
(* sources of the edges into each node.                                    *)
LevelOf == [n \in NodeIds |-> CHOOSE k \in DOMAIN levels : n \in levels[k]]
PredsOf == [n \in NodeIds |-> {Source(i) : i \in {j \in EdgeIndices : Target(j) = n}}]

(* WorkflowAssumption of RunModel, of the nodes, levels and predecessors   *)
(* of the workflow that was validated.                                     *)
MeetsWorkflowAssumption ==
  /\ IsFiniteSet(NodeIds)
  /\ Len(levels) \in Nat \ {0}
  /\ LevelOf \in [NodeIds -> 1..Len(levels)]
  /\ \A k \in 1..Len(levels) : \E n \in NodeIds : LevelOf[n] = k
  /\ PredsOf \in [NodeIds -> SUBSET NodeIds]
  /\ \A n \in NodeIds : \A p \in PredsOf[n] : LevelOf[p] < LevelOf[n]

(* What compute_levels() hands on for a valid workflow is what the run     *)
(* model assumes of it, so that the results about runs rest on this sort.  *)
THEOREM LevelsMeetWorkflowAssumption == Spec => [](verdict = "valid" => MeetsWorkflowAssumption)
<1>1. SortInv => (verdict = "valid" => MeetsWorkflowAssumption)
  <2> SUFFICES ASSUME SortInv, verdict = "valid"
               PROVE  MeetsWorkflowAssumption
    OBVIOUS
  <2>1. /\ Placed = NodeIds /\ IsDAG /\ IsFiniteSet(NodeIds) /\ NodeIds # {}
        /\ DOMAIN levels = 1..Len(levels) /\ Len(levels) \in Nat
    BY RequestIsFinite
      DEF SortInv, TypeOK, ValidIsSorted, CheckedBeforeSort, AcceptsExactlyDAGs
  <2>2. \A n \in NodeIds : \E k \in DOMAIN levels : n \in levels[k]
    BY <2>1 DEF Placed
  <2>3. \A n \in NodeIds : LevelOf[n] \in DOMAIN levels /\ n \in levels[LevelOf[n]]
    BY <2>2 DEF LevelOf
  <2>4. \A k \in DOMAIN levels : \A n \in levels[k] : n \in NodeIds /\ LevelOf[n] = k
    BY <2>1, <2>3 DEF Placed, SortInv, LevelsDisjoint
  <2>5. Len(levels) # 0
    BY <2>1, <2>2
  <2>6. \A k \in 1..Len(levels) : \E n \in NodeIds : LevelOf[n] = k
    BY <2>1, <2>4 DEF SortInv, LevelsDisjoint
  <2>7. LevelOf \in [NodeIds -> 1..Len(levels)]
    BY <2>1, <2>3 DEF LevelOf
  <2>8. PredsOf \in [NodeIds -> SUBSET NodeIds]
    BY <2>1 DEF PredsOf, IsDAG
  <2>9. ASSUME NEW n \in NodeIds, NEW p \in PredsOf[n]
        PROVE  LevelOf[p] < LevelOf[n]
    <3>1. PICK i \in EdgeIndices : Target(i) = n /\ Source(i) = p
      BY <2>9 DEF PredsOf
    <3>2. PICK j \in 1..(LevelOf[n] - 1) : p \in levels[j]
      BY <2>3, <3>1 DEF SortInv, EdgesGoForward
    <3>3. LevelOf[n] \in 1..Len(levels)
      BY <2>1, <2>3
    <3>4. j \in DOMAIN levels /\ j < LevelOf[n]
      BY <2>1, <3>3
    <3>5. LevelOf[p] = j
      BY <2>4, <3>2, <3>4
    <3>6. QED
      BY <3>4, <3>5
  <2>10. QED
    BY <2>1, <2>5, <2>6, <2>7, <2>8, <2>9 DEF MeetsWorkflowAssumption
<1>2. QED
  BY <1>1, SortInvHolds, PTL
=============================================================================
