---------------------------- MODULE MCDAGEngine -----------------------------
(* Bounded requests for DAGEngine.                                         *)
EXTENDS DAGEngine, SequencesExt

CONSTANTS a, b, c, d

(* Every request of up to 3 node ids and 2 edges over 3 ids: repeated ids, *)
(* unknown endpoints, self-loops, repeated edges, cycles of two.           *)
AllRequests ==
  [nodes : BoundedSeq({a, b, c}, 3) \ {<<>>},
   edges : BoundedSeq({a, b, c} \X {a, b, c}, 2)]

(* Every list of up to 4 edges between 4 nodes: diamonds, chains, forks,   *)
(* repeated edges, cycles of up to 4 with and without a way into them.     *)
AllGraphs ==
  [nodes : {<<a, b, c, d>>},
   edges : BoundedSeq({e \in {a, b, c, d} \X {a, b, c, d} : e[1] # e[2]}, 4)]

AllWorkflows == AllRequests \cup AllGraphs
=============================================================================
