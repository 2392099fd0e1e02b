----------------------------- MODULE MCManager ------------------------------
(* Small workflows for ExecutionManager: the constants of its TLC runs.    *)
EXTENDS ExecutionManager, TLC

CONSTANTS a, b, c, r1, r2

(* A join: a and b side by side, then c, which reads a.                    *)
JoinLevel == (a :> 1) @@ (b :> 1) @@ (c :> 2)
JoinPreds == (a :> {}) @@ (b :> {}) @@ (c :> {a, b})
JoinRefs == (a :> {}) @@ (b :> {}) @@ (c :> {a})

(* Two nodes side by side, independent of each other, or with b reading a  *)
(* beside it: a mapping that no edge backs.                                *)
PairLevel == (a :> 1) @@ (b :> 1)
PairPreds == (a :> {}) @@ (b :> {})
NoRefs == (a :> {}) @@ (b :> {})
StrayRefs == (a :> {}) @@ (b :> {a})

(* A chain of two.                                                         *)
ChainLevel == (a :> 1) @@ (b :> 2)
ChainPreds == (a :> {}) @@ (b :> {a})
ChainRefs == (a :> {}) @@ (b :> {a})
=============================================================================
