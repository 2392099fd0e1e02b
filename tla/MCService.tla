----------------------------- MODULE MCService ------------------------------
(* Two nodes side by side with an agent each.                              *)
EXTENDS Service, TLC

CONSTANTS a, b, g1, g2

PairLevel == (a :> 1) @@ (b :> 1)
PairPreds == (a :> {}) @@ (b :> {})
NoRefs == (a :> {}) @@ (b :> {})
OneEach == (a :> g1) @@ (b :> g2)

StatusPatches == {[status |-> s, endpoint |-> Unset] : s \in {"inactive", "unhealthy"}}
=============================================================================
