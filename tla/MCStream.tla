------------------------------ MODULE MCStream ------------------------------
(* A small workflow for ExecutionStream: b after a.                        *)
EXTENDS ExecutionStream, TLC

CONSTANTS a, b

ChainLevel == (a :> 1) @@ (b :> 2)
ChainPreds == (a :> {}) @@ (b :> {a})
=============================================================================
