-------------------------- MODULE WorkflowCatalog ---------------------------
(***************************************************************************)
(* What storage/base.py promises of stored workflows: each id has one      *)
(* definition at a time, which is there from its creation to its removal   *)
(* and is never replaced in between; and only definitions the DAG engine   *)
(* accepted are stored.                                                    *)
(***************************************************************************)
CONSTANTS
  Ids,          \* the workflow ids in use
  Definitions,  \* the bodies of the requests that create a workflow
  Valid,        \* those that DAGEngine.validate() accepts
  Absent        \* no workflow is stored under the id

VARIABLE table

Init == table = [w \in Ids |-> Absent]

Create(w, d) ==
  /\ table[w] = Absent
  /\ table' = [table EXCEPT ![w] = d]

Remove(w) ==
  /\ table[w] # Absent
  /\ table' = [table EXCEPT ![w] = Absent]

Next == \E w \in Ids : Remove(w) \/ \E d \in Valid : Create(w, d)

Spec == Init /\ [][Next]_table
=============================================================================
