----------------------------- MODULE MCRegistry -----------------------------
(* The PATCH bodies of the run of DynamoRegistry: one for each field, one  *)
(* that is valid and one that is not for the status, and one with both.    *)
EXTENDS DynamoRegistry

CONSTANTS e1, e2

SomePatches ==
  {[status |-> Unset, endpoint |-> e2], [status |-> "unhealthy", endpoint |-> Unset],
   [status |-> "unknown", endpoint |-> Unset], [status |-> "inactive", endpoint |-> e1]}
=============================================================================
