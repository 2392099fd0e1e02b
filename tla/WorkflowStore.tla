--------------------------- MODULE WorkflowStore ----------------------------
(***************************************************************************)
(* api/workflows.py over storage/dynamodb.py, with the lookup at the start *)
(* of start_execution() (api/executions.py).  Requests of all instances of *)
(* the service work on one table; creating and deleting a workflow are two *)
(* calls of it each, a read and a write, with other requests in between.   *)
(* The in-memory store has no await between the two, and so only the       *)
(* behaviours in which nothing comes between.                              *)
(*                                                                         *)
(* The table as src/ uses it: a condition is evaluated on the current      *)
(* item, a read may be answered by a replica that lags, and a put whose    *)
(* answer is lost is sent again by the client library.                     *)
(*                                                                         *)
(* SaveUnconditionally, CheckNothing, CheckUnvalidated and                 *)
(* StartExecutionOfNone are wrong variants of what follows them.           *)
(***************************************************************************)
CONSTANTS
  Ids,          \* the workflow ids in use
  Definitions,  \* the bodies of the requests that create a workflow
  Valid,        \* those that DAGEngine.validate() accepts
  Absent,       \* no workflow is stored under the id
  Clients       \* the requests that may be in progress at one time

ASSUME StoreAssumption ==
  /\ Valid \subseteq Definitions
  /\ Absent \notin Definitions \cup Ids

VARIABLES
  table,      \* the current items
  replica,    \* what an eventually consistent read may still answer
  op,         \* a request between its read and its write, or Idle
  ever,       \* history: the definitions ever stored under an id
  launched    \* history: the runs started, as the id and the definition

vars == <<table, replica, op, ever, launched>>

(* found: what the read answered; write: what is to be stored, Absent for  *)
(* delete_item.  overtaken (history): the read was of a lagging replica,   *)
(* or a workflow has been stored under the id since.                       *)
Idle == [id |-> Absent, found |-> Absent, write |-> Absent, overtaken |-> FALSE]

Pending ==
  [id : Ids, found : Definitions \cup {Absent}, write : Definitions \cup {Absent},
   overtaken : BOOLEAN]

TypeOK ==
  /\ table \in [Ids -> Definitions \cup {Absent}]
  /\ replica \in [Ids -> Definitions \cup {Absent}]
  /\ op \in [Clients -> Pending \cup {Idle}]
  /\ ever \in [Ids -> SUBSET Definitions]
  /\ launched \subseteq Ids \X Definitions

Init ==
  /\ table = [w \in Ids |-> Absent]
  /\ replica = table
  /\ op = [c \in Clients |-> Idle]
  /\ ever = [w \in Ids |-> {}]
  /\ launched = {}
-----------------------------------------------------------------------------
(* What get() may return: the definition, or Absent for None.              *)
Gets(w) == {table[w], replica[w]}

Goes(c, w, seen, d) ==
  /\ op[c] = Idle
  /\ op' = [op EXCEPT ![c] =
       [id |-> w, found |-> seen, write |-> d, overtaken |-> seen # table[w]]]
  /\ UNCHANGED <<table, replica, ever, launched>>

(* create_workflow() up to save().  A workflow that is found is a 409, a   *)
(* definition that does not validate a 422; neither goes on.               *)
CheckNothing(c, w, d) ==
  /\ d \in Valid
  /\ \E seen \in Gets(w) : Goes(c, w, seen, d)

CheckUnvalidated(c, w, d) ==
  /\ Absent \in Gets(w)
  /\ Goes(c, w, Absent, d)

CheckExisting(c, w, d) ==
  /\ Absent \in Gets(w)
  /\ d \in Valid
  /\ Goes(c, w, Absent, d)

Saving(c) == op[c].write # Absent
Deleting(c) == op[c].id # Absent /\ op[c].write = Absent

(* The operations in progress after client c stored a workflow: c is done, *)
(* or its answer was lost and the put will be sent again.                  *)
AfterSave(c, answered) ==
  [x \in Clients |->
     CASE x = c /\ answered           -> Idle
       [] op[x].id = op[c].id         -> [op[x] EXCEPT !.overtaken = TRUE]
       [] OTHER                       -> op[x]]

SaveUnconditionally(c) ==
  /\ Saving(c)
  /\ table' = [table EXCEPT ![op[c].id] = op[c].write]
  /\ ever' = [ever EXCEPT ![op[c].id] = @ \cup {op[c].write}]
  /\ \E answered \in BOOLEAN : op' = AfterSave(c, answered)
  /\ UNCHANGED <<replica, launched>>

Save(c) ==
  /\ Saving(c)
  /\ table[op[c].id] = Absent
  /\ table' = [table EXCEPT ![op[c].id] = op[c].write]
  /\ ever' = [ever EXCEPT ![op[c].id] = @ \cup {op[c].write}]
  /\ \E answered \in BOOLEAN : op' = AfterSave(c, answered)
  /\ UNCHANGED <<replica, launched>>

GivesUp(c) ==
  /\ op' = [op EXCEPT ![c] = Idle]
  /\ UNCHANGED <<table, replica, ever, launched>>

(* The condition fails: a ValueError that create_workflow() does not catch.*)
SaveConflicts(c) ==
  /\ Saving(c)
  /\ table[op[c].id] # Absent
  /\ GivesUp(c)

(* delete() in its two calls; a workflow that is not found is a 404.       *)
StartDelete(c, w) == \E seen \in Gets(w) \ {Absent} : Goes(c, w, seen, Absent)

FinishDelete(c) ==
  /\ Deleting(c)
  /\ table' = [table EXCEPT ![op[c].id] = Absent]
  /\ op' = [op EXCEPT ![c] = Idle]
  /\ UNCHANGED <<replica, ever, launched>>

(* Another ClientError, or the instance stops.                             *)
Fail(c) == op[c] # Idle /\ GivesUp(c)

(* start_execution(): the run works on the definition that get() returned, *)
(* whatever happens to the workflow from then on.                          *)
StartExecutionOfNone(w) ==
  /\ \E seen \in Gets(w) : launched' = launched \cup {<<w, seen>>}
  /\ UNCHANGED <<table, replica, op, ever>>

StartExecution(w) ==
  /\ \E seen \in Gets(w) \ {Absent} : launched' = launched \cup {<<w, seen>>}
  /\ UNCHANGED <<table, replica, op, ever>>

Replicate(w) ==
  /\ replica' = [replica EXCEPT ![w] = table[w]]
  /\ UNCHANGED <<table, op, ever, launched>>

Next ==
  \/ \E w \in Ids : StartExecution(w) \/ Replicate(w)
  \/ \E c \in Clients, w \in Ids :
       StartDelete(c, w) \/ \E d \in Definitions : CheckExisting(c, w, d)
  \/ \E c \in Clients : Save(c) \/ SaveConflicts(c) \/ FinishDelete(c) \/ Fail(c)

Spec == Init /\ [][Next]_vars
-----------------------------------------------------------------------------
Catalog == INSTANCE WorkflowCatalog

(* The two-call operations leave a table that only changes as the atomic   *)
(* ones would change it: no creation replaces a definition, whatever comes *)
(* between its check and its put.                                          *)
ImplementsCatalog == Catalog!Spec

(* A write does something else than what its request was told to expect    *)
(* only in a race: unless a workflow was stored under the id since the     *)
(* read, or the read was stale, save() finds no workflow there (so that    *)
(* the ValueError nobody catches is not the answer to a plain duplicate),  *)
(* and delete() removes what it found, or what is gone already.            *)
OnlyRacesSurprise ==
  \A c \in Clients : op[c] # Idle /\ ~op[c].overtaken =>
    table[op[c].id] = Absent \/ (Deleting(c) /\ table[op[c].id] = op[c].found)

(* Every run executes a definition that was validated and was stored under *)
(* the id it was asked for, though it may be deleted or replaced by now.   *)
LaunchedWereStored ==
  \A l \in launched : l[2] \in Valid /\ l[2] \in ever[l[1]]
=============================================================================
