--------------------------- MODULE DynamoRegistry ---------------------------
(***************************************************************************)
(* registry/dynamodb.py behind api/agents.py: the agents in a DynamoDB     *)
(* table that all requests, of all instances of the service, work on at    *)
(* the same time.  update(), heartbeat() and delete() are two calls of the *)
(* table, a read and then a write of the whole item; any number of other   *)
(* requests may come between the two.  A request is one of Clients.        *)
(*                                                                         *)
(* The table as src/ uses it: put_item and delete_item take effect at      *)
(* once, a condition is evaluated on the current item, and a get_item      *)
(* without ConsistentRead answers from a replica that may lag.             *)
(*                                                                         *)
(* RegisterUnconditionally and DeleteUnread are wrong variants of the      *)
(* definitions that follow them.                                           *)
(***************************************************************************)
EXTENDS AgentModel

CONSTANTS
  Clients,    \* the requests that may be in progress at one time
  Patches     \* the bodies of the PATCH requests

ASSUME PatchesAssumption == Patches \subseteq Patch

VARIABLES
  table,      \* the current items
  replica,    \* what an eventually consistent read may still answer
  op          \* a request between its read and its write, or Idle

vars == <<table, replica, op>>

Idle == [agent |-> Absent, read |-> Absent, write |-> Absent]

(* The request has read the one item and goes on to write the other;       *)
(* writing Absent stands for delete_item.                                  *)
Pending == [agent : AgentIds, read : Agent, write : Agent \cup {Absent}]

TypeOK ==
  /\ table \in AgentTable
  /\ replica \in AgentTable
  /\ op \in [Clients -> Pending \cup {Idle}]

Init ==
  /\ table = NoAgents
  /\ replica = NoAgents
  /\ op = [c \in Clients |-> Idle]
-----------------------------------------------------------------------------
(* POST /v1/agents: one put_item, on the condition that there is no item.  *)
RegisterUnconditionally(a, e) ==
  /\ table' = [table EXCEPT ![a] = Fresh(e)]
  /\ UNCHANGED <<replica, op>>

Register(a, e) ==
  /\ table[a] = Absent
  /\ table' = [table EXCEPT ![a] = Fresh(e)]
  /\ UNCHANGED <<replica, op>>

(* Agent.model_validate() raises on an item with another status, and with  *)
(* it whatever called get(): the request is a 500, the item stays.         *)
Readable(item) == item # Absent /\ item.status \in AgentStatus

(* The agents that get() may return.                                       *)
Gets(a) == {item \in {table[a], replica[a]} : Readable(item)}

Goes(c, a, seen, item) ==
  /\ op[c] = Idle
  /\ op' = [op EXCEPT ![c] = [agent |-> a, read |-> seen, write |-> item]]
  /\ UNCHANGED <<table, replica>>

StartUpdate(c, a) == \E seen \in Gets(a), p \in Patches : Goes(c, a, seen, Patched(seen, p))

StartHeartbeat(c, a) == \E seen \in Gets(a) : Goes(c, a, seen, HeardFrom(seen))

DeleteUnread(c, a) ==
  \E seen \in {table[a], replica[a]} \ {Absent} : Goes(c, a, seen, Absent)

StartDelete(c, a) == \E seen \in Gets(a) : Goes(c, a, seen, Absent)

(* put_item without a condition, or delete_item.                           *)
Finish(c) ==
  /\ op[c] # Idle
  /\ table' = [table EXCEPT ![op[c].agent] = op[c].write]
  /\ op' = [op EXCEPT ![c] = Idle]
  /\ UNCHANGED replica

(* The second call raises a ClientError, or the instance stops.            *)
Fail(c) ==
  /\ op[c] # Idle
  /\ op' = [op EXCEPT ![c] = Idle]
  /\ UNCHANGED <<table, replica>>

Replicate(a) ==
  /\ replica' = [replica EXCEPT ![a] = table[a]]
  /\ UNCHANGED <<table, op>>

Next ==
  \/ \E a \in AgentIds : Replicate(a) \/ \E e \in Endpoints : Register(a, e)
  \/ \E c \in Clients, a \in AgentIds :
       StartUpdate(c, a) \/ StartHeartbeat(c, a) \/ StartDelete(c, a)
  \/ \E c \in Clients : Finish(c) \/ Fail(c)

Spec == Init /\ [][Next]_vars
-----------------------------------------------------------------------------
Contract == INSTANCE AgentRegistry WITH agents <- table

(* The item was written by somebody else since this request read it, or    *)
(* the read was of a replica that lagged.                                  *)
Stale(c) == op[c] # Idle /\ op[c].read # table[op[c].agent]

(* Whatever happens to the table is an operation of the contract on the    *)
(* current item, except when a request writes on a stale read: that is the *)
(* only way to lose an update or a heartbeat, to bring a deleted agent     *)
(* back, or to replace an agent registered anew.                           *)
ContractUnlessStale ==
  [][\/ Contract!Next \/ UNCHANGED table
     \/ \E c \in Clients :
          Stale(c) /\ table' = [table EXCEPT ![op[c].agent] = op[c].write]]_vars

(* No read of the agent succeeds, and no request is about to write it.     *)
Unreadable(a) ==
  /\ table[a] # Absent
  /\ Gets(a) = {}
  /\ \A c \in Clients : op[c].agent # a

(* An agent whose status was PATCHed to an unknown string can never again  *)
(* be changed, revived or removed: every operation on it reads it first,   *)
(* and its id cannot be registered anew.                                   *)
UnreadableIsForever ==
  [][\A a \in AgentIds : Unreadable(a) => Unreadable(a)' /\ table'[a] = table[a]]_vars
=============================================================================
