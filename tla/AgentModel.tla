----------------------------- MODULE AgentModel -----------------------------
(***************************************************************************)
(* The data of an agent (models/agent.py) and the requests that change it  *)
(* (api/schemas.py).  Of the fields that a PATCH may set, endpoint stands  *)
(* for those that are validated; status is a plain string in the request,  *)
(* and nothing checks that it is one of AgentStatus.                       *)
(***************************************************************************)
CONSTANTS
  AgentIds,   \* the agent ids in use
  Endpoints,  \* the endpoints agents are registered with
  Absent,     \* no agent is stored under the id
  Unset       \* a field that the PATCH leaves out, or sets to null

ASSUME AgentAssumption ==
  /\ Unset \notin Endpoints
  /\ Unset \notin {"active", "inactive", "unhealthy", "unknown"}

AgentStatus == {"active", "inactive", "unhealthy"}

(* "unknown" is any string that is not the value of an AgentStatus.        *)
StatusText == AgentStatus \cup {"unknown"}

(* heard: last_heartbeat is not None.                                      *)
Agent == [status : StatusText, endpoint : Endpoints, heard : BOOLEAN]

ASSUME AbsentAssumption == Absent \notin Agent \cup AgentIds

Patch == [status : StatusText \cup {Unset}, endpoint : Endpoints \cup {Unset}]

(* What the registry holds: under each id an agent, or none.               *)
AgentTable == [AgentIds -> Agent \cup {Absent}]

NoAgents == [a \in AgentIds |-> Absent]
-----------------------------------------------------------------------------
(* The agent register_agent() makes of a request.                          *)
Fresh(e) == [status |-> "active", endpoint |-> e, heard |-> FALSE]

OrElse(new, old) == IF new = Unset THEN old ELSE new

(* model_copy(update=...) validates nothing.  PatchedWithNone forgets that *)
(* a field left out is None in the request.                                *)
PatchedWithNone(agent, p) ==
  [agent EXCEPT !.status = p.status, !.endpoint = p.endpoint]

Patched(agent, p) ==
  [agent EXCEPT !.status = OrElse(p.status, @), !.endpoint = OrElse(p.endpoint, @)]

HeardFrom(agent) ==
  [agent EXCEPT !.heard = TRUE, !.status = IF @ = "unhealthy" THEN "active" ELSE @]

IsHealthy(agent) == agent.status = "active"
=============================================================================
