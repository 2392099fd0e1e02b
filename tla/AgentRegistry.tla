--------------------------- MODULE AgentRegistry ----------------------------
(***************************************************************************)
(* What registry/base.py promises, and registry/memory.py does: a table of *)
(* agents in which every operation takes effect at once.  The in-memory    *)
(* operations contain no await, so they are atomic on the event loop.  An  *)
(* operation that raises (ValueError, KeyError) changes nothing.           *)
(***************************************************************************)
EXTENDS AgentModel

VARIABLE agents

TypeOK == agents \in AgentTable

Init == agents = NoAgents

Register(a, e) ==
  /\ agents[a] = Absent
  /\ agents' = [agents EXCEPT ![a] = Fresh(e)]

Update(a, p) ==
  /\ agents[a] # Absent
  /\ agents' = [agents EXCEPT ![a] = Patched(@, p)]

Delete(a) ==
  /\ agents[a] # Absent
  /\ agents' = [agents EXCEPT ![a] = Absent]

Heartbeat(a) ==
  /\ agents[a] # Absent
  /\ agents' = [agents EXCEPT ![a] = HeardFrom(@)]

Next ==
  \E a \in AgentIds :
    \/ \E e \in Endpoints : Register(a, e)
    \/ \E p \in Patch : Update(a, p)
    \/ Delete(a)
    \/ Heartbeat(a)

Spec == Init /\ [][Next]_agents
=============================================================================
