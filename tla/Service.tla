------------------------------ MODULE Service -------------------------------
(***************************************************************************)
(* The execution manager together with the in-memory agent registry it     *)
(* looks agents up in, and the agents API (api/agents.py) that changes the *)
(* registry while runs are in progress: what ExecutionManager leaves open  *)
(* at a lookup is decided here by the state of the agent.                  *)
(*                                                                         *)
(* PATCH stores the status as the string it got (model_copy() validates    *)
(* nothing), and not as an AgentStatus: `bare` are the agents it did so    *)
(* for.  Such a string compares equal to the AgentStatus of that value,    *)
(* but has no .value, which _execute_node() uses to word its error.        *)
(*                                                                         *)
(* IsAvailableIfPresent is a wrong variant of IsAvailable.                 *)
(***************************************************************************)
EXTENDS ExecutionManager, AgentModel

CONSTANTS
  AgentOf,    \* AgentOf[n]: the agent_id of node n
  Patches     \* the bodies of the PATCH requests

ASSUME ServiceAssumption ==
  /\ AgentOf \in [Nodes -> AgentIds]
  /\ Patches \subseteq Patch

VARIABLES
  agents,     \* InMemoryAgentRegistry._agents
  bare,       \* the agents whose status is a plain string
  fit         \* history: the agents that were available at some moment of a run

serviceVars == <<vars, agents, bare, fit>>

Registry == INSTANCE AgentRegistry

ServiceTypeOK ==
  /\ TypeOK
  /\ Registry!TypeOK
  /\ bare \subseteq {a \in AgentIds : agents[a] # Absent}
  /\ fit \in [Runs -> SUBSET AgentIds]

IsAvailableIfPresent(a) == agents[a] # Absent
IsAvailable(a) == agents[a] # Absent /\ IsHealthy(agents[a])

ServiceInit ==
  /\ Init
  /\ Registry!Init
  /\ bare = {}
  /\ fit = [r \in Runs |-> {}]
-----------------------------------------------------------------------------
(* History: while a run is in progress, whoever is available is noted.     *)
Available(table) == {a \in AgentIds : table[a] # Absent /\ IsHealthy(table[a])}

Observed ==
  fit' = [r \in Runs |-> IF pc'[r] = "new" THEN {} ELSE fit[r] \cup Available(agents')]

RegisterAgent(a) ==
  /\ \E e \in Endpoints : Registry!Register(a, e)
  /\ UNCHANGED <<vars, bare>> /\ Observed

PatchAgent(a) ==
  \E p \in Patches :
    /\ Registry!Update(a, p)
    /\ bare' = IF p.status = Unset THEN bare ELSE bare \cup {a}
    /\ UNCHANGED vars /\ Observed

DeleteAgent(a) ==
  /\ Registry!Delete(a)
  /\ bare' = bare \ {a}
  /\ UNCHANGED vars /\ Observed

(* Recovery from "unhealthy" sets an AgentStatus again.                    *)
AgentHeartbeat(a) ==
  /\ Registry!Heartbeat(a)
  /\ bare' = IF agents[a].status = "unhealthy" THEN bare \ {a} ELSE bare
  /\ UNCHANGED vars /\ Observed
-----------------------------------------------------------------------------
(* _execute_node() and NodeRunner.run().  The agent is read once: nothing  *)
(* that happens to it from then on reaches the attempts of this node.      *)
Lookup(r, n) ==
  LET agent == AgentOf[n]
  IN  \/ IsAvailable(agent) /\ (ResolveFails(r, n) \/ Invoke(r, n))
      \/ ~IsAvailable(agent) /\ agent \notin bare /\ AgentUnavailable(r, n)
      \/ ~IsAvailable(agent) /\ agent \in bare /\ LookupRaises(r, n)

Attempt(r, n) ==
  AttemptSucceeds(r, n) \/ AttemptRaises(r, n) \/ AttemptFails(r, n) \/ BackoffEnds(r, n)

(* A step of the manager, which leaves the registry alone.                 *)
Beside(step) == step /\ UNCHANGED <<agents, bare>> /\ Observed

Driven(r) == Beside(DriverStep(r)) \/ Beside(Timeout(r))

Served(r, n) ==
  Beside(AcquirePermit(r, n)) \/ Beside(Lookup(r, n)) \/ Beside(Attempt(r, n))

ServiceNext ==
  \/ \E a \in AgentIds :
       RegisterAgent(a) \/ PatchAgent(a) \/ DeleteAgent(a) \/ AgentHeartbeat(a)
  \/ \E r \in Runs : Beside(StartRun(r)) \/ Driven(r)
  \/ \E r \in Runs, n \in Nodes : Served(r, n) \/ Beside(Unwind(r, n))
  \/ \E c \in Clients :
       Beside(CompleteCancel(c)) \/ \E r \in Runs : Beside(RequestCancel(c, r))

(* As in AnsweredSpec: attempts end, because httpx is given a timeout.     *)
(* Nothing is assumed of those who use the agents API.                     *)
ServiceSpec ==
  /\ ServiceInit /\ [][ServiceNext]_serviceVars
  /\ \A r \in Runs : WF_serviceVars(Driven(r))
  /\ \A r \in Runs, n \in Nodes :
       WF_serviceVars(Served(r, n)) /\ WF_serviceVars(Beside(Unwind(r, n)))
-----------------------------------------------------------------------------
(* An agent that was unavailable for the whole of a run takes no part in   *)
(* it: not even a retry or a task left over from earlier carries over an   *)
(* agent from before.                                                      *)
UnavailableTakeNoPart ==
  \A r \in Runs, n \in Nodes :
    task[r][n] \in CompletedKind \cup {"invoking", "backoff"} => AgentOf[n] \in fit[r]

(* A run that never had one of its agents available claims nothing: it is  *)
(* FAILED or TIMED_OUT, or PENDING when cancelled before its first level,  *)
(* and its output has no entries.                                          *)
NothingWithoutAgents ==
  \A r \in Runs :
    pc[r] = "returned" /\ (\A n \in Nodes : AgentOf[n] \notin fit[r]) =>
      /\ status[r] \in {"FAILED", "TIMED_OUT"} \/ (cancelEvent[r] /\ status[r] = "PENDING")
      /\ output[r] \in {NoOutput, {{}}}

(* A node is calling the agent, or about to call it again.                 *)
InUse(a) ==
  \E r \in Runs, n \in Nodes : AgentOf[n] = a /\ task[r][n] \in {"invoking", "backoff"}

(* A deleted agent is left alone in the end, although the nodes that had   *)
(* looked it up go on with their retries, even when their run is over.     *)
DeletedAgentsAreReleased ==
  \A a \in AgentIds : agents[a] = Absent ~> (agents[a] # Absent \/ ~InUse(a))
-----------------------------------------------------------------------------
(* What the documentation says and the code does not do.                   *)

(* A node whose agent is missing or not healthy when it is looked up gets  *)
(* a failed result, and not an exception that ends the run.                *)
UnavailableNeverRaises ==
  [][\A r \in Runs, n \in Nodes :
       task[r][n] = "lookup" /\ ~IsAvailable(AgentOf[n]) => task'[r][n] # "raised"]_serviceVars
=============================================================================
