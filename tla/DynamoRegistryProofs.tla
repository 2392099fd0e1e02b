------------------------ MODULE DynamoRegistryProofs ------------------------
(***************************************************************************)
(* Theorems about DynamoRegistry, for any number of agents and requests    *)
(* and any PATCH bodies.                                                   *)
(***************************************************************************)
EXTENDS DynamoRegistry, TLAPS

LEMMA PatchedIsAgent ==
  ASSUME NEW agent \in Agent, NEW p \in Patch
  PROVE  Patched(agent, p) \in Agent
BY DEF Agent, Patch, Patched, OrElse

LEMMA HeardFromIsAgent ==
  ASSUME NEW agent \in Agent
  PROVE  HeardFrom(agent) \in Agent
BY DEF Agent, HeardFrom, StatusText, AgentStatus

LEMMA FreshIsAgent ==
  ASSUME NEW e \in Endpoints
  PROVE  Fresh(e) \in Agent
BY DEF Agent, Fresh, StatusText, AgentStatus

(* What get() returns is an agent, and one that is there to be read.       *)
LEMMA GetsAgents ==
  ASSUME TypeOK, NEW a \in AgentIds, NEW seen \in Gets(a)
  PROVE  seen \in Agent /\ seen # Absent
BY DEF TypeOK, AgentTable, Gets, Readable
-----------------------------------------------------------------------------
(* A request between its two calls is about to write what its operation    *)
(* makes of the agent it read.                                             *)
Derived(read, write) ==
  \/ write = Absent
  \/ \E p \in Patches : write = Patched(read, p)
  \/ write = HeardFrom(read)

WritesFromReads == \A c \in Clients : op[c] # Idle => Derived(op[c].read, op[c].write)

(* The three kinds of request differ only in what they make of the agent.  *)
LEMMA StartEffect ==
  ASSUME TypeOK, NEW c \in Clients, NEW a \in AgentIds,
         StartUpdate(c, a) \/ StartHeartbeat(c, a) \/ StartDelete(c, a)
  PROVE  \E seen \in Gets(a), item \in Agent \cup {Absent} :
           Goes(c, a, seen, item) /\ Derived(seen, item)
<1>1. CASE StartUpdate(c, a)
  <2>1. PICK seen \in Gets(a), p \in Patches : Goes(c, a, seen, Patched(seen, p))
    BY <1>1 DEF StartUpdate
  <2>2. Patched(seen, p) \in Agent
    BY GetsAgents, PatchedIsAgent, PatchesAssumption
  <2>3. QED
    BY <2>1, <2>2 DEF Derived
<1>2. CASE StartHeartbeat(c, a)
  <2>1. PICK seen \in Gets(a) : Goes(c, a, seen, HeardFrom(seen))
    BY <1>2 DEF StartHeartbeat
  <2>2. HeardFrom(seen) \in Agent
    BY GetsAgents, HeardFromIsAgent
  <2>3. QED
    BY <2>1, <2>2 DEF Derived
<1>3. CASE StartDelete(c, a)
  BY <1>3 DEF StartDelete, Derived
<1>4. QED
  BY <1>1, <1>2, <1>3

LEMMA TypeInvariant == TypeOK /\ [Next]_vars => TypeOK'
<1> SUFFICES ASSUME TypeOK, [Next]_vars
             PROVE  TypeOK'
  OBVIOUS
<1>1. CASE UNCHANGED vars
  BY <1>1 DEF TypeOK, vars
<1>2. ASSUME NEW a \in AgentIds, Replicate(a)
      PROVE  TypeOK'
  BY <1>2 DEF TypeOK, AgentTable, Replicate
<1>3. ASSUME NEW a \in AgentIds, NEW e \in Endpoints, Register(a, e)
      PROVE  TypeOK'
  BY <1>3, FreshIsAgent DEF TypeOK, AgentTable, Register
<1>4. ASSUME NEW c \in Clients, NEW a \in AgentIds,
             StartUpdate(c, a) \/ StartHeartbeat(c, a) \/ StartDelete(c, a)
      PROVE  TypeOK'
  <2>1. PICK seen \in Gets(a), item \in Agent \cup {Absent} : Goes(c, a, seen, item)
    BY <1>4, StartEffect
  <2>2. [agent |-> a, read |-> seen, write |-> item] \in Pending
    BY GetsAgents DEF Pending
  <2>3. QED
    BY <2>1, <2>2 DEF TypeOK, Goes
<1>5. ASSUME NEW c \in Clients, Finish(c)
      PROVE  TypeOK'
  <2>1. op[c] \in Pending
    BY <1>5 DEF TypeOK, Finish
  <2>2. op[c].agent \in AgentIds /\ op[c].write \in Agent \cup {Absent}
    BY <2>1 DEF Pending
  <2>3. QED
    BY <1>5, <2>2 DEF TypeOK, AgentTable, Finish
<1>6. ASSUME NEW c \in Clients, Fail(c)
      PROVE  TypeOK'
  BY <1>6 DEF TypeOK, Fail
<1>7. QED
  BY <1>1, <1>2, <1>3, <1>4, <1>5, <1>6 DEF Next

(* The table, its replica and the requests in progress keep their types;   *)
(* in particular what a PATCH leaves out is never stored.                  *)
THEOREM TypeCorrect == Spec => []TypeOK
<1>1. Init => TypeOK
  BY DEF Init, TypeOK, AgentTable, NoAgents
<1>2. QED
  BY <1>1, TypeInvariant, PTL DEF Spec
-----------------------------------------------------------------------------
LEMMA WritesFromReadsInvariant ==
  TypeOK /\ WritesFromReads /\ [Next]_vars => WritesFromReads'
<1> SUFFICES ASSUME TypeOK, WritesFromReads, [Next]_vars
             PROVE  WritesFromReads'
  OBVIOUS
<1>1. ASSUME NEW c \in Clients, NEW a \in AgentIds,
             StartUpdate(c, a) \/ StartHeartbeat(c, a) \/ StartDelete(c, a)
      PROVE  WritesFromReads'
  <2>1. PICK seen \in Gets(a), item \in Agent \cup {Absent} :
             Goes(c, a, seen, item) /\ Derived(seen, item)
    BY <1>1, StartEffect
  <2>2. \A x \in Clients :
          op'[x] = IF x = c THEN [agent |-> a, read |-> seen, write |-> item] ELSE op[x]
    BY <2>1 DEF TypeOK, Goes
  <2>3. QED
    BY <2>1, <2>2 DEF WritesFromReads, Derived
<1>2. ASSUME NEW c \in Clients, Finish(c) \/ Fail(c)
      PROVE  WritesFromReads'
  <2>1. \A x \in Clients : op'[x] = IF x = c THEN Idle ELSE op[x]
    BY <1>2 DEF TypeOK, Finish, Fail
  <2>2. QED
    BY <2>1 DEF WritesFromReads, Derived
<1>3. CASE UNCHANGED op
  BY <1>3 DEF WritesFromReads, Derived
<1>4. QED
  BY <1>1, <1>2, <1>3 DEF Next, vars, Replicate, Register

(* The second call of a request whose read is still true of the table does *)
(* what the contract's operation does.                                     *)
LEMMA FreshWriteIsContract ==
  ASSUME TypeOK, WritesFromReads, NEW c \in Clients, Finish(c), ~Stale(c)
  PROVE  Contract!Next
<1> DEFINE a == op[c].agent
<1>1. op[c] # Idle /\ op[c] \in Pending
  BY DEF TypeOK, Finish
<1>2. a \in AgentIds /\ op[c].read \in Agent
  BY <1>1 DEF Pending
<1>3. op[c].read = table[a] /\ table[a] # Absent
  BY <1>1, <1>2, AbsentAssumption DEF Stale
<1>4. table' = [table EXCEPT ![a] = op[c].write]
  BY DEF Finish
<1>5. CASE op[c].write = Absent
  BY <1>2, <1>3, <1>4, <1>5 DEF Contract!Next, Contract!Delete
<1>6. ASSUME NEW p \in Patches, op[c].write = Patched(op[c].read, p)
      PROVE  Contract!Next
  <2>1. p \in Contract!Patch /\ Contract!Patched(op[c].read, p) = Patched(op[c].read, p)
    BY <1>6, PatchesAssumption
      DEF Contract!Patch, Contract!StatusText, Contract!AgentStatus, Contract!Patched,
          Contract!OrElse, Patch, StatusText, AgentStatus, Patched, OrElse
  <2>2. Contract!Update(a, p)
    BY <1>3, <1>4, <1>6, <2>1 DEF Contract!Update
  <2>3. QED
    BY <1>2, <2>1, <2>2 DEF Contract!Next
<1>7. CASE op[c].write = HeardFrom(op[c].read)
  <2>1. Contract!HeardFrom(op[c].read) = HeardFrom(op[c].read)
    BY DEF Contract!HeardFrom, HeardFrom
  <2>2. Contract!Heartbeat(a)
    BY <1>3, <1>4, <1>7, <2>1 DEF Contract!Heartbeat
  <2>3. QED
    BY <1>2, <2>2 DEF Contract!Next
<1>8. QED
  BY <1>1, <1>5, <1>6, <1>7 DEF WritesFromReads, Derived

(* However many requests interleave, the table departs from the contract   *)
(* of the registry only when one of them writes on a stale read.           *)
THEOREM TableFollowsContract == Spec => ContractUnlessStale
<1> DEFINE Step ==
      \/ Contract!Next \/ UNCHANGED table
      \/ \E c \in Clients :
           Stale(c) /\ table' = [table EXCEPT ![op[c].agent] = op[c].write]
<1>1. Init => WritesFromReads
  BY DEF Init, WritesFromReads
<1>2. ASSUME TypeOK, WritesFromReads, [Next]_vars
      PROVE  Step
  <2>1. ASSUME NEW a \in AgentIds, NEW e \in Endpoints, Register(a, e)
        PROVE  Step
    BY <2>1 DEF Register, Fresh, Contract!Next, Contract!Register, Contract!Fresh
  <2>2. ASSUME NEW c \in Clients, Finish(c)
        PROVE  Step
    <3>1. CASE Stale(c)
      BY <2>2, <3>1 DEF Finish
    <3>2. CASE ~Stale(c)
      BY <1>2, <2>2, <3>2, FreshWriteIsContract
    <3>3. QED
      BY <3>1, <3>2
  <2>3. CASE UNCHANGED table
    BY <2>3
  <2>4. QED
    BY <1>2, <2>1, <2>2, <2>3
      DEF Next, vars, Replicate, StartUpdate, StartHeartbeat, StartDelete, Goes, Fail
<1>3. TypeOK /\ WritesFromReads /\ [Next]_vars => [Step]_vars
  BY <1>2
<1>4. QED
  BY <1>1, <1>3, TypeCorrect, WritesFromReadsInvariant, PTL DEF Spec, ContractUnlessStale
-----------------------------------------------------------------------------
(* An agent no read of which succeeds stays as it is for ever.             *)
LEMMA UnreadableStep ==
  ASSUME TypeOK, [Next]_vars, NEW a \in AgentIds, Unreadable(a)
  PROVE  Unreadable(a)' /\ table'[a] = table[a]
<1>1. table[a] # Absent /\ Gets(a) = {} /\ \A c \in Clients : op[c].agent # a
  BY DEF Unreadable
<1>2. ~Readable(table[a]) /\ ~Readable(replica[a])
  BY <1>1 DEF Gets
<1> SUFFICES /\ table'[a] = table[a]
             /\ replica'[a] \in {table[a], replica[a]}
             /\ \A c \in Clients : op'[c].agent # a
  BY <1>1, <1>2 DEF Unreadable, Gets, Readable
<1>3. CASE UNCHANGED vars
  BY <1>1, <1>3 DEF vars
<1>4. ASSUME NEW b \in AgentIds, Replicate(b)
      PROVE  table' = table /\ replica'[a] \in {table[a], replica[a]} /\ op' = op
  BY <1>4 DEF TypeOK, AgentTable, Replicate
<1>5. ASSUME NEW b \in AgentIds, NEW e \in Endpoints, Register(b, e)
      PROVE  table'[a] = table[a] /\ replica' = replica /\ op' = op
  BY <1>1, <1>5 DEF TypeOK, AgentTable, Register
<1>6. ASSUME NEW c \in Clients, NEW b \in AgentIds,
             StartUpdate(c, b) \/ StartHeartbeat(c, b) \/ StartDelete(c, b)
      PROVE  /\ table' = table /\ replica' = replica
             /\ \A x \in Clients : op'[x].agent # a
  <2>1. PICK seen \in Gets(b), item \in Agent \cup {Absent} : Goes(c, b, seen, item)
    BY <1>6, StartEffect
  <2>2. b # a
    BY <1>1, <2>1
  <2>3. QED
    BY <1>1, <2>1, <2>2 DEF TypeOK, Goes
<1>7. ASSUME NEW c \in Clients, Finish(c) \/ Fail(c)
      PROVE  /\ table'[a] = table[a] /\ replica' = replica
             /\ \A x \in Clients : op'[x].agent # a
  <2>1. \A x \in Clients : op'[x] = IF x = c THEN Idle ELSE op[x]
    BY <1>7 DEF TypeOK, Finish, Fail
  <2>2. Idle.agent # a
    BY AbsentAssumption DEF Idle
  <2>3. table'[a] = table[a] /\ replica' = replica
    BY <1>1, <1>7 DEF TypeOK, AgentTable, Finish, Fail
  <2>4. QED
    BY <1>1, <2>1, <2>2, <2>3
<1>8. QED
  BY <1>1, <1>3, <1>4, <1>5, <1>6, <1>7 DEF Next

(* A PATCH with an unknown status, once all replicas have it and nobody is *)
(* in between, can never be undone through the API, for any of the agents. *)
THEOREM UnreadableStays == Spec => UnreadableIsForever
<1>1. TypeOK /\ [Next]_vars =>
        [\A a \in AgentIds : Unreadable(a) => Unreadable(a)' /\ table'[a] = table[a]]_vars
  BY UnreadableStep
<1>2. QED
  BY <1>1, TypeCorrect, PTL DEF Spec, UnreadableIsForever
=============================================================================
