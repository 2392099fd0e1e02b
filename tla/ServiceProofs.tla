--------------------------- MODULE ServiceProofs ----------------------------
(***************************************************************************)
(* The service: what is proved of the execution manager alone still holds  *)
(* when a registry that others change decides its lookups, and an agent    *)
(* has a part in a run only if it was available during that run.           *)
(***************************************************************************)
EXTENDS Service, ExecutionRecordProofs

(* Seen from the manager, a step of the service is one of its own or none. *)
LEMMA ServiceSteps == [ServiceNext]_serviceVars => [Next]_vars
<1> SUFFICES ASSUME [ServiceNext]_serviceVars
             PROVE  [Next]_vars
  OBVIOUS
<1>1. CASE \E a \in AgentIds : RegisterAgent(a) \/ PatchAgent(a) \/ DeleteAgent(a) \/ AgentHeartbeat(a)
  BY <1>1 DEF RegisterAgent, PatchAgent, DeleteAgent, AgentHeartbeat
<1>2. ASSUME NEW r \in Runs, Beside(StartRun(r)) \/ Driven(r)
      PROVE  Next
  BY <1>2 DEF Beside, Driven, Next
<1>3. ASSUME NEW r \in Runs, NEW n \in Nodes, Served(r, n) \/ Beside(Unwind(r, n))
      PROVE  Next
  <2>1. NodeStep(r, n) \/ Unwind(r, n)
    BY <1>3 DEF Served, Beside, Lookup, Attempt, NodeStep
  <2>2. QED
    BY <2>1 DEF Next
<1>4. ASSUME NEW c \in Clients,
             Beside(CompleteCancel(c)) \/ \E r \in Runs : Beside(RequestCancel(c, r))
      PROVE  Next
  BY <1>4 DEF Beside, Next
<1>5. QED
  BY <1>1, <1>2, <1>3, <1>4 DEF ServiceNext, serviceVars

(* The registry only decides what the manager leaves open.                 *)
THEOREM ServiceRefinesManager == ServiceSpec => Init /\ [][Next]_vars
BY ServiceSteps, PTL DEF ServiceSpec, ServiceInit

LEMMA ManagerInvariants == ServiceSpec => [](TypeOK /\ DispatchDiscipline /\ Outcomes)
<1>1. Init => TypeOK /\ DispatchDiscipline /\ Outcomes
  <2>1. Init => TypeOK
    BY WorkflowAssumption, ManagerAssumption
      DEF Init, TypeOK, ControlState, TaskState, NodeResults, NoResults, NoOutput, Outputs
  <2>2. Init => DispatchDiscipline
    BY WorkflowAssumption DEF Init, DispatchDiscipline, NoResults
  <2>3. Init => Outcomes
    BY DEF Init, Outcomes, RunOutcome
  <2>4. QED
    BY <2>1, <2>2, <2>3
<1>2. QED
  BY <1>1, ServiceRefinesManager, TypeOKInvariant, DispatchDisciplineInvariant, OutcomesInvariant, PTL
-----------------------------------------------------------------------------
(* Only the lookup of an available agent takes a node past its inputs.     *)
LEMMA ServedPastInputs ==
  ASSUME TypeOK, NEW r \in Runs, NEW n \in Nodes, Served(r, n) \/ Beside(Unwind(r, n)),
         NEW q \in Runs, NEW m \in Nodes, task'[q][m] \in PastInputs
  PROVE  task[q][m] \in PastInputs \/ IsAvailable(AgentOf[m])
<1>1. NodeStep(r, n) \/ Unwind(r, n)
  BY DEF Served, Beside, Lookup, Attempt, NodeStep
<1>2. task[q][m] \in PastInputs \/ task[q][m] = "lookup"
  BY <1>1, NodeStepInputs
<1>3. ASSUME task[q][m] = "lookup"
      PROVE  IsAvailable(AgentOf[m])
  <2>1. "lookup" \notin PastInputs /\ "failed" \notin PastInputs /\ "raised" \notin PastInputs
    BY DEF PastInputs, CompletedKind
  <2>2. q = r /\ m = n
    <3>1. \E to : task' = [task EXCEPT ![r][n] = to]
      BY <1>1, NodeStepEffect
    <3>2. QED
      BY <1>3, <2>1, <3>1 DEF TypeOK
  <2>3. Lookup(r, n)
    BY <1>3, <2>2
      DEF Served, Beside, AcquirePermit, Attempt, AttemptSucceeds, AttemptRaises, AttemptFails,
          BackoffEnds, Unwind
  <2>4. CASE AgentUnavailable(r, n)
    BY <2>1, <2>2, <2>4 DEF AgentUnavailable, End, TypeOK
  <2>5. CASE LookupRaises(r, n)
    BY <2>1, <2>2, <2>5 DEF LookupRaises, End, TypeOK
  <2>6. QED
    BY <2>2, <2>3, <2>4, <2>5 DEF Lookup
<1>4. QED
  BY <1>2, <1>3

(* The steps that are not those of a node take none past its inputs.       *)
LEMMA OtherStepsKeepInputs ==
  ASSUME TypeOK, NEW q \in Runs, NEW m \in Nodes, task'[q][m] \in PastInputs,
         \/ UNCHANGED vars
         \/ \E r \in Runs : StartRun(r) \/ DriverStep(r) \/ Timeout(r)
         \/ \E c \in Clients : CompleteCancel(c) \/ \E r \in Runs : RequestCancel(c, r)
  PROVE  task[q][m] \in PastInputs
<1>1. CASE task' = task
  BY <1>1
<1>2. ASSUME NEW r \in Runs, StartLevels(r) \/ CollectLevel(r)
      PROVE  task[q][m] \in PastInputs
  BY <1>2 DEF StartLevels, CollectLevel, EnterLevel, Dispatched, PastInputs, CompletedKind, TypeOK
<1>3. ASSUME NEW r \in Runs, Timeout(r)
      PROVE  task[q][m] \in PastInputs
  BY <1>3 DEF Timeout, CancelTask, PastInputs, CompletedKind, TypeOK
<1>4. QED
  BY <1>1, <1>2, <1>3
    DEF DriverStep, StartRun, PropagateError, FinishTimeout, FinishFailed, FinishRun, Return,
        CompleteCancel, RequestCancel, vars, taskVars

(* In terms of PastInputs, and inductive: a run that has tasks is not new, *)
(* so what was noted of its agents is kept.                                *)
LEMMA PartInvariant ==
  TypeOK /\ DispatchDiscipline' /\ UnavailableTakeNoPart /\ [ServiceNext]_serviceVars
    => UnavailableTakeNoPart'
<1> SUFFICES ASSUME TypeOK, DispatchDiscipline', UnavailableTakeNoPart, [ServiceNext]_serviceVars,
                    NEW r \in Runs, NEW n \in Nodes, task'[r][n] \in PastInputs
             PROVE  AgentOf[n] \in fit'[r]
  BY DEF UnavailableTakeNoPart, PastInputs
<1>1. task[r][n] \in PastInputs => AgentOf[n] \in fit[r]
  BY DEF UnavailableTakeNoPart, PastInputs
<1>2. pc'[r] # "new"
  <2>1. task'[r][n] # "idle" /\ Level[n] \in Nat \ {0}
    BY WorkflowAssumption DEF PastInputs, CompletedKind
  <2>2. ~(Level[n] <= 0)
    BY <2>1
  <2>3. QED
    BY <2>1, <2>2 DEF DispatchDiscipline
<1>3. CASE UNCHANGED serviceVars
  BY <1>1, <1>3 DEF serviceVars, vars, taskVars
<1>4. ASSUME Observed
      PROVE  fit'[r] = fit[r] \cup Available(agents')
  BY <1>2, <1>4 DEF Observed
<1>5. AgentOf[n] \in AgentIds
  BY ServiceAssumption
<1>6. CASE ServiceNext
  <2>1. Observed
    BY <1>6 DEF ServiceNext, RegisterAgent, PatchAgent, DeleteAgent, AgentHeartbeat, Driven, Served,
                Beside
  <2>2. task[r][n] \in PastInputs \/ (IsAvailable(AgentOf[n]) /\ agents' = agents)
    <3>1. ASSUME NEW q \in Runs, NEW m \in Nodes, Served(q, m) \/ Beside(Unwind(q, m))
          PROVE  task[r][n] \in PastInputs \/ (IsAvailable(AgentOf[n]) /\ agents' = agents)
      <4>1. agents' = agents
        BY <3>1 DEF Served, Beside
      <4>2. QED
        BY <3>1, <4>1, ServedPastInputs
    <3>2. CASE \/ UNCHANGED vars
               \/ \E q \in Runs : StartRun(q) \/ DriverStep(q) \/ Timeout(q)
               \/ \E c \in Clients : CompleteCancel(c) \/ \E q \in Runs : RequestCancel(c, q)
      BY <3>2, OtherStepsKeepInputs
    <3>3. QED
      BY <1>6, <3>1, <3>2
        DEF ServiceNext, RegisterAgent, PatchAgent, DeleteAgent, AgentHeartbeat, Driven, Beside
  <2>3. IsAvailable(AgentOf[n]) /\ agents' = agents => AgentOf[n] \in Available(agents')
    BY <1>5 DEF IsAvailable, Available
  <2>4. QED
    BY <1>1, <1>4, <2>1, <2>2, <2>3
<1>7. QED
  BY <1>3, <1>6

(* An agent that was unavailable for the whole of a run has no part in it. *)
THEOREM UnavailableHaveNoPart == ServiceSpec => []UnavailableTakeNoPart
<1>1. ServiceInit => UnavailableTakeNoPart
  BY DEF ServiceInit, Init, UnavailableTakeNoPart, CompletedKind
<1>2. QED
  BY <1>1, ManagerInvariants, PartInvariant, PTL DEF ServiceSpec

(* A run without any of its agents claims nothing.                         *)
THEOREM NothingComesFromNoAgents == ServiceSpec => []NothingWithoutAgents
<1>1. TypeOK /\ DispatchDiscipline /\ Outcomes /\ UnavailableTakeNoPart => NothingWithoutAgents
  <2> SUFFICES ASSUME TypeOK, DispatchDiscipline, Outcomes, UnavailableTakeNoPart,
                      NEW r \in Runs, pc[r] = "returned",
                      \A n \in Nodes : AgentOf[n] \notin fit[r]
               PROVE  /\ status[r] \in {"FAILED", "TIMED_OUT"} \/ (cancelEvent[r] /\ status[r] = "PENDING")
                      /\ output[r] \in {NoOutput, {{}}}
    BY DEF NothingWithoutAgents
  <2>1. \A n \in Nodes : results[r][n] \in {"absent", "failed"}
    <3>1. SUFFICES ASSUME NEW n \in Nodes, results[r][n] # "absent"
                   PROVE  results[r][n] = "failed"
      OBVIOUS
    <3>2. results[r][n] = task[r][n] /\ results[r][n] \in ResultKind
      BY <3>1 DEF DispatchDiscipline, TypeOK, NodeResults
    <3>3. task[r][n] \notin CompletedKind
      BY DEF UnavailableTakeNoPart
    <3>4. QED
      BY <3>2, <3>3 DEF ResultKind
  <2>2. AggregateOutput(results[r]) = {{}}
    BY <2>1 DEF AggregateOutput
  <2>3. CASE EndsWithLevels(r)
    <3>1. status[r] = ComputeStatus(results[r]) /\ output[r] = {{}} /\ SkipsExplained(r)
      BY <2>2, <2>3 DEF EndsWithLevels
    <3> DEFINE statuses == {NodeStatus(results[r][n]) : n \in Recorded(results[r])}
    <3>2. CASE Recorded(results[r]) = {}
      <4>1. status[r] = "PENDING"
        BY <3>1, <3>2 DEF ComputeStatus
      <4>2. cancelEvent[r]
        <5>1. PICK n \in Nodes : Level[n] = 1
          BY WorkflowAssumption
        <5>2. Explained(r, n)
          BY <3>1, <3>2 DEF SkipsExplained
        <5>3. QED
          BY <5>1, <5>2 DEF Explained
      <4>3. QED
        BY <3>1, <4>1, <4>2
    <3>3. CASE Recorded(results[r]) # {}
      <4>1. statuses = {"FAILED"}
        BY <2>1, <3>3 DEF Recorded, NodeStatus
      <4>2. ComputeStatus(results[r]) = "FAILED"
        BY <4>1 DEF ComputeStatus
      <4>3. QED
        BY <3>1, <4>2
    <3>4. QED
      BY <3>2, <3>3
  <2>4. CASE EndsWithTimeout(r) \/ EndsWithError(r)
    BY <2>2, <2>4 DEF EndsWithTimeout, EndsWithError
  <2>5. QED
    BY <2>3, <2>4 DEF Outcomes, RunOutcome
<1>2. QED
  BY <1>1, ManagerInvariants, UnavailableHaveNoPart, PTL
=============================================================================
