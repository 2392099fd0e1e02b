------------------------ MODULE ExecutionStreamProofs -----------------------
(***************************************************************************)
(* What the status streams tell their clients, for every workflow and any  *)
(* number of runs and connections.                                         *)
(***************************************************************************)
EXTENDS ExecutionStream, FiniteSetTheorems, TLAPS

(* The run's side: only a closed run has a final status, and node_results  *)
(* is filled level by level.                                               *)
RunRecord(r) ==
  /\ phase[r] # "closed" => status[r] \in {"absent", "RUNNING", "CANCELLED"}
  /\ \A m, n \in Nodes :
       results[r][m] # "absent" /\ Level[n] <= Level[m] => results[r][n] # "absent"

(* A status that says what became of the run.  CANCELLED does not: the     *)
(* run goes on behind it.                                                  *)
Final(st) == st \in TerminalStatus \ {"CANCELLED"}
IsFinalFor(c, st) == phase[watching[c]] = "closed" /\ status[watching[c]] = st

(* The connection's side: what was sent is a part of node_results that     *)
(* ends within a level, and a final status once read stays the status.     *)
Conversation(c) ==
  /\ at[c] = "none" => seen[c] = {} /\ snapshot[c] = "absent" /\ doneStatus[c] = "none"
  /\ at[c] # "none" => watching[c] \in Runs /\ seen[c] \subseteq Recorded(results[watching[c]])
  /\ \A n \in seen[c], m \in Nodes : Level[m] < Level[n] => m \in seen[c]
  /\ Final(snapshot[c]) => IsFinalFor(c, snapshot[c])
  /\ doneStatus[c] # "none" => at[c] \in {"closing", "over"}
  /\ Final(doneStatus[c]) =>
       IsFinalFor(c, doneStatus[c]) /\ seen[c] = Recorded(results[watching[c]])

StreamInv ==
  /\ TypeOK
  /\ SubscribersAreLive
  /\ \A r \in Runs : RunRecord(r)
  /\ \A c \in Conns : Conversation(c)
-----------------------------------------------------------------------------
(* A step of a run keeps its record, does not touch that of a run that is  *)
(* closed, and takes no result back.                                       *)
RecordStep(r) ==
  /\ RunRecord(r)'
  /\ phase[r] = "closed" => phase'[r] = "closed" /\ status'[r] = status[r] /\ results'[r] = results[r]
  /\ Recorded(results[r]) \subseteq Recorded(results'[r])

LEMMA RunTypes ==
  Run!TypeOK <=> /\ phase \in [Runs -> {"unknown", "open", "closed"}]
                 /\ status \in [Runs -> RunStatus \cup {"absent"}]
                 /\ output \in [Runs -> Outputs]
                 /\ results \in [Runs -> NodeResults]
BY DEF Run!TypeOK, Run!RunStatus, RunStatus, Run!Outputs, Outputs, Run!NoOutput, NoOutput,
       Run!NodeResults, NodeResults, Run!ResultKind, ResultKind, Run!CompletedKind, CompletedKind

LEMMA ClosingRecordTypes ==
  ASSUME NEW res, NEW rec \in Run!ClosingRecords(res)
  PROVE  rec[1] \in RunStatus /\ rec[2] \in Outputs
<1>1. Run!ComputeStatus(res) \in RunStatus
  BY DEF Run!ComputeStatus, RunStatus
<1>2. Run!AggregateOutput(res) \in Outputs /\ Run!NoOutput \in Outputs
  BY DEF Run!AggregateOutput, Run!NoOutput, Outputs, NoOutput
<1>3. QED
  BY <1>1, <1>2 DEF Run!ClosingRecords, RunStatus

LEMMA RunSteps ==
  ASSUME TypeOK, \A r \in Runs : RunRecord(r), Run!Next
  PROVE  Run!TypeOK' /\ \A r \in Runs : RecordStep(r)
<1>1. /\ phase \in [Runs -> {"unknown", "open", "closed"}]
      /\ status \in [Runs -> RunStatus \cup {"absent"}]
      /\ output \in [Runs -> Outputs]
      /\ results \in [Runs -> NodeResults]
  BY RunTypes DEF TypeOK
<1> DEFINE TypesNext == /\ phase' \in [Runs -> {"unknown", "open", "closed"}]
                        /\ status' \in [Runs -> RunStatus \cup {"absent"}]
                        /\ output' \in [Runs -> Outputs]
                        /\ results' \in [Runs -> NodeResults]
<1>2. TypesNext => Run!TypeOK'
  BY DEF Run!TypeOK, Run!RunStatus, RunStatus, Run!Outputs, Outputs, Run!NoOutput, NoOutput,
         Run!NodeResults, NodeResults, Run!ResultKind, ResultKind, Run!CompletedKind, CompletedKind
<1>3. PICK r \in Runs : Run!Open(r) \/ Run!Record(r) \/ Run!MarkCancelled(r) \/ Run!Close(r)
  BY DEF Run!Next
<1>4. ASSUME NEW q \in Runs, phase'[q] = phase[q], status'[q] = status[q], results'[q] = results[q]
      PROVE  RecordStep(q)
  BY <1>4 DEF RecordStep, RunRecord
<1>5. CASE Run!Open(r)
  <2>1. TypesNext
    BY <1>1, <1>5 DEF Run!Open, RunStatus
  <2>2. RecordStep(r)
    BY <1>1, <1>5 DEF Run!Open, RecordStep, RunRecord
  <2>3. \A q \in Runs \ {r} : RecordStep(q)
    BY <1>1, <1>4, <1>5 DEF Run!Open
  <2>4. QED
    BY <1>2, <2>1, <2>2, <2>3
<1>6. CASE Run!MarkCancelled(r)
  <2>1. Run!AggregateOutput(results[r]) \in Outputs
    BY DEF Run!AggregateOutput, Outputs
  <2>2. TypesNext
    BY <1>1, <1>6, <2>1 DEF Run!MarkCancelled, RunStatus
  <2>3. RecordStep(r)
    BY <1>1, <1>6 DEF Run!MarkCancelled, RecordStep, RunRecord
  <2>4. \A q \in Runs \ {r} : RecordStep(q)
    BY <1>1, <1>4, <1>6 DEF Run!MarkCancelled
  <2>5. QED
    BY <1>2, <2>2, <2>3, <2>4
<1>7. CASE Run!Close(r)
  <2>1. PICK rec \in Run!ClosingRecords(results[r]) :
             /\ status' = [status EXCEPT ![r] = rec[1]]
             /\ output' = [output EXCEPT ![r] = rec[2]]
    BY <1>7 DEF Run!Close
  <2>2. TypesNext
    BY <1>1, <1>7, <2>1, ClosingRecordTypes DEF Run!Close
  <2>3. RecordStep(r)
    BY <1>1, <1>7 DEF Run!Close, RecordStep, RunRecord
  <2>4. \A q \in Runs \ {r} : RecordStep(q)
    BY <1>1, <1>4, <1>7, <2>1 DEF Run!Close
  <2>5. QED
    BY <1>2, <2>2, <2>3, <2>4
<1>8. CASE Run!Record(r)
  <2>1. PICK k \in 1..Depth :
          /\ Run!Recorded(results[r]) = {n \in Nodes : Level[n] < k}
          /\ \E kind \in [Run!LevelNodes(k) -> Run!ResultKind] :
               results' = [results EXCEPT ![r] =
                 [n \in Nodes |-> IF Level[n] = k THEN kind[n] ELSE results[r][n]]]
    BY <1>8 DEF Run!Record
  <2>2. PICK kind \in [LevelNodes(k) -> ResultKind] :
               results' = [results EXCEPT ![r] =
                 [n \in Nodes |-> IF Level[n] = k THEN kind[n] ELSE results[r][n]]]
    BY <2>1 DEF Run!LevelNodes, LevelNodes, Run!ResultKind, ResultKind, Run!CompletedKind, CompletedKind
  <2>3. UNCHANGED <<phase, status, output>> /\ phase[r] = "open"
    BY <1>8 DEF Run!Record
  <2>4. \A n \in Nodes : Level[n] = k => kind[n] \in ResultKind
    BY DEF LevelNodes
  <2>5. \A n \in Nodes : results'[r][n] = IF Level[n] = k THEN kind[n] ELSE results[r][n]
    BY <1>1, <2>2
  <2>6. results' \in [Runs -> NodeResults]
    BY <1>1, <2>2, <2>4 DEF NodeResults
  <2>7. \A n \in Nodes : results[r][n] # "absent" <=> Level[n] < k
    BY <2>1 DEF Run!Recorded
  <2>8. \A n \in Nodes : results'[r][n] # "absent" <=> Level[n] <= k
    <3>1. "absent" \notin ResultKind
      BY DEF ResultKind, CompletedKind
    <3>2. k \in Nat /\ \A n \in Nodes : Level[n] \in Nat
      BY WorkflowAssumption
    <3>3. QED
      BY <2>4, <2>5, <2>7, <3>1, <3>2
  <2>9. RecordStep(r)
    <3>1. k \in Nat /\ \A n \in Nodes : Level[n] \in Nat
      BY WorkflowAssumption
    <3>2. \A m, n \in Nodes :
            results'[r][m] # "absent" /\ Level[n] <= Level[m] => results'[r][n] # "absent"
      BY <2>8, <3>1
    <3>3. Recorded(results[r]) \subseteq Recorded(results'[r])
      BY <2>7, <2>8, <3>1 DEF Recorded
    <3>4. QED
      BY <2>3, <3>2, <3>3 DEF RecordStep, RunRecord
  <2>10. \A q \in Runs \ {r} : RecordStep(q)
    BY <1>1, <1>4, <2>2, <2>3
  <2>11. QED
    BY <1>1, <1>2, <2>3, <2>6, <2>9, <2>10
<1>9. QED
  BY <1>3, <1>5, <1>6, <1>7, <1>8

(* What the steps of the runs leave true of a connection.                  *)
LEMMA ConversationBesideRuns ==
  ASSUME StreamInv, UNCHANGED connVars, \A r \in Runs : RecordStep(r), NEW c \in Conns
  PROVE  Conversation(c)'
<1>1. CASE at[c] = "none"
  <2>1. ~Final("absent") /\ ~Final("none")
    BY DEF Final, TerminalStatus, RunStatus
  <2>2. QED
    BY <1>1, <2>1 DEF connVars, StreamInv, Conversation
<1>2. CASE at[c] # "none"
  <2>1. watching[c] \in Runs /\ watching'[c] = watching[c]
    BY <1>2 DEF StreamInv, Conversation, connVars
  <2>2. \A st : IsFinalFor(c, st) => IsFinalFor(c, st)' /\ results'[watching[c]] = results[watching[c]]
    BY <2>1 DEF RecordStep, IsFinalFor
  <2>3. QED
    BY <1>2, <2>1, <2>2 DEF connVars, StreamInv, Conversation, RecordStep, Recorded
<1>3. QED
  BY <1>1, <1>2
-----------------------------------------------------------------------------
(* A step of one handler leaves the other conversations alone.             *)
Others(c) ==
  \A d \in Conns \ {c} :
    /\ at'[d] = at[d] /\ watching'[d] = watching[d] /\ seen'[d] = seen[d]
    /\ snapshot'[d] = snapshot[d] /\ doneStatus'[d] = doneStatus[d]

LEMMA OthersKeep ==
  ASSUME StreamInv, UNCHANGED runVars, NEW c \in Conns, Others(c), Conversation(c)'
  PROVE  \A d \in Conns : Conversation(d)'
<1> SUFFICES ASSUME NEW d \in Conns \ {c}
             PROVE  Conversation(d)'
  OBVIOUS
<1>1. Conversation(d)
  BY DEF StreamInv
<1>2. /\ at'[d] = at[d] /\ watching'[d] = watching[d] /\ seen'[d] = seen[d]
      /\ snapshot'[d] = snapshot[d] /\ doneStatus'[d] = doneStatus[d]
      /\ phase' = phase /\ status' = status /\ results' = results
  BY DEF Others, runVars
<1>3. QED
  BY <1>1, <1>2 DEF Conversation, IsFinalFor

(* A pass, from wherever it stands: the next node extends what was sent    *)
(* within the DAG, and at the end of the pass all was sent.                *)
LEMMA PassKeepsConversation ==
  ASSUME StreamInv, UNCHANGED runVars, NEW c \in Conns, NEW st \in RunStatus \cup {"absent"},
         at[c] \in {"greeting", "sleeping", "streaming"},
         ContinuePass(c, st), Final(st) => IsFinalFor(c, st),
         snapshot' = [snapshot EXCEPT ![c] = st]
  PROVE  Conversation(c)' /\ Others(c)
<1>1. /\ phase' = phase /\ status' = status /\ results' = results /\ watching' = watching
      /\ snapshot'[c] = st /\ \A d \in Conns \ {c} : snapshot'[d] = snapshot[d]
  BY DEF runVars, ContinuePass, StreamInv, TypeOK
<1>2. /\ Conversation(c) /\ doneStatus[c] = "none"
      /\ watching[c] \in Runs /\ seen[c] \subseteq Recorded(results[watching[c]])
      /\ RunRecord(watching[c])
  BY DEF StreamInv, Conversation
<1>3. /\ at \in [Conns -> HandlerState] /\ seen \in [Conns -> SUBSET Nodes]
      /\ doneStatus \in [Conns -> TerminalStatus \cup {"none"}]
  BY DEF StreamInv, TypeOK
<1>4. ~Final("none")
  BY DEF Final, TerminalStatus, RunStatus
<1>5. CASE \E n \in NextUnsent(c) :
             /\ seen' = [seen EXCEPT ![c] = @ \cup {n}]
             /\ at' = [at EXCEPT ![c] = "streaming"]
             /\ UNCHANGED doneStatus
  <2>1. PICK n \in NextUnsent(c) :
             /\ seen' = [seen EXCEPT ![c] = @ \cup {n}]
             /\ at' = [at EXCEPT ![c] = "streaming"]
             /\ UNCHANGED doneStatus
    BY <1>5
  <2>2. n \in Recorded(results[watching[c]]) /\ n \in Nodes
    BY DEF NextUnsent, Unsent, Recorded
  <2>3. ASSUME NEW m \in Nodes, Level[m] < Level[n]
        PROVE  m \in seen[c]
    <3>1. Level[m] \in Nat /\ Level[n] \in Nat
      BY <2>2, WorkflowAssumption
    <3>2. m \in Recorded(results[watching[c]])
      BY <1>2, <2>2, <2>3, <3>1 DEF RunRecord, Recorded
    <3>3. QED
      BY <2>3, <3>1, <3>2 DEF NextUnsent, Unsent
  <2>4. \A k \in seen'[c], m \in Nodes : Level[m] < Level[k] => m \in seen'[c]
    BY <1>2, <1>3, <2>1, <2>3 DEF Conversation
  <2>5. /\ seen'[c] \subseteq Recorded(results[watching[c]]) /\ at'[c] = "streaming"
        /\ doneStatus'[c] = "none"
    BY <1>2, <1>3, <2>1, <2>2
  <2>6. Conversation(c)'
    BY <1>1, <1>2, <1>4, <2>4, <2>5 DEF Conversation, IsFinalFor
  <2>7. QED
    BY <1>1, <1>3, <2>1, <2>6 DEF Others
<1>6. CASE /\ Unsent(c) = {} /\ EndsStream(st)
           /\ doneStatus' = [doneStatus EXCEPT ![c] = st]
           /\ at' = [at EXCEPT ![c] = "closing"]
           /\ UNCHANGED seen
  <2>1. seen[c] = Recorded(results[watching[c]])
    BY <1>2, <1>6 DEF Unsent
  <2>2. at'[c] = "closing" /\ doneStatus'[c] = st
    BY <1>3, <1>6
  <2>3. Conversation(c)'
    BY <1>1, <1>2, <1>6, <2>1, <2>2 DEF Conversation, IsFinalFor
  <2>4. QED
    BY <1>1, <1>3, <1>6, <2>3 DEF Others
<1>7. CASE /\ at' = [at EXCEPT ![c] = "sleeping"]
           /\ UNCHANGED <<seen, doneStatus>>
  <2>1. at'[c] = "sleeping"
    BY <1>3, <1>7
  <2>2. Conversation(c)'
    BY <1>1, <1>2, <1>4, <1>7, <2>1 DEF Conversation, IsFinalFor
  <2>3. QED
    BY <1>1, <1>3, <1>7, <2>2 DEF Others
<1>8. QED
  BY <1>5, <1>6, <1>7 DEF ContinuePass

(* The end of a handler.                                                   *)
LEMMA OverKeepsConversation ==
  ASSUME StreamInv, UNCHANGED runVars, NEW c \in Conns, at[c] # "none", Over(c)
  PROVE  Conversation(c)' /\ Others(c)
<1>1. /\ at'[c] = "over" /\ UNCHANGED <<watching, seen, snapshot, doneStatus>>
      /\ \A d \in Conns \ {c} : at'[d] = at[d]
      /\ phase' = phase /\ status' = status /\ results' = results
  BY DEF Over, runVars, StreamInv, TypeOK
<1>2. Conversation(c)
  BY DEF StreamInv
<1>3. QED
  BY <1>1, <1>2 DEF Conversation, IsFinalFor, Others

LEMMA ConversationSteps ==
  ASSUME StreamInv, ConnNext, UNCHANGED runVars
  PROVE  \A c \in Conns : Conversation(c)'
<1>1. /\ at \in [Conns -> HandlerState] /\ watching \in [Conns -> Runs \cup {NoRun}]
      /\ snapshot \in [Conns -> RunStatus \cup {"absent"}]
  BY DEF StreamInv, TypeOK
<1>2. phase' = phase /\ status' = status /\ results' = results
  BY DEF runVars
<1>3. ASSUME NEW c \in Conns, NEW r \in Runs, Connect(c, r)
      PROVE  Conversation(c)' /\ Others(c)
  <2>1. /\ at[c] = "none" /\ at'[c] = "accepting" /\ watching'[c] = r
        /\ UNCHANGED <<seen, snapshot, doneStatus>>
        /\ \A d \in Conns \ {c} : at'[d] = at[d] /\ watching'[d] = watching[d]
    BY <1>1, <1>3 DEF Connect
  <2>2. seen[c] = {} /\ snapshot[c] = "absent" /\ doneStatus[c] = "none"
    BY <2>1 DEF StreamInv, Conversation
  <2>3. ~Final("absent") /\ ~Final("none")
    BY DEF Final, TerminalStatus, RunStatus
  <2>4. QED
    BY <2>1, <2>2, <2>3 DEF Conversation, Others
<1>4. ASSUME NEW c \in Conns, Accepted(c)
      PROVE  Conversation(c)' /\ Others(c)
  <2>1. /\ at[c] = "accepting" /\ at'[c] \in {"refusing", "greeting"}
        /\ UNCHANGED <<watching, seen, snapshot, doneStatus>>
        /\ \A d \in Conns \ {c} : at'[d] = at[d]
    BY <1>1, <1>4 DEF Accepted
  <2>2. Conversation(c)
    BY DEF StreamInv
  <2>3. QED
    BY <1>2, <2>1, <2>2 DEF Conversation, IsFinalFor, Others
<1>5. ASSUME NEW c \in Conns, BeginPass(c)
      PROVE  Conversation(c)' /\ Others(c)
  <2>1. at[c] \in {"greeting", "sleeping"} /\ watching[c] \in Runs
    BY <1>5 DEF BeginPass, StreamInv, Conversation
  <2>2. CurrentStatus(c) \in RunStatus \cup {"absent"}
    BY <2>1, RunTypes DEF CurrentStatus, StreamInv, TypeOK
  <2>3. Final(CurrentStatus(c)) => IsFinalFor(c, CurrentStatus(c))
    BY <2>1 DEF CurrentStatus, StreamInv, RunRecord, Final, IsFinalFor, TerminalStatus, RunStatus
  <2>4. QED
    BY <1>5, <2>1, <2>2, <2>3, PassKeepsConversation DEF BeginPass
<1>6. ASSUME NEW c \in Conns, NodeSent(c)
      PROVE  Conversation(c)' /\ Others(c)
  <2>1. snapshot' = [snapshot EXCEPT ![c] = snapshot[c]] /\ snapshot[c] \in RunStatus \cup {"absent"}
    BY <1>1, <1>6 DEF NodeSent
  <2>2. Final(snapshot[c]) => IsFinalFor(c, snapshot[c])
    BY DEF StreamInv, Conversation
  <2>3. QED
    BY <1>6, <2>1, <2>2, PassKeepsConversation DEF NodeSent
<1>7. ASSUME NEW c \in Conns, IterationBreaks(c) \/ LastSent(c) \/ SendFails(c)
      PROVE  Conversation(c)' /\ Others(c)
  BY <1>7, OverKeepsConversation DEF IterationBreaks, LastSent, SendFails, Sending
<1>8. ASSUME NEW c \in Conns, ClientLeaves(c)
      PROVE  Conversation(c)' /\ Others(c)
  <2>1. UNCHANGED <<at, watching, seen, snapshot, doneStatus>> /\ Conversation(c)
    BY <1>8 DEF ClientLeaves, StreamInv
  <2>2. QED
    BY <1>2, <2>1 DEF Conversation, IsFinalFor, Others
<1>9. QED
  BY <1>3, <1>4, <1>5, <1>6, <1>7, <1>8, OthersKeep DEF ConnNext, HandlerStep
-----------------------------------------------------------------------------
ConnTypes ==
  /\ at \in [Conns -> HandlerState]
  /\ watching \in [Conns -> Runs \cup {NoRun}]
  /\ subscribers \in [Runs -> SUBSET Conns]
  /\ seen \in [Conns -> SUBSET Nodes]
  /\ snapshot \in [Conns -> RunStatus \cup {"absent"}]
  /\ passSize \in [Conns -> 0..Cardinality(Nodes)]
  /\ doneStatus \in [Conns -> TerminalStatus \cup {"none"}]
  /\ clientGone \in [Conns -> BOOLEAN]

LEMMA PassTypes ==
  ASSUME ConnTypes, NEW c \in Conns, NEW st, ContinuePass(c, st)
  PROVE  /\ at' \in [Conns -> HandlerState]
         /\ seen' \in [Conns -> SUBSET Nodes]
         /\ doneStatus' \in [Conns -> TerminalStatus \cup {"none"}]
         /\ UNCHANGED <<watching, subscribers, clientGone>>
<1>1. NextUnsent(c) \subseteq Nodes
  BY DEF NextUnsent, Unsent, Recorded
<1>2. QED
  BY <1>1 DEF ContinuePass, ConnTypes, HandlerState, Sending, EndsStream

LEMMA ConnTypesInvariant ==
  ASSUME StreamInv, ConnNext
  PROVE  ConnTypes'
<1>1. ConnTypes /\ Run!TypeOK
  BY DEF StreamInv, TypeOK, ConnTypes
<1>2. ASSUME NEW c \in Conns, NEW r \in Runs, Connect(c, r)
      PROVE  ConnTypes'
  BY <1>1, <1>2 DEF Connect, ConnTypes, HandlerState
<1>3. ASSUME NEW c \in Conns, Accepted(c)
      PROVE  ConnTypes'
  BY <1>1, <1>3 DEF Accepted, ConnTypes, HandlerState, Sending
<1>4. ASSUME NEW c \in Conns, BeginPass(c)
      PROVE  ConnTypes'
  <2>1. watching[c] \in Runs
    BY <1>4 DEF BeginPass, StreamInv, Conversation
  <2>2. CurrentStatus(c) \in RunStatus \cup {"absent"}
    BY <1>1, <2>1, RunTypes DEF CurrentStatus
  <2>3. Cardinality(Recorded(results[watching[c]])) \in 0..Cardinality(Nodes)
    <3>1. Recorded(results[watching[c]]) \in SUBSET Nodes
      BY DEF Recorded
    <3>2. IsFiniteSet(Recorded(results[watching[c]]))
      BY <3>1, FS_Subset, WorkflowAssumption
    <3>3. Cardinality(Recorded(results[watching[c]])) <= Cardinality(Nodes)
      BY <3>1, FS_Subset, WorkflowAssumption
    <3>4. QED
      BY <3>2, <3>3, FS_CardinalityType, WorkflowAssumption
  <2>4. /\ snapshot' \in [Conns -> RunStatus \cup {"absent"}]
        /\ passSize' \in [Conns -> 0..Cardinality(Nodes)]
    BY <1>1, <1>4, <2>2, <2>3 DEF BeginPass, ConnTypes
  <2>5. ContinuePass(c, CurrentStatus(c))
    BY <1>4 DEF BeginPass
  <2>6. QED
    BY <1>1, <2>4, <2>5, PassTypes DEF ConnTypes
<1>5. ASSUME NEW c \in Conns, NodeSent(c)
      PROVE  ConnTypes'
  BY <1>1, <1>5, PassTypes DEF NodeSent, ConnTypes
<1>6. ASSUME NEW c \in Conns, Over(c)
      PROVE  ConnTypes'
  BY <1>1, <1>6 DEF Over, ConnTypes, HandlerState
<1>7. ASSUME NEW c \in Conns, ClientLeaves(c)
      PROVE  ConnTypes'
  BY <1>1, <1>7 DEF ClientLeaves, ConnTypes
<1>8. QED
  BY <1>2, <1>3, <1>4, <1>5, <1>6, <1>7
    DEF ConnNext, HandlerStep, IterationBreaks, LastSent, SendFails

(* subscribers follows the handlers.                                       *)
LEMMA SubscribersInvariant ==
  ASSUME StreamInv, ConnNext
  PROVE  SubscribersAreLive'
<1> DEFINE Connected(c) == at[c] \in Sending \cup {"sleeping"}
<1>1. /\ at \in [Conns -> HandlerState] /\ watching \in [Conns -> Runs \cup {NoRun}]
      /\ subscribers \in [Runs -> SUBSET Conns]
  BY DEF StreamInv, TypeOK
<1>2. \A c \in Conns, r \in Runs : c \in subscribers[r] <=> watching[c] = r /\ Connected(c)
  BY DEF StreamInv, SubscribersAreLive
<1>3. ASSUME NEW c \in Conns, NEW r \in Runs, Connect(c, r)
      PROVE  SubscribersAreLive'
  <2>1. ~Connected(c) /\ ~Connected(c)'
    BY <1>1, <1>3 DEF Connect, Sending
  <2>2. \A d \in Conns \ {c} : at'[d] = at[d] /\ watching'[d] = watching[d]
    BY <1>1, <1>3 DEF Connect
  <2>3. subscribers' = subscribers
    BY <1>3 DEF Connect
  <2>4. QED
    BY <1>2, <2>1, <2>2, <2>3 DEF SubscribersAreLive
<1>4. ASSUME NEW c \in Conns, Accepted(c)
      PROVE  SubscribersAreLive'
  <2>1. Connected(c)' /\ watching' = watching
    BY <1>1, <1>4 DEF Accepted, Sending
  <2>2. \A d \in Conns \ {c} : at'[d] = at[d]
    BY <1>1, <1>4 DEF Accepted
  <2>3. ~Connected(c)
    BY <1>4 DEF Accepted, Sending
  <2>4. \A r \in Runs : subscribers'[r] = IF r = watching[c] THEN subscribers[r] \cup {c} ELSE subscribers[r]
    BY <1>1, <1>4 DEF Accepted
  <2>5. \A r \in Runs : c \in subscribers'[r] <=> watching'[c] = r /\ Connected(c)'
    BY <1>2, <2>1, <2>2, <2>3, <2>4
  <2>6. ASSUME NEW d \in Conns \ {c}, NEW r \in Runs
        PROVE  d \in subscribers'[r] <=> watching'[d] = r /\ Connected(d)'
    <3>1. d \in subscribers'[r] <=> d \in subscribers[r]
      BY <2>4
    <3>2. watching'[d] = watching[d] /\ at'[d] = at[d]
      BY <2>1, <2>2
    <3>3. d \in subscribers[r] <=> watching[d] = r /\ Connected(d)
      BY <1>2
    <3>4. QED
      BY <3>1, <3>2, <3>3
  <2>7. QED
    BY <2>5, <2>6 DEF SubscribersAreLive
<1>5. ASSUME NEW c \in Conns, Over(c)
      PROVE  SubscribersAreLive'
  <2>1. ~Connected(c)' /\ watching' = watching
    BY <1>1, <1>5 DEF Over, Sending
  <2>2. \A d \in Conns \ {c} : at'[d] = at[d]
    BY <1>1, <1>5 DEF Over
  <2>3. \A r \in Runs : subscribers'[r] = IF r = watching[c] THEN subscribers[r] \ {c} ELSE subscribers[r]
    BY <1>1, <1>5 DEF Over
  <2>4. \A r \in Runs : c \in subscribers'[r] <=> watching'[c] = r /\ Connected(c)'
    BY <1>2, <2>1, <2>2, <2>3
  <2>5. ASSUME NEW d \in Conns \ {c}, NEW r \in Runs
        PROVE  d \in subscribers'[r] <=> watching'[d] = r /\ Connected(d)'
    <3>1. d \in subscribers'[r] <=> d \in subscribers[r]
      BY <2>3
    <3>2. watching'[d] = watching[d] /\ at'[d] = at[d]
      BY <2>1, <2>2
    <3>3. d \in subscribers[r] <=> watching[d] = r /\ Connected(d)
      BY <1>2
    <3>4. QED
      BY <3>1, <3>2, <3>3
  <2>6. QED
    BY <2>4, <2>5 DEF SubscribersAreLive
<1>6. ASSUME NEW c \in Conns, BeginPass(c) \/ NodeSent(c)
      PROVE  SubscribersAreLive'
  <2>1. Connected(c) /\ Connected(c)' /\ UNCHANGED <<watching, subscribers>>
    BY <1>1, <1>6 DEF BeginPass, NodeSent, ContinuePass, Sending
  <2>2. \A d \in Conns \ {c} : at'[d] = at[d]
    BY <1>1, <1>6 DEF BeginPass, NodeSent, ContinuePass
  <2>3. QED
    BY <1>2, <2>1, <2>2 DEF SubscribersAreLive
<1>7. ASSUME NEW c \in Conns, ClientLeaves(c)
      PROVE  SubscribersAreLive'
  BY <1>2, <1>7 DEF ClientLeaves, SubscribersAreLive
<1>8. QED
  BY <1>3, <1>4, <1>5, <1>6, <1>7
    DEF ConnNext, HandlerStep, IterationBreaks, LastSent, SendFails

LEMMA StreamInvHolds == Spec => []StreamInv
<1>1. Init => StreamInv
  <2> SUFFICES ASSUME Init
               PROVE  StreamInv
    OBVIOUS
  <2>1. /\ phase = [r \in Runs |-> "unknown"] /\ status = [r \in Runs |-> "absent"]
        /\ output = [r \in Runs |-> NoOutput] /\ results = [r \in Runs |-> NoResults]
    BY DEF Init, Run!Init, Run!NoOutput, NoOutput, Run!NoResults, NoResults
  <2>2. Run!TypeOK
    BY <2>1, RunTypes DEF Outputs, NodeResults, NoResults
  <2>3. \A r \in Runs : RunRecord(r)
    BY <2>1 DEF RunRecord, NoResults
  <2>4. Cardinality(Nodes) \in Nat
    BY FS_CardinalityType, WorkflowAssumption
  <2>5. TypeOK
    BY <2>2, <2>4 DEF Init, TypeOK, HandlerState
  <2>6. ~Final("absent") /\ ~Final("none")
    BY DEF Final, TerminalStatus, RunStatus
  <2>7. (\A c \in Conns : Conversation(c)) /\ SubscribersAreLive
    BY <2>6 DEF Init, Conversation, SubscribersAreLive, Sending
  <2>8. QED
    BY <2>3, <2>5, <2>7 DEF StreamInv
<1>2. StreamInv /\ [Next]_vars => StreamInv'
  <2> SUFFICES ASSUME StreamInv, [Next]_vars
               PROVE  StreamInv'
    OBVIOUS
  <2>1. CASE Run!Next /\ UNCHANGED connVars
    <3>1. Run!TypeOK' /\ \A r \in Runs : RecordStep(r)
      BY <2>1, RunSteps DEF StreamInv
    <3>2. \A c \in Conns : Conversation(c)'
      BY <2>1, <3>1, ConversationBesideRuns
    <3>3. TypeOK' /\ SubscribersAreLive'
      BY <2>1, <3>1 DEF connVars, StreamInv, TypeOK, SubscribersAreLive
    <3>4. QED
      BY <3>1, <3>2, <3>3 DEF StreamInv, RecordStep
  <2>2. CASE ConnNext /\ UNCHANGED runVars
    <3>1. \A c \in Conns : Conversation(c)'
      BY <2>2, ConversationSteps
    <3>2. Run!TypeOK'
      BY <2>2 DEF runVars, StreamInv, TypeOK, Run!TypeOK
    <3>3. TypeOK'
      BY <2>2, <3>2, ConnTypesInvariant DEF TypeOK, ConnTypes
    <3>4. \A r \in Runs : RunRecord(r)'
      BY <2>2 DEF runVars, StreamInv, RunRecord
    <3>5. QED
      BY <2>2, <3>1, <3>3, <3>4, SubscribersInvariant DEF StreamInv
  <2>3. CASE UNCHANGED vars
    <3>1. TypeOK' /\ SubscribersAreLive'
      BY <2>3 DEF vars, runVars, connVars, StreamInv, TypeOK, Run!TypeOK, SubscribersAreLive
    <3>2. (\A r \in Runs : RunRecord(r)') /\ \A c \in Conns : Conversation(c)'
      BY <2>3 DEF vars, runVars, connVars, StreamInv, RunRecord, Conversation, IsFinalFor
    <3>3. QED
      BY <3>1, <3>2 DEF StreamInv
  <2>4. QED
    BY <2>1, <2>2, <2>3 DEF Next
<1>3. QED
  BY <1>1, <1>2, PTL DEF Spec
-----------------------------------------------------------------------------
(* The types of the streams.                                               *)
THEOREM StreamTypesHold == Spec => []TypeOK
BY StreamInvHolds, PTL DEF StreamInv

(* ws_manager holds the connections whose handlers run, and no other.      *)
THEOREM SubscribersAreExactlyTheLive == Spec => []SubscribersAreLive
BY StreamInvHolds, PTL DEF StreamInv

(* A client hears of a node after it heard of all the node depends on.     *)
THEOREM StreamsFollowTheDAG == Spec => []StreamFollowsDAG
<1>1. StreamInv => StreamFollowsDAG
  <2> SUFFICES ASSUME StreamInv, NEW c \in Conns, NEW n \in seen[c], NEW p \in Preds[n]
               PROVE  p \in seen[c]
    BY DEF StreamFollowsDAG
  <2>1. n \in Nodes
    BY DEF StreamInv, TypeOK
  <2>2. p \in Nodes /\ Level[p] < Level[n]
    BY <2>1, WorkflowAssumption
  <2>3. QED
    BY <2>2 DEF StreamInv, Conversation
<1>2. QED
  BY <1>1, StreamInvHolds, PTL

(* execution_done, unless it says CANCELLED, is true and comes last.       *)
THEOREM DoneMessagesAreComplete == Spec => []DoneIsComplete
<1>1. StreamInv => DoneIsComplete
  <2>1. TypeOK => \A c \in Conns : doneStatus[c] \notin {"none", "CANCELLED"} => Final(doneStatus[c])
    BY DEF TypeOK, Final
  <2>2. QED
    BY <2>1 DEF StreamInv, Conversation, IsFinalFor, DoneIsComplete
<1>2. QED
  BY <1>1, StreamInvHolds, PTL
=============================================================================
