-------------------------- MODULE ExecutionStream ---------------------------
(***************************************************************************)
(* api/ws.py: the WebSocket handlers that stream runs to clients, beside a *)
(* manager that drives the runs.  Of the manager only what readers of      *)
(* _runs see matters, and that is RunLifecycle, which ExecutionManager     *)
(* implements.                                                             *)
(*                                                                         *)
(* A handler reads the record of its run once per pass and iterates over   *)
(* the live node_results, awaiting a send for each new node: the status it *)
(* goes by is that of the start of the pass, the dict may grow under it.   *)
(*                                                                         *)
(* A definition named for a mistake (OverStillSubscribed, NextAnyUnsent    *)
(* ...) is a wrong variant of the one that follows it, kept to show that   *)
(* the properties tell the two apart.                                      *)
(***************************************************************************)
EXTENDS RunModel

CONSTANTS
  Runs,
  Conns,       \* the WebSocket connections
  NoRun

ASSUME StreamAssumption == NoRun \notin Runs

VARIABLES
  phase, status, output, results,   \* the runs: see RunLifecycle
  at,           \* where the handler of the connection is
  watching,     \* the run_id of its URL
  subscribers,  \* ws_manager._connections
  seen,         \* seen_nodes
  snapshot,     \* the status of the record the current pass reads
  passSize,     \* the size of node_results when the current pass began
  doneStatus,   \* the status execution_done was sent with, or "none"
  clientGone    \* the client closed its end

runVars == <<phase, status, output, results>>
connVars == <<at, watching, subscribers, seen, snapshot, passSize, doneStatus, clientGone>>
vars == <<runVars, connVars>>

Run == INSTANCE RunLifecycle

(* Suspended in accept(), in the send of an error, of connected, of        *)
(* node_completed and of execution_done, in sleep(); and no handler.       *)
Sending == {"refusing", "greeting", "streaming", "closing"}
HandlerState == Sending \cup {"none", "accepting", "sleeping", "over"}

TypeOK ==
  /\ Run!TypeOK
  /\ at \in [Conns -> HandlerState]
  /\ watching \in [Conns -> Runs \cup {NoRun}]
  /\ subscribers \in [Runs -> SUBSET Conns]
  /\ seen \in [Conns -> SUBSET Nodes]
  /\ snapshot \in [Conns -> RunStatus \cup {"absent"}]
  /\ passSize \in [Conns -> 0..Cardinality(Nodes)]
  /\ doneStatus \in [Conns -> TerminalStatus \cup {"none"}]
  /\ clientGone \in [Conns -> BOOLEAN]

Init ==
  /\ Run!Init
  /\ at = [c \in Conns |-> "none"]
  /\ watching = [c \in Conns |-> NoRun]
  /\ subscribers = [r \in Runs |-> {}]
  /\ seen = [c \in Conns |-> {}]
  /\ snapshot = [c \in Conns |-> "absent"]
  /\ passSize = [c \in Conns |-> 0]
  /\ doneStatus = [c \in Conns |-> "none"]
  /\ clientGone = [c \in Conns |-> FALSE]
-----------------------------------------------------------------------------
Connect(c, r) ==
  /\ at[c] = "none"
  /\ at' = [at EXCEPT ![c] = "accepting"]
  /\ watching' = [watching EXCEPT ![c] = r]
  /\ UNCHANGED <<subscribers, seen, snapshot, passSize, doneStatus, clientGone>>

(* accept() returned: the connection is registered, the run looked up, and *)
(* the first message on its way.                                           *)
Accepted(c) ==
  /\ at[c] = "accepting"
  /\ subscribers' = [subscribers EXCEPT ![watching[c]] = @ \cup {c}]
  /\ \/ /\ phase[watching[c]] = "unknown"
        /\ at' = [at EXCEPT ![c] = "refusing"]
     \/ /\ phase[watching[c]] # "unknown"
        /\ at' = [at EXCEPT ![c] = "greeting"]
  /\ UNCHANGED <<watching, seen, snapshot, passSize, doneStatus, clientGone>>

(* finally: ws_manager.disconnect().                                       *)
OverStillSubscribed(c) ==
  /\ at' = [at EXCEPT ![c] = "over"]
  /\ subscribers' =
       IF at[c] = "streaming" THEN subscribers
                              ELSE [subscribers EXCEPT ![watching[c]] = @ \ {c}]
  /\ UNCHANGED <<watching, seen, snapshot, passSize, doneStatus, clientGone>>

Over(c) ==
  /\ at' = [at EXCEPT ![c] = "over"]
  /\ subscribers' = [subscribers EXCEPT ![watching[c]] = @ \ {c}]
  /\ UNCHANGED <<watching, seen, snapshot, passSize, doneStatus, clientGone>>

UnsentCompleted(c) ==
  {n \in Recorded(results[watching[c]]) : results[watching[c]][n] \in CompletedKind} \ seen[c]
Unsent(c) == Recorded(results[watching[c]]) \ seen[c]

(* The dict is in the order the nodes were stored in: level by level.      *)
NextAnyUnsent(c) == Unsent(c)

NextUnsent(c) == {n \in Unsent(c) : \A m \in Unsent(c) : Level[n] <= Level[m]}

EndsStream(st) == st \in TerminalStatus

(* The pass up to its next await: a node that was not sent yet, or else    *)
(* the end of the pass, where the status read at its start decides.        *)
ContinuePass(c, st) ==
  /\ \/ \E n \in NextUnsent(c) :
          /\ seen' = [seen EXCEPT ![c] = @ \cup {n}]
          /\ at' = [at EXCEPT ![c] = "streaming"]
          /\ UNCHANGED doneStatus
     \/ /\ Unsent(c) = {}
        /\ EndsStream(st)
        /\ doneStatus' = [doneStatus EXCEPT ![c] = st]
        /\ at' = [at EXCEPT ![c] = "closing"]
        /\ UNCHANGED seen
     \/ /\ Unsent(c) = {}
        /\ ~EndsStream(st)
        /\ at' = [at EXCEPT ![c] = "sleeping"]
        /\ UNCHANGED <<seen, doneStatus>>
  /\ UNCHANGED <<watching, subscribers, clientGone>>

StatusWhenGreeted(c) == IF at[c] = "greeting" THEN status[watching[c]] ELSE snapshot[c]
CurrentStatus(c) == status[watching[c]]

(* A pass begins: after connected was sent, and after each sleep().        *)
BeginPass(c) ==
  /\ at[c] = "sleeping" \/ (at[c] = "greeting" /\ ~clientGone[c])
  /\ snapshot' = [snapshot EXCEPT ![c] = CurrentStatus(c)]
  /\ passSize' = [passSize EXCEPT ![c] = Cardinality(Recorded(results[watching[c]]))]
  /\ ContinuePass(c, CurrentStatus(c))

DictChanged(c) == Cardinality(Recorded(results[watching[c]])) # passSize[c]

(* node_completed was sent; the iterator goes on in an unchanged dict.     *)
NodeSent(c) ==
  /\ at[c] = "streaming" /\ ~clientGone[c]
  /\ ~DictChanged(c)
  /\ ContinuePass(c, snapshot[c])
  /\ UNCHANGED <<snapshot, passSize>>

(* A level was stored during the send: the iterator raises RuntimeError,   *)
(* which nothing catches.                                                  *)
IterationBreaks(c) ==
  /\ at[c] = "streaming" /\ ~clientGone[c]
  /\ DictChanged(c)
  /\ Over(c)

LastSent(c) ==
  /\ at[c] \in {"closing", "refusing"} /\ ~clientGone[c]
  /\ Over(c)

(* Only a send notices that the client has left.                           *)
SendFails(c) ==
  /\ at[c] \in Sending /\ clientGone[c]
  /\ Over(c)

ClientLeaves(c) ==
  /\ at[c] \in Sending \cup {"sleeping"}
  /\ ~clientGone[c]
  /\ clientGone' = [clientGone EXCEPT ![c] = TRUE]
  /\ UNCHANGED <<at, watching, subscribers, seen, snapshot, passSize, doneStatus>>

HandlerStep(c) ==
  \/ Accepted(c) \/ BeginPass(c) \/ NodeSent(c)
  \/ IterationBreaks(c) \/ LastSent(c) \/ SendFails(c)

ConnNext ==
  \E c \in Conns : HandlerStep(c) \/ ClientLeaves(c) \/ \E r \in Runs : Connect(c, r)

Next ==
  \/ Run!Next /\ UNCHANGED connVars
  \/ ConnNext /\ UNCHANGED runVars

(* Sends and sleeps end, and so does a run.                                *)
Fairness ==
  /\ \A c \in Conns : WF_vars(HandlerStep(c) /\ UNCHANGED runVars)
  /\ \A r \in Runs : WF_vars(Run!Close(r) /\ UNCHANGED connVars)

Spec == Init /\ [][Next]_vars /\ Fairness
-----------------------------------------------------------------------------
(* ws_manager knows a connection exactly from its acceptance to the end of *)
(* its handler, however that ends: nothing is left behind.                 *)
SubscribersAreLive ==
  \A c \in Conns, r \in Runs :
    c \in subscribers[r] <=> watching[c] = r /\ at[c] \in Sending \cup {"sleeping"}

(* A client hears of a node after it heard of all the node depends on.     *)
StreamFollowsDAG ==
  \A c \in Conns : \A n \in seen[c] : Preds[n] \subseteq seen[c]

(* execution_done with any status but CANCELLED is the truth and the whole *)
(* of it: the run is closed with that status, and the client was told of   *)
(* every node in node_results, although the handler read the status before *)
(* it went through the nodes.                                              *)
DoneIsComplete ==
  \A c \in Conns : doneStatus[c] \notin {"none", "CANCELLED"} =>
    /\ phase[watching[c]] = "closed"
    /\ status[watching[c]] = doneStatus[c]
    /\ seen[c] = Recorded(results[watching[c]])

(* A handler ends, unless its run was closed as PENDING.                   *)
StreamsEnd ==
  \A c \in Conns : at[c] = "accepting" ~>
    (at[c] = "over" \/ (watching[c] # NoRun /\ phase[watching[c]] = "closed"
                          /\ status[watching[c]] = "PENDING"))
-----------------------------------------------------------------------------
(* What the documentation says and the code does not do.                   *)

(* The events of a stream are connected, node_completed per node, and      *)
(* execution_done: a client that stays sees the last of them.              *)
StayingClientSeesDone ==
  \A c \in Conns : at[c] = "over" /\ ~clientGone[c] =>
    doneStatus[c] # "none" \/ seen[c] = {}

(* "Poll for updates until execution completes": then every stream ends.   *)
EveryStreamEnds == \A c \in Conns : at[c] = "greeting" ~> at[c] = "over"
=============================================================================
