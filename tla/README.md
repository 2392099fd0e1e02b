# A verification project for mini-agent-orchestrator

TLA+ models of the orchestrator in `src/src/agent_orchestrator/`, the TLC runs
that check them on small instances, and theorems proved with TLAPS: about the
execution manager, the status streams and the service for every workflow, any
number of concurrent runs, connections and permits; about the DAG engine for every
request; about the data resolver for values of any depth; and about the DynamoDB
registry and workflow store for any number of requests in progress. Every safety
property that a run checks is proved.

File names below are relative to `src/src/agent_orchestrator/`.

## 1. The system

The service executes *workflows*: DAGs whose nodes are calls of HTTP agents. Each
instance of it is one Python process on one asyncio event loop, so control changes
hands only at an `await`; everything between two awaits is atomic, and everything
across one is not. Instances that are configured for DynamoDB share its tables.

| Part | State | Operations | Talks to |
|---|---|---|---|
| Execution manager `execution/manager.py` | `_runs`, `_cancel_events`, one `Semaphore(max_concurrency)` for all runs | `start_run`, `cancel_run`, `get_run`, the level loop, `gather` per level, `wait_for` around a run | DAG engine, registry, data resolver, node runner |
| Run model `models/execution.py` | an `ExecutionRun`, replaced on every status change by a *shallow* copy: all copies share one `node_results` dict | `compute_status`, aggregate output | read by API and streams |
| Node runner `execution/runner.py` | none between calls | `run`: attempts, retries, exponential backoff; `_invoke_agent` | the agents, over HTTP |
| Data resolver `execution/data_resolver.py` | none | `resolve`: `input_mapping` paths into the input and into earlier outputs | reads `node_results` |
| DAG engine `dag/engine.py` | none | `validate`, `compute_levels` (Kahn) | called by the workflows API and by the manager |
| Status stream `api/ws.py` | `ws_manager._connections`; per handler `seen_nodes` | `execution_ws`: connect, poll, send, disconnect | polls `get_run` |
| Executions API `api/executions.py` | none | one manager call per handler | manager, workflow store |
| Agent registry `registry/` | agents: a dict, or a DynamoDB table | register, get, list, update, delete, heartbeat | agents API, manager |
| Agents API `api/agents.py`, `api/schemas.py` | none | one or two registry calls per handler; PATCH takes the status as any string | registry |
| Workflow store `storage/`, `api/workflows.py` | workflows: a dict, or a table | create (validate, check, save), get, list, delete | DAG engine, executions API |
| Metrics, `main.py`, `config.py` | counters that nothing increments; settings | start-up wiring | all |

### What is hard about it

* `start_run()` and `cancel_run()` of several clients interleave at every await,
  both replace the record in `_runs`, each from a copy of its own.
* `gather()` returns early on the first exception and leaves the siblings running;
  the deadline cancels it at any await; a cancelled node unwinds through
  `finally` blocks while holding its permit. One semaphore is shared by all of
  this, over all runs.
* Retry loops sleep while the run is cancelled or times out.
* The stream reads the status once per pass and then awaits sends in the middle
  of iterating over a dict that the manager grows.
* `update()`, `heartbeat()` and `delete()` over DynamoDB, and `create_workflow()`, are
  a read and a write with an await in between; the read may be of a replica that
  lags, the instance may stop before the write, and the answer to a write may be
  lost and the write sent again.
* Agents are patched and deleted while nodes that have looked them up are retrying.
* A PATCH stores its status unvalidated. In memory it is then a `str` without
  `.value`; in the table it may be a text that no later read accepts.

### What makes each part correct

* **Manager**: nodes are dispatched in dependency order, once, and never after a
  cancel; permits are conserved and come back; a run returns; the record it
  returns is final, consistent with its results, and explained by what happened.
* **DAG engine**: accepts exactly the DAGs, ends on cyclic requests, and produces
  levels that partition the nodes, point forward and are as early as possible.
* **Stream**: what a client is told follows the DAG, `execution_done` is the whole
  truth, handlers end and leave no registration behind.
* **Registry**: the table changes as the atomic operations of `registry/base.py`
  would change it, and when it does not, that is because of a stale read.
* **Store**: no creation replaces a workflow; without a race the answers are the
  expected ones; only validated definitions are ever run.
* **Manager and registry together**: an agent that is not available during a run
  takes no part in it, and a deleted one is left alone in the end.
* **Resolver**: a path denotes the same value whichever node asks for it, and
  fails in the announced way when there is none.

`PROJECT.json` lists the hazards one by one, each at its line and with the
properties that watch it.

## 2. The modules

```
RunModel ──┬── RunLifecycle <──── implements ──── ExecutionManager ── MCManager
           │        └── INSTANCE in                 │   └── ExecutionManagerProofs
           │            ExecutionStream ── MCStream │        └── ExecutionRecordProofs
           │              └── ExecutionStreamProofs │             └── ServiceProofs
           └── WorkflowAssumption: what the levels  └── Service ── MCService
               of DAGEngine ── MCDAGEngine satisfy         │ (also INSTANCE AgentRegistry)
                    └── DAGEngineProofs                    │
                                                           │
AgentModel ──┬─────────────────────────────────────────────┘
             ├── AgentRegistry <── follows, unless stale ── DynamoRegistry ── MCRegistry
             │                                                └── DynamoRegistryProofs
WorkflowCatalog <──── implements ──── WorkflowStore ── WorkflowStoreProofs

DataResolver ── MCResolver       (what a mapping needs, used by ExecutionManager)
     └── DataResolverProofs
```

**RunModel**: the data of a run. A `NodeResult` is reduced to what the manager
tells apart: `"failed"`, or completed with a non-empty dict (`"data"`), an empty
dict (`"empty"`) or `null` (`"null"`); the last three differ in the aggregate
output and in whether a reference into them resolves. `output` is the set of the
dicts it holds (`{}` for `None`), a dict being the set of its keys. The workflow
is `Nodes`, `Level`, `Depth` and `Preds`.

**RunLifecycle**: the abstract specification, of what readers of `_runs` may rely
on: `Open`, `Record` a whole level, `MarkCancelled`, `Close` exactly once.

**ExecutionManager**: `execution/manager.py` and `execution/runner.py`. An action is
the code between two awaits, and a program counter says at which await each
coroutine is suspended:

| State | Code |
|---|---|
| `pc[r]` | `start_run()` with the task `wait_for()` makes of `_run_levels()` |
| `task[r][n]` | the task `gather()` makes for node `n`: waiting for the semaphore, in `registry.get()`, in the HTTP call, in backoff, unwinding a cancellation, or how it ended |
| `yielding[c]` | the `cancel_run()` that client `c` is inside of, at its `sleep(0)` |
| `status`, `output`, `results` | the record in `_runs`, and the `node_results` shared by every copy of it |
| `cancelEvent`, `permits`, `retriesLeft`, `level` | `_cancel_events`, the semaphore's value, the attempts left, the loop variable |

| Actions | Code |
|---|---|
| `StartRun` | `start_run()` up to `wait_for()` |
| `StartLevels`, `CollectLevel`, `EnterLevel` | `_run_levels()`: first entry; after a `gather()`: store, stop on an all-failed level, test the cancel event, dispatch |
| `PropagateError` | the first exception of a node comes out of `gather()` |
| `Timeout`, `Unwind` | the timer of `wait_for()`: cancel what can still be cancelled, wait for it to end |
| `FinishRun`, `FinishTimeout`, `FinishFailed` | the three ends of `start_run()` |
| `AcquirePermit`, `AgentUnavailable`, `LookupRaises`, `ResolveFails`, `Invoke` | `_execute_node()` |
| `AttemptSucceeds`, `AttemptFails`, `AttemptRaises`, `BackoffEnds` | `NodeRunner.run()` |
| `RequestCancel`, `CompleteCancel` | `cancel_run()` before and after its `sleep(0)` |

**DAGEngine**: `validate()` and `compute_levels()` on arbitrary requests (repeated ids,
unknown endpoints, repeated edges, self-loops, cycles). One turn of the `while`
loop is one step, so that the loop invariant can be stated.

**ExecutionStream**: `execution_ws()` and the connection manager, beside
`RunLifecycle` for the runs. A handler is suspended in `accept()`, in one of its
four kinds of send, or in `sleep()`.

**AgentModel, AgentRegistry**: an agent is its status (one of `AgentStatus`, or
`"unknown"` for any other string that a PATCH may store), its endpoint, standing for
the fields a PATCH may set, and whether it was ever heard from. `AgentRegistry` is the
contract: a table in which `Register`, `Update`, `Delete` and `Heartbeat` take effect
at once. It is also the model of `registry/memory.py`, whose operations contain no
await.

**DynamoRegistry**: the same operations over a table, for requests of any number of
instances. `Register` is one conditional put. The others are `StartUpdate`,
`StartHeartbeat`, `StartDelete`, which read, and `Finish`, which writes the whole item
without a condition, or `Fail`, when the second call raises or the instance stops.
`op[c]` holds what request `c` has read and is going to write. `Replicate` brings the
replica up to date that reads without `ConsistentRead` may be answered from.

**WorkflowCatalog, WorkflowStore**: the catalog is a table with atomic `Create` and
`Remove`. The store is `create_workflow()` (`CheckExisting`, then `Save` or
`SaveConflicts`), `delete_workflow()` (`StartDelete`, `FinishDelete`), and the lookup of
`start_execution()`. A `Save` whose answer is lost leaves its request to send the put
again.

**DataResolver**: `resolve()` key by key: `BeginPath`, `FollowKey`, `EndPath`, `Return`.
JSON values are objects with a kind, and fields or items; a path is the sequence of its
parts. `Denotes` is the reference definition, which names no algorithm.

**Service**: `ExecutionManager` and `AgentRegistry` side by side, with the agents API.
What the manager leaves open at a lookup (`AgentUnavailable`, `LookupRaises`, or going
on) is decided by the agent's state. `bare` records whose status a PATCH made a plain
string; `fit[r]` (history) who was available at some moment of run `r`.

**MCManager, MCDAGEngine, MCStream, MCRegistry, MCResolver, MCService** hold the
constants of the runs. The theorems are in **ExecutionManagerProofs**,
**ExecutionRecordProofs** (what a returned record says, and the refinement),
**ServiceProofs**, **DAGEngineProofs**, **ExecutionStreamProofs**,
**DataResolverProofs**, **DynamoRegistryProofs** and **WorkflowStoreProofs**.

Definitions named for a mistake (`LoopEndsLate`, `StoredWithoutFailures`,
`UnwindKeepingPermit`, ...) stand just before the definition they are a wrong
variant of, and are used by no specification. Substituted for it, each makes a
property fail; `PROJECT.json` pairs them (`mutants`).

### How asyncio is modelled

The runtime is that of the Dockerfile, Python 3.11.

* `wait_for()` runs its coroutine in a task of its own, so there is an await
  between the record being stored and the first level (`"spawned"`). From Python
  3.12 on it does not, and that state disappears.
* When the deadline passes with the outcome of `gather()` already settled (all
  nodes ended, or one raised), cancelling reaches no node, and the results of that
  level are lost, because `_run_levels()` is never resumed normally.
* `gather()` is settled by the first of its children that ends cancelled, so
  `FinishTimeout` does not wait for all of them to unwind.
* Children of a `gather()` that raised are not cancelled: they go on, wait for
  permits and call agents after the run has returned.

### How DynamoDB is modelled

As `src/` uses it: `put_item` and `delete_item` take effect at once, a condition is
evaluated on the current item, and `get_item` may answer from one replica that is any
time behind. A replica that lags in several ways at once would add nothing to what a
single read can return, except older items still; `ContractUnlessStale` excuses those
in the same way. Serialisation is not modelled. One thing about it is worth knowing: an
item holds a Python float (`timeout_seconds`), which the mocks of the tests accept and
boto3's serializer does not.

Where the model of the manager is deliberately looser than the code:

* Any waiter may take a free permit; the semaphore's FIFO order is one choice.
* `sleep(0)` may last any number of steps; it is exactly one turn of the loop.
* `registry.get()` always suspends, as with DynamoDB; the in-memory one does not
  (`Service` decides a lookup in one step, when the agent's state is read).
* A send may take any time, or none.

All four add behaviours: the invariants hold a fortiori, and the counterexamples
under `violation` runs below need none of them, except that a send has to be able
to suspend (as under backpressure from a slow client) in `stream_broken`.

## 3. The runs

| Run | Instance | What it shows |
|---|---|---|
| `manager_join` | one run, `a, b -> c`, `c` reads `a`; 2 permits; up to 1 retry; two cancelling clients | the safety properties of the manager within a run, `RunsReturn`, and refinement of `RunLifecycle` |
| `manager_shared` | two runs of `a`, `b` side by side, `b` reading `a` without an edge; **one** permit for both runs; one retry; one client | permits across runs and orphans, stray mappings, and `PermitsReturn` |
| `dag` | all requests of up to 3 ids and 2 edges on 3 ids, and all lists of up to 4 edges on 4 nodes | the DAG engine |
| `stream` | two connections to a run of a chain of two | the stream |
| `registry` | one agent, two endpoints, two requests in progress, a lagging replica, PATCH bodies with and without a known status | when the table departs from the contract; what an unknown status does |
| `workflows` | one id, two valid definitions and a cyclic one, three requests in progress, lost answers | the store implements the catalog; only races give unexpected answers |
| `resolver` | all paths of up to 3 parts and longer references to outputs, alone and in pairs, over nested dicts and lists | `resolve()` against the meaning of a path |
| `service` | one run of `a`, `b` side by side, an agent each; one permit; up to one retry; one client | the manager while agents are registered, patched, heard from and deleted |
| `manager_cancelled`, `stream_broken`, `stream_pending`, `service_inactive` | chain or pair, one run, one client | four disagreements between documentation and code (section 5) |

The properties, and why each is not obvious:

* `PermitsConserved`: seven ways out of the semaphore, across runs, cancellation
  and exceptions included.
* `DispatchDiscipline`, `PredecessorsFirst`: the order of dispatch and the contents of
  `node_results` are maintained by different code and must agree at every step.
* `NodesRunOnce`, `ReturnedIsFinal`: nothing an orphan or a sleeping `cancel_run()`
  does later may touch what is recorded. They rely on `compute_status()` never
  answering `RUNNING`, and on `cancel_run()` reading the record again.
* `NoLevelAfterCancel`: the event is read once per level, in the same step that
  dispatches.
* `SkippedNodesExplained`, `CompletedIsComplete`, `OutputIsAggregate`: what the record
  says about the run, given that `CANCELLED` may have been written in between.
* `NoOrphansUnlessRaised`: exactly one way to leave nodes running.
* `SuccessHasItsInputs`: `input_mapping` is not validated against the edges; a node
  that refers to a node of its own or a later level cannot succeed.
* `RunsReturn` (liveness): a run returns though agents may never answer.
* `PermitsReturn` (liveness): when they do answer or time out, all permits come back,
  those of orphans included.
* `ImplementsLifecycle`: the refinement; `ExecutionStream` rests on it.
* `InDegreeCountsPending` is the loop invariant of Kahn's algorithm; `LevelsPartition`
  and `EdgesGoForward` are what the manager assumes (`WorkflowAssumption`);
  `LevelsTight` says that the parallelism is maximal; `AcceptsExactlyDAGs` compares
  with a definition of a DAG that uses no algorithm; `Terminates`.
* `SubscribersAreLive`, `StreamFollowsDAG`, `DoneIsComplete` and `StreamsEnd` for the
  stream. `DoneIsComplete` is about a status that is stale by the time it is used.
* `ContractUnlessStale` names the only way in which an update or a heartbeat is lost, a
  deleted agent comes back or a re-registered one is replaced: a write on a stale
  read. Everything else that requests do to each other's items is as if atomic.
* `UnreadableIsForever`: every operation reads first, and reading validates; so an item
  with an unknown status can be neither mended nor removed, and its id stays taken.
* `ImplementsCatalog`, `OnlyRacesSurprise`: the conditional put makes the check before
  it redundant for the table, but not for the answers: without a race no request
  runs into the `ValueError` that `create_workflow()` does not catch, and no deletion
  removes another workflow than the one it found.
* `LaunchedWereStored`: stale reads and races included, a run executes a definition that
  was validated and stored under the id.
* `ResolvesWhatPathsDenote`, `FirstFailureDecides`: indices from either end, keys that are
  numbers in a dict, wrong kinds on the way, and which exception comes first;
  `NeedsNonEmptyOutput` is what `ExecutionManager` takes from the resolver.
* `UnavailableTakeNoPart`, `NothingWithoutAgents`, `DeletedAgentsAreReleased`: the agent is
  read once and serves all retries, also those of nodes that go on after their run.

### Bounds

* Three nodes in two levels have a node with siblings, a node with two
  predecessors, and a level after a partly failed one; the level loop has no
  state that a third level would add, and the theorems cover all depths.
* Two runs and one permit are the smallest instance with contention between runs
  and with a run that returns while its nodes wait.
* Two clients can both be inside `cancel_run()` of one run.
* One retry gives every path through the retry loop; the budget only counts down.
* 4 nodes and 4 edges contain diamonds, chains, repeated edges, and cycles with
  and without a way into them.
* Two connections share one registration list; a chain of two grows the dict twice.
* Agents, and workflows, do not interact with each other, so one id is enough; two
  requests are a race, and with one more (or a registration, which is one call) the
  id is deleted and taken again between the two calls of another. A creation, a
  deletion and another creation need three in the store.
* The resolver looks at one key at a time: a dict and a list inside one another, each
  also empty, reached from both roots, with an index inside, from the end and outside,
  give every case of `_traverse()`; two parameters give the order of failures.
* Two nodes, one permit and one retry give the service a node that waits, one that
  retries, and one that goes on after an exception ended the run.

`CHECK_DEADLOCK FALSE` wherever runs, a request or a call end: with finitely many of
them the system comes to rest. `registry` and `workflows` check for deadlock. There are no state constraints, and no symmetry, since most runs check
liveness or action properties.

### Fairness

* `ExecutionManager!Spec`: weak fairness of the driver of each run, of the timer of
  `wait_for()`, of unwinding (`finally` blocks that close an HTTP client) and of the
  resumption of `cancel_run()`: the event loop resumes whatever is ready. Nothing
  is assumed of agents, of retries or of callers.
* `AnsweredSpec` adds weak fairness of the steps of each node, for `PermitsReturn`
  only: `httpx` is given a timeout for every attempt, backoff is a finite sleep, and
  the semaphore is first come, first served.
* `ExecutionStream!Spec`: a handler's sends and sleeps end, and a run is closed
  (`RunsReturn`). Nothing is assumed of clients.
* `DAGEngine!Spec`: the code runs on.
* `ServiceSpec`: as `AnsweredSpec`, with the weak fairness of a run's driver and timer
  taken together. Nothing is assumed of those who use the agents API; the leads-to
  holds also when the agent is registered anew or not.
* The registry, the store and the resolver are checked for safety only.

## 4. What is proved

### The manager

`ExecutionManagerProofs`, from `WorkflowAssumption` (levels are a partition in which
edges go forward: proved of the DAG engine below) and
`ManagerAssumption` (finitely many runs, at least one permit):

| Theorem | Property |
|---|---|
| `TypeCorrect` | `TypeOK` |
| `DispatchIsDisciplined` | `DispatchDiscipline` |
| `PredecessorsAreFirst` | `PredecessorsFirst` |
| `NodesRunAtMostOnce` | `NodesRunOnce` |
| `CancelStopsDispatch` | `NoLevelAfterCancel` |
| `ReturnedRecordIsFinal` | `ReturnedIsFinal` |
| `PermitsAreConserved` | `PermitsConserved` |

The argument. `PredecessorsFirst`, `NodesRunOnce` and `NoLevelAfterCancel` are not
inductive: whether the next level may overwrite a task depends on where the loop
is and on which results are stored. `DispatchDiscipline` is the strengthening: a
node has a task exactly when its level was reached, `node_results` holds what the
tasks returned, and it holds all the levels below while a level runs. Every node
step is reduced by `NodeStepEffect` to one change of one task and of the permits,
so that the ten node actions are analysed once (`NodeStepFrame` draws the
consequences). `EnterLevelDiscipline` and `StoredDiscipline` do the same for the
level loop. `ReturnedIsFinal` needs the further invariant `ReturnedNotRunning`, and
`PermitsConserved` the library's facts on cardinality. Each theorem is then
`Init`, one step per action, and PTL.

`ExecutionRecordProofs`, from the same assumptions:

| Theorem | Property |
|---|---|
| `SkipsAreExplained` | `SkippedNodesExplained` |
| `CompletedMeansComplete` | `CompletedIsComplete` |
| `OutputIsThatOfResults` | `OutputIsAggregate` |
| `OrphansComeFromErrors` | `NoOrphansUnlessRaised` |
| `SuccessNeedsItsInputs` | `SuccessHasItsInputs` |
| `RefinesLifecycle` | the safety part of `ImplementsLifecycle`: `Lifecycle!Init`, and every step is a `Lifecycle!Next` or a stutter |

The argument. What a returned record says depends on which of the three ends of
`start_run()` wrote it, so the invariant is `RunOutcome`: one conjunct for each place on
the way to an end (`levelsdone`, `unwinding`, `failing`), and for a returned run the
disjunction `EndsWithLevels`, `EndsWithTimeout`, `EndsWithError`. After that nothing
disturbs it: `Undisturbed` says what a step leaves of a run that it does not drive, and
`NodeStepLive` that a node that has ended, or unwinds, is not revived. The first four
theorems read their property off it. `SuccessHasItsInputs` is not inductive: a node that is
invoking its agent must be known to *have had* its inputs (`InputsHeld`), that they are
of earlier levels follows because results fill level by level (`RecordedIsPrefix`), and
that they are still there because results only grow (`ResultsOnlyGrow`). The refinement
has a lemma for each kind of step: `OpenRefined`, `RecordRefined`, `CloseRefined`,
`MarkCancelledRefined`, and `PhaseUnchanged` for all the steps that a reader of `_runs`
does not see.

### The service

`ServiceProofs`, from these assumptions and those of `AgentModel` and `Service`:

| Theorem | Property |
|---|---|
| `ServiceRefinesManager` | `ServiceSpec => Init /\ [][Next]_vars`: what the registry decides, the manager alone left open |
| `UnavailableHaveNoPart` | `UnavailableTakeNoPart` |
| `NothingComesFromNoAgents` | `NothingWithoutAgents` |

`ServiceRefinesManager` makes every safety theorem about the manager one about the
service, however agents are patched and deleted meanwhile. `NothingWithoutAgents` then
follows from `UnavailableTakeNoPart` with `RunOutcome` and `DispatchDiscipline`: without
a success in `node_results`, `compute_status()` has nothing else to answer.

### The DAG engine

`DAGEngineProofs`, for every request (repeated ids, unknown endpoints, repeated edges,
cycles), from the assumption of `DAGEngine` that requests are finite:

| Theorem | Property |
|---|---|
| `SortTypesHold` | `TypeOK` |
| `InDegreesArePending` | `InDegreeCountsPending` |
| `LevelsArePartition` | `LevelsPartition` |
| `EdgesLeadForward` | `EdgesGoForward` |
| `LevelsAreTight` | `LevelsTight` |
| `ValidateAcceptsExactlyDAGs` | `AcceptsExactlyDAGs` |
| `LevelsMeetWorkflowAssumption` | the levels of a valid workflow satisfy `WorkflowAssumption`, the hypothesis of all theorems about runs |

The invariant is `SortInv`. To the loop invariant on `in_degree` it adds that what is in
the queue was freed by the last level (`QueueTight`), that levels are disjoint and
`sorted_count` counts what is in them (`LevelsDisjoint`, `CountsPlaced`), and that
there is no cycle among the nodes that have levels (`PlacedAcyclic`: every set of them
has a node that no edge from the set enters). At the end, when the queue ran empty
before all nodes were counted, each node left has a predecessor that is left as well,
which is a cycle; and when all were counted there is none.

### The status stream

`ExecutionStreamProofs`, from `WorkflowAssumption` and the assumption of
`ExecutionStream`, beside any run that follows `RunLifecycle` (as the manager does, by
`RefinesLifecycle`):

| Theorem | Property |
|---|---|
| `StreamTypesHold` | `TypeOK` |
| `SubscribersAreExactlyTheLive` | `SubscribersAreLive` |
| `StreamsFollowTheDAG` | `StreamFollowsDAG` |
| `DoneMessagesAreComplete` | `DoneIsComplete` |

The invariant `StreamInv` has two sides. `RunRecord`: a run that is not closed has no final
status, and results fill level by level. `Conversation`: what was sent is a part of
`node_results` that ends within a level, and a final status that was read stays the
status. That is why a status read before the sends is still true after them, and why
nothing is left to send when it is final; `CANCELLED` is not, and `DoneIsComplete`
excludes it.

### The resolver

`DataResolverProofs`, from `ValuesAssumption` (entries and elements are values; `int()`
yields integers; a path has at least one part, as `split(".")` always gives one):

| Theorem | Property |
|---|---|
| `ResolverTypesHold` | `TypeOK` |
| `PayloadIsWhatPathsDenote` | `ResolvesWhatPathsDenote` |
| `FirstBadPathRaises` | `FirstFailureDecides` |
| `OutputIsNeeded` | `NeedsNonEmptyOutput` |

The invariant is `ResolverInv`; its core, `Following`, says that the keys still to follow
are a rest of the path, and that the keys before them lead from the root to `current` and
to nothing else (`Reached`). That they lead to nothing else would need induction over the
path; carrying it in the invariant replaces that induction by the steps of the
traversal (`ReachedFurther`). `EntryIsChild` is the one lemma about Python's indexing:
`Entry` computes the child that `Child` describes, from either end of a list. When a key
has no entry, no longer way leads anywhere (`NothingBeyond`), which decides both that
the path denotes nothing and where a `ValueError` may come from (`KeylessFails`,
`RootlessFails`).

### The registry and the store

`DynamoRegistryProofs`, from `PatchesAssumption` and the assumptions of `AgentModel` (the
markers for "no agent" and "left out" are not data):

| Theorem | Property |
|---|---|
| `TypeCorrect` | `TypeOK` |
| `TableFollowsContract` | `ContractUnlessStale` |
| `UnreadableStays` | `UnreadableIsForever` |

`WorkflowStoreProofs`, from `StoreAssumption`:

| Theorem | Property |
|---|---|
| `TypeCorrect` | `TypeOK` |
| `RunsAreOfStored` | `LaunchedWereStored` |
| `SurprisesAreRaces` | `OnlyRacesSurprise` |
| `StoreIsCatalog` | `ImplementsCatalog`: the whole refinement, `Spec => Catalog!Spec` |

The argument for the registry: a request between its calls is about to write what its
operation makes of what it read (`WritesFromReads`, the inductive invariant); if that is
still what the table holds, the write is the contract's operation. `UnreadableStays`
needs no invariant beyond the types: `UnreadableStep` shows, action by action, that
nothing can start on, or finish, an item nobody can read. For the store,
`StoredAreValid` (whatever can be read was stored, and whatever is stored or about to be
is valid) gives both `RunsAreOfStored` and the `Valid` in `Catalog!Create`;
`OnlyRacesSurprise` is inductive as it stands, `AfterSaveEffect` saying what one put does
to the requests of others.

### Only model-checked

Liveness, since ENABLED is out of the prover's reach: `RunsReturn`, `PermitsReturn`,
`Terminates`, `StreamsEnd`, `DeletedAgentsAreReleased`, and the fairness that
`Lifecycle!Spec` adds to the refinement (`ImplementsLifecycle` as a whole is checked by
`manager_join`, its safety part is `RefinesLifecycle`). That the four `violation` runs
violate their property is TLC's as well.

## 5. Where code and documentation disagree

Each of the first four is a run that TLC must find violated. The first, the second and
the fourth were also reproduced on the real code with stub agents (the second as the
record `PENDING`).

1. **A cancelled run does not stay cancelled** (`manager_cancelled`).
   `cancel_run()` stores `CANCELLED`; when the level loop then ends, `start_run()`
   stores the status computed from the results, so the run ends `COMPLETED`, or, as in
   the shortest counterexample, `PENDING`, when it has none.
2. **A run cancelled before its first level ends as `PENDING`, and its stream never
   ends** (`stream_pending`): `PENDING` is not a terminal status for `ws.py`.
3. **A stream can break off** (`stream_broken`): the handler iterates over the live
   `node_results` and awaits inside the loop; a level stored meanwhile ends the
   stream with a `RuntimeError` and without `execution_done`.
4. **An agent that was PATCHed to be inactive fails the whole run**
   (`service_inactive`): the status is then a `str`, `agent.status.value` raises, and
   the exception ends the run instead of failing the node. The property is about nodes
   whose agent is unavailable at the lookup, and no node of the instance has a mapping, so
   that the counterexample is this and not the resolver's `ValueError` below.

Further behaviour that the models contain and that a reader of the docs may not expect:

* A cancelled run keeps retrying: the retry loop does not know of the cancel event,
  although "running nodes complete their current attempt" (`manager.py:151`). No property
  forbids it: the ones about cancelling say that no level is dispatched any more and that
  the record stays consistent.
* The deadline drops the results of nodes that ended in a level still running,
  although "partial results are preserved" (`Timeout` in `ExecutionManager`).
* The `ValueError` of `int()` on a list index escapes `resolve()`, whose docstring
  announces `DataResolverError` only (`data_resolver.py:43`), and ends the run.
  `FirstFailureDecides` does not ask for that: it would hold as well if the exception
  were wrapped. It says that nothing else escapes.
* An unknown status makes an agent's item unreadable for good (`UnreadableIsForever`);
  listing the agents then fails for all of them.
* Concurrent PATCHes and heartbeats overwrite each other, and may bring a deleted agent
  back (`ContractUnlessStale` says exactly when).
* In a creation race, or after a lost answer, the client gets an unhandled `ValueError`
  and not a 409 (`SaveConflicts`).

## 6. What is not modelled

* Payloads, timestamps, durations, log lines, HTTP status codes.
* Cancelling the task of `start_run()` from outside (it happens at shutdown only,
  when the in-memory record goes too).
* A node that raises in the same turn of the event loop in which the deadline passes. The
  model settles `gather()` at once, so that the siblings go on; in the code `gather()` may
  hear of it one turn later, and the siblings are cancelled.
* An exception of the HTTP client while it is closed during a cancellation
  (`aclose()`), and one of `accept()` in a stream that has not begun.
* A put that is sent again because its answer was lost, other than in `Save` of
  `WorkflowStore`.
* `_runs` and `_cancel_events` grow for ever: no bounded instance shows it.
* `list_agents()` and `list_workflows()`, which only read, by one scan that does not
  follow its pages; the other read-only handlers.
* `broadcast()` and `has_subscribers()` of the connection manager, which nothing in the
  service calls.
* Metrics: declared and exported, but nothing increments them.
* `main.py` and `config.py`: wiring, no state changes after start-up.
* SQS and Step Functions, which only the docs mention.
* The conversion between models and DynamoDB items, apart from the validation of the
  status (see the note on floats in section 2).

## 7. Plan

Done: the models of the manager, the DAG engine, the stream, the registries, the store,
the resolver and the service, and the theorems of section 4: every safety property of
the passing runs, the refinements, and the link from the DAG engine to the manager.

Left to prove:

1. What holds of a stream over the manager itself, by composing `RefinesLifecycle` with
   `ExecutionStreamProofs` in one specification.
2. That the retries of a node end by their count: the safety half of `RunsReturn` and
   `PermitsReturn`, a variant that every step of a node decreases; likewise for the turns
   of the loop in `compute_levels()`.
3. `UnavailableTakeNoPart` with `DynamoRegistry` in place of `AgentRegistry`, where a
   lookup may read a replica that lags and the statement has to allow for it.
