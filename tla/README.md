# Verification of the A2A TypeScript ADK

TLA+ models of the TypeScript Agent Development Kit (`@inference-gateway/adk`):
the task lifecycle, the task storage, the JSON-RPC handlers that share it, the
default agent loops, and the services around them (MCP client, push sender,
listing, JSON-RPC endpoint, A2A client, artifact stores).
Paths below are relative to the repository (`src/storage/in-memory.ts` is the
package's source file of that name).

## The system

An A2A agent is an HTTP server that turns messages into *tasks*. Everything
runs on one JavaScript thread: a handler runs without interruption up to its
next `await`, and between two awaits any other handler, timer or worker may
run. Shared state lives in four objects that the server builder
(`src/server/server-builder.ts`) creates once and hands to every handler.

| Component | State | Operations | Talks to |
|---|---|---|---|
| task lifecycle (`agent/task.ts`) | none; tasks are immutable values | `createTask`, `transitionTask`, the predicates on states | everybody |
| task storage (`storage/task-storage.ts`, `in-memory.ts`, `retention.ts`) | active map, dead-letter map, context index, FIFO queue, line of waiting dequeuers, push configs | enqueue, dequeue (abortable), removeFromQueue, createActive, updateActive, storeDeadLetter, deleteContext, the two clean-ups, push config CRUD | called by every handler and worker |
| Redis storage (`storage/redis.ts`) | the same, mirrored in Redis | the same, with a BRPOP loop and hydration | Redis, other instances |
| SendMessage (`server/message-send.ts`) | per request: the last snapshot seen | create or resume a task, enqueue it, poll until it settles | storage |
| SendStreamingMessage (`server/message-stream.ts`) | per request: its own snapshot of the task, an abort controller, an SSE writer, an event bus | run an executor, persist what it yields, finish, clean up | storage, both registries, the executor |
| CancelTask (`server/task-cancel.ts`) and the cancellation registry | task id -> abort controller | register, unregister, cancel | storage, streams |
| SubscribeToTask (`server/task-resubscribe.ts`) and the event bus (`task-event-bus.ts`) | task id -> bus; listeners, last status | subscribe, publish, close; poll without a bus | streams, storage |
| retention sweep (`storage/cleanup-scheduler.ts`) | a timer | evict dead letters above a cap | storage |
| SSE writer (`server/sse.ts`) | open or closed | emit, close, heartbeat | streams |
| workers (only in `examples/`) | the dequeued snapshot | dequeue, execute, store the result | storage |
| default handlers (`server/default-*-task-handler.ts`, `toolbox.ts`, `agent/callbacks.ts`) | the message history of one run | the loop of completions and tool calls | LLM client, tools |
| push notifications (`server/push-notification-*.ts`) | configs (in the storage), deliveries in flight | config CRUD, deliver with retries to many URLs | storage, webhooks |
| GetTask, ListTasks (`server/task-get.ts`, `task-list.ts`) | none; the cursor travels with the client | keyset pagination | storage |
| JSON-RPC server (`server/jsonrpc.ts`, `server.ts`, `method-registry.ts`) | registered methods | dispatch single calls and batches | all handlers |
| MCP client (`mcp/`) | connected servers, their tools | connect with retry, reconnect, stop | MCP servers, toolbox |
| A2A client (`client/`) | none | calls with timeout and retry | an A2A server |
| artifacts (`artifacts/`) | stored artifacts | store, fetch, retention | disk, S3, HTTP route |
| LLM client, auth, TLS, metrics, telemetry, logging, agent card | configuration | - | - |

Every component is listed in `PROJECT.json`, with what is modelled of it or why
it is not; the hazards are listed there too, each at its line.

### What is hard

* **Interleaving.** A task can be in the hands of a queue entry, a worker, a
  stream and a cancel at once. `SendStreamingMessage` enqueues the task it is
  going to execute itself; the entry stays in the queue for a worker to find.
* **Stale snapshots.** Tasks are immutable values: the queue, a worker and a
  stream each hold their own, and write theirs back after an await.
* **Ordering.** Registries are keyed by task id, and streams on the same task
  register and unregister under the same key. A disconnect closes the SSE
  writer and stops the executor with one and the same event.
* **Failure.** Executors throw, clients disconnect, transitions turn out to be
  illegal and storage calls throw because the task has moved meanwhile.
* **Liveness.** Blocking requests poll, subscribers wait for somebody else to
  close a bus; loops end only by a cap, a timeout or a signal.
* **Concurrency within a run.** The default handlers dispatch all tool calls of
  an answer at once; they share one slot for artifacts, end in any order, may
  throw through callbacks, and an abort may fall at any await.
* **Timeouts and retries.** What timed out may have been served: push updates,
  JSON-RPC calls and dials are repeated, and stop or abort races the repetition.

### What makes each part correct

* storage: the maps, the index and the queue agree; a task is handed to one
  waiter, in order; nothing waits for nothing.
* handlers: a task moves only along its lifecycle, is executed by one party at
  a time, can be cancelled whenever it runs, keeps the messages it accepted,
  and what was answered stays true.
* waiting requests end.
* agent loops: the conversation stays well formed, every stored artifact ends on
  the task, events come in the order of the calls, an abort winds the run down.
* services: retries are bounded and stop at an abort, a page walk misses and
  repeats nothing, answers pair with requests, retention removes just what is
  over the cap, a download goes wrong only by what became of its own file or of
  its own reads.

## Modules

| Module | Models | State and actions |
|---|---|---|
| `TaskLifecycle` | `agent/task.ts` | operators only: the states, the transition table, `createTask`, `transitionTask`. A task is its id, its context, its state and the set of requests whose message is in its history; timestamps, artifacts and metadata are payload |
| `WorkQueue` | the promise of enqueue and dequeue in `task-storage.ts` | abstract specification: a backlog, a line of demands, the outcome of each; whenever both lines are nonempty they are paired, oldest with oldest |
| `TaskStorage` | `InMemoryTaskStorage`, `selectTasksForEviction` | one operator per method, constraining one group of variables (the maps, the queue, the push configs) so that a handler is the conjunction of the methods it calls |
| `StorageClient` | the storage under every legal sequence of calls | `Next` offers every operation to a client that mints each id once, resumes only paused tasks and updates along the lifecycle. `WorkQueueSpec` is `WorkQueue!Spec` under the mapping backlog = queue, demand = waiters, outcome = resolved |
| `TaskStorage_proofs` | - | lemmas on what each storage operation does to types, hand-off, reads and queue entries; used by the proofs about the three modules that build on the storage |
| `StorageClient_proofs` | - | the theorems about `StorageClient` |
| `TaskServer` | the handlers, the two registries, the sweep | one process per request; an action is the code between two awaits |
| `RedisStorage` | `RedisTaskStorage` on one instance | the maps and the local queue of `TaskStorage` as the mirror; what Redis holds (`redis`), the commands sent and not executed (`wire`), the BRPOP loop (`loop`); a ledger of the messages and of the snapshots handed over (`due`, `handed`) |
| `RedisStorage_proofs` | - | the theorems about `RedisStorage` |
| `GuardedSystem` | `TaskServer` with the worker of `examples/tck-sut/server.ts` | the package has no worker of its own; this one drops queue entries whose stored task has moved on |
| `GuardedSystem_proofs` | - | the theorems about `GuardedSystem` |
| `AgentLoop` | what `default-background-task-handler.ts`, `default-streaming-task-handler.ts` and `toolbox.ts` share | the conversation, the usage tracker, the running calls and the artifact slot; `RunTool`, `AfterTool`, `Abort` |
| `BackgroundHandler` | `DefaultBackgroundTaskHandler.handle` | one action per await; the ends of a run are operators that drain the slot onto the task |
| `StreamingHandler` | `DefaultStreamingTaskHandler.handle` | a generator: `out` holds what it yields next, `Pull` is the consumer asking for it, an action runs from a yield or await to the next |
| `McpClient` | `MCPClient` | one dial loop per server, overlapping refresh rounds, `McpStart`, `McpStop` |
| `PushDelivery` | `push-notification-sender.ts`, `push-notification-config.ts` | configs, one delivery per recorded update, its workers, posts and backoffs |
| `TaskListing` | `task-list.ts`, `selectTasksForEviction` | a client's walk through the pages while tasks are created, completed and swept |
| `RpcClient` | `client.ts`, `retry.ts` | a call, its attempts, the requests on the wire and those the agent served |
| `JsonRpcServer` | `jsonrpc.ts`, the POST route of `server.ts`, `method-registry.ts` | an exchange from arrival to answer, its items running concurrently, methods coming and going |
| `ArtifactStores` | the three storage providers, `selectEntriesOverArtifactCap`, `artifacts-route.ts` | stores, removals and one download, request by request |
| `AgentLoop_proofs`, `PushDelivery_proofs` | - | the theorems about these modules |
| `Services_proofs` | - | the theorems about the other services, and about `MCServices`, which runs all six |
| `SequenceLemmas` | - | induction over numbers, folds over positions, sorted sequences and elements that occur once; used by the proofs about Redis, the agent loops and the services |

`MC*` modules instantiate these for TLC; they only add model values and the
symmetry set. `MCAgentLoop` gives a task to one of the two handlers.
`MCServices` puts six modules that share no state side by side; the constant
`Parts` says which may run, and a behaviour runs one of them, so the state space
is the sum of theirs, not the product.

How `TaskServer` follows the code:

* `SendMessage(r)` is the run from the handler's `await` of the reply hook to
  the enqueue; `Poll(r)` a round of `pollTask` that sees a new state.
* `StartStream(s)` is the whole synchronous part of the streaming handler, up
  to the first `await` on the executor: a new task is enqueued as PENDING and
  moved to IN_PROGRESS in the same run, so the queue entry is stale at once.
* `StreamStatus`, `StreamArtifact`, `StreamPauses` and `StreamEventFails` are
  `handleExecutorEvent`; `StreamBreaks` the loop leaving on an aborted signal.
  `EndStream` is everything behind the loop: last transition, its `catch`, and
  the `finally` block (`Release`).
* `ExecutorStopsAtPause` says whether the executor returns right after an
  `inputRequired` event. The package's default streaming handler does; a
  user's executor need not. The runs set it TRUE; under the observations
  stands what happens otherwise.
* A bus is named by the stream that created it; `seen` and `shown` are the last
  status state a subscriber or a streaming client was sent. Deltas, tool events
  and the periodic repetition of the last status change none of it and are left
  out.
* `findResumableTask` picks the paused task with the latest `updatedAt`;
  timestamps are abstracted, any paused task of the context may be it.
* The delay between a dequeue promise being resolved and its worker running is
  a few microtasks; the model lets anything happen in between.

How `RedisStorage` follows the code:

* A write is the method's change of the mirror, by the operators of
  `TaskStorage`, and `execAsync` of the transaction it builds: one record on
  `wire`, which `RedisExecutes` applies atomically (MULTI/EXEC), in the order
  of the one connection.
* `runDequeueLoop` is cut at its awaits: `RedisPops` is the BRPOP on the second
  connection; `LoopFetches`, `LoopDeletes`, `LoopDelivers` and `LoopRestores`
  are the code after each answer, which may come any time after Redis has
  executed the command. A BRPOP that times out (1 s) or fails starts over
  (a stutter) or, without waiters, ends the loop (`LoopStops`).
* `CommandFails` is the catch of the loop, or of `execAsync` for a write; the
  command may have been executed nevertheless. `Crash` drops everything local,
  `Restart` is `hydrate`.
* Every enqueue brings a message `<<id, n>>`, the n-th of its task. A task may be
  enqueued again while its entry is still queued or in the hands of the loop:
  `SendStreamingMessage` leaves the entry behind (`message-stream.ts:352`),
  moves the task on (`Update`, which looks at no queue) and may pause it, and
  `SendMessage` resumes and enqueues it (`EnqueueResumed`). Redis then lists the
  id twice and keeps the later payload under it.
* `due` and `handed` are history variables: what has become of each message, and
  which snapshots workers have got, from the loop or from the fast path of
  `enqueue`. A message is `lost` exactly when a queue entry of its task was under
  way (in a queue command, or held by the loop) at a failure, crash or
  disconnect; it is `raced` when it was enqueued between the HGET of an older
  entry of its task and the end of that iteration, whose HDEL or restore may
  remove its payload. `OwedIsQueued` says that nothing else is ever lost;
  `overtaken_task` shows that a raced one can be.
* The context sets in Redis are never read (`hydrate` rebuilds the index from
  the tasks) and are left out.

How the agent loops follow the code:

* An action of `BackgroundHandler` runs from one await to the next, including
  all it does after the last one: `BatchEnds` is everything from the resolved
  `Promise.all` over the answers and the drained artifacts to the head of the
  next iteration (`LoopHead`), or one of the `finalize*` ends. `Catch` is the
  catch around the whole.
* `StreamingHandler` must distinguish yields from awaits: between two yields
  the consumer may wait for ever, or close the generator (`CloseGenerator`).
  An item marked `guarded` is preceded by a check of the signal in the code.
* A tool call is named by its iteration and its place in the answer. Running it
  comes to "ok" or "failed" (unknown name, wrong arguments, a tool that throws),
  or throws when a callback does; `create_artifact` stores its artifact and
  pushes it on the shared slot in one turn.
* Callbacks are what they do to the run: answer in the place of the agent, the
  model or a tool; replace a result; or throw.
* The conversation keeps roles and calls; texts only decide whether a `delta`
  event precedes the others (`SpeaksBesideCalls` for answers with calls).

How the services follow the code:

* `McpClient`: `connectWithRetry` is cut at the dial, the sleep and the first
  listing. `stop` clears the sessions it finds; a dial in flight is not aborted,
  and `caught` remembers it.
* `PushDelivery`: `deliverTaskUpdate` starts its workers with the listing of
  that moment; a worker that has finished a config takes the next one in the
  same step (`Concluded`). A post that failed or timed out may have been served.
* `TaskListing`: a task has its creation and completion times; the cursor is
  the key of the last task of a page. `owed` is a history variable: what the
  walk promises its client.
* `RpcClient`: `wire` holds requests the network may still deliver, also after
  the client has given up on them.
* `JsonRpcServer`: `Authenticates` is the middleware, `Dispatches` the route up
  to the start of all items (each looks its method up in that turn),
  `Responded` the resolved `Promise.all`.
* `ArtifactStores`: the file system provider opens the file, writes the payload
  and then the sidecar; removal unlinks in the same order, one file after the
  other, and stops at an error, also between the two unlinks of one file. A file
  is stored once, since the service mints its id; a download is a `getMetadata`
  (on a disk a `stat`, then the sidecar), then a `retrieve`, then the reading of
  the body, which opens the file only then. Any of these reads may fail, and
  `download.failed` remembers which did: a failed `stat` or HEAD reads as a
  missing file, an unreadable sidecar as none, a failing body as a response that
  breaks off. A scan of the disk misses what it cannot read.

The definitions called "faulty variant" in comments are plausible bugs of the
definition below them; replacing the definition by its variant must make a
property fail, which shows that the property says something about the code.

## Runs

| Run | Question | Answer |
|---|---|---|
| `storage_client` | does the in-memory storage keep its parts in step and hand out tasks in order, under any legal calls? | yes |
| `guarded_streams` | do the handlers and a guarded worker keep every open task in exactly one pair of hands that CancelTask reaches, keep its history, and never take an answer back? | yes, as long as executors stop at a pause |
| `guarded_live` | are blocking requests answered and subscribers released? | yes, without a retention sweep |
| `redis_crash` | does the Redis storage, with two tasks, or with one that is paused, resumed and enqueued again beside its older entry, and with one failure or crash, keep the mirror in step, hand out no snapshot twice, and lose only what was under way or came while the loop was taking an older payload of the task? | yes |
| `redis_loop` | does the loop serve a waiting worker, with two tasks, or with one that is enqueued again? | yes |
| `agent_loop` | do both default handlers keep conversation, artifacts and events in order, and end with a fitting verdict, whatever tools, callbacks and aborts do? | yes |
| `services` | do the six parts around the task server keep their promises under retries, timeouts, aborts and interleaved changes, and come to an end? | yes |
| `callback_throws` | does a throwing callback only ever fail its own task? | no: two of them, or one after an early return, end the process |
| `revoked_task` | is a cancelled PENDING task kept from the workers on Redis? | no: not once the loop has popped its entry |
| `overtaken_task` | is every message that is enqueued, with no failure at all, queued until a worker gets it, as it is in memory? | no: not one that is enqueued while the loop is taking an older payload of its task |
| `active_terminals` | are terminal tasks dead letters? | no: a task that a stream ends stays active |
| `silent_cancel` | does every stream end with a final status? | no: not when CancelTask ends it |

### Properties

`TypeOK`/`ServerTypeOK` are the type invariants. `HandoffDiscipline`,
`IndexExact`, `OneLocation` and `WorkQueueSpec` are the storage's;
`ExactlyOneOwner`, `CancellationReaches`, `SubscribersFed`,
`TerminalAnswersStand`, `WorkersSurvive` (invariants), `LifecycleRespected`,
`AcceptedMessagesKept` (action properties), `SendersAnswered` and
`SubscribersReleased` (liveness) the server's. `RedisTypeOK`, `MirrorFaithful`,
`OwedIsQueued`, `WaitersAreServed`, `OneLocation` (after restarts, too),
`HandedOnce` (an action property) and `OwedIsHandedOver` (liveness) are the
Redis storage's. `ConversationSound`, `AbortBounded`, `ArtifactsKept`,
`VerdictFits`, `EventsInOrder`, `ArtifactsStreamed` (invariants) and `RunsEnd`
(liveness) belong to the agent loops. Of the services, `DialsSound`,
`DeliveriesSound`, `WalkComplete`, `CallsSound`, `AnswersMatch` and
`DownloadsTrue` are one invariant each; `RetentionExact` compares the two
retention selections (`EvictionExact` for tasks, `CapExact` for artifacts) with
a reference definition; `NoAttemptAfterAbort` is an action property;
`EverythingEnds` collects their liveness (`DialsSettle`, `DeliveriesSettle`,
`CallsEnd`, `ExchangesEnd`, `DownloadsEnd`). Each is stated in words at its
definition.

### Bounds

* `storage_client`: two ids, two contexts, two workers, one push config, caps
  -1, 0 and 1, at most three queue entries (`QueueBound`). Two of each are
  enough for every pairwise interplay (two tasks in one context or in two, one
  served and one waiting worker); three entries of two ids include a repeated
  one. Push configs do not interact with each other.
* `guarded_streams`: two ids, two contexts, a worker, a sender, two streams and
  a subscriber. Two streams are needed for one to resume what the other paused,
  and for the registries to be taken over; with the sender and the worker there
  are four parties for two tasks. The retention cap is 0: every dead letter can
  vanish at any time. Ids and contexts are not recycled, which is what UUIDs do.
* `guarded_live`: no symmetry (liveness), one stream, one sender with an inline
  push config, one subscriber, two ids in one context.
* `redis_crash`: two tasks in one context with two messages each, of which two come
  (`AtMostTwo`): one of each task, or two of one, which is then enqueued, moved
  on, paused and enqueued again wherever its first entry is. A task pauses only
  in the latter case (`PausesAlone`): to the storage a pause is an update like
  any other until the task is resumed, for which two messages of one task are
  needed. One worker is enough for the loop to find no waiter (the fast path of
  enqueue has served it, or it has aborted); two tasks for one to wait behind
  the other, two entries of one for a payload to be replaced, overwritten by an
  entry given back, or found missing. At most two commands are on the wire when
  a write is made (a cancellation sends two), and there is one failure or crash:
  a second one would start from a state that differs from a fresh one only in
  the Redis keys, which one crash already reaches. `redis_loop`: the same
  without failures and symmetry, with the second message for one task. The
  constraints only cut writes off there, of which no fairness is assumed.
* `agent_loop`, `callback_throws`: two iterations, two calls in an answer, a
  history of two messages and a limit of two. Two calls are needed for one to
  end before, or to throw beside, the other; two iterations for the cap, and
  for an answer to a batch to reach the model; the limit of two cuts every
  conversation with tools. An unregistered name, `input_required` and
  `create_artifact` are the three ways a call is treated.
* `services`: two MCP servers, a limit of two dials and two overlapping refresh
  rounds; three push configs for two workers, one retry, one update (updates
  share nothing but the configs); three tasks in two contexts with two
  timestamps, so that keys tie, pages of one or two, caps -1, 0, 1 and none;
  one call with two retries; one exchange with up to three items; two files of
  two artifacts and, for the selection, every set of up to four files with two
  ages. Calls and exchanges do not interact with each other.
* The finding runs use the smallest instance that shows the behaviour.

Every request runs once, so the server comes to rest: deadlock checking is off
in the server runs, on in `storage_client`. A disconnected Redis storage is at
rest as well, so it is off there too, and so it is for agent runs and services,
which end.

### Fairness

`FairSpec` assumes weak fairness of: each worker's loop (it awaits `dequeue`
and the promise is resolved by the event loop), each `Poll` and
`PollSubscription` (timers fire), and the end of each executor
(`StreamReturns` or `StreamThrows`: the executor returns, throws or observes
its aborted signal, which the interface asks of it). Nothing is assumed of
clients: that they send, cancel, subscribe or disconnect. The sweep is not fair
either. For the Redis storage: the continuations of the loop run, and Redis
executes what it was sent and answers BRPOP while the list is nonempty; nothing
is assumed of callers and workers. For the agent loops: the model, the tools and
the callbacks settle (their promises do, by timeout or abort at the latest), and
the consumer of a stream goes on reading; nothing is assumed of the abort. For
the services: dials, posts, requests and reads settle by their timeouts,
backoff timers fire and method handlers end; nothing is assumed of who starts,
stops, aborts, registers or sends. `SendersAnswered` is checked without a sweep because with a cap of 0 the
sweep can remove a finished task between two polls, after which `pollTask`
never ends (it skips rounds that find no task): see the observations.

## Proofs

`StorageClient_proofs` proves, for every choice of the constants:

| Theorem | States |
|---|---|
| `TypeCorrect` | `Spec => []TypeOK` |
| `HandoffCorrect` | `Spec => []HandoffDiscipline` |
| `StoreCorrect` | `Spec => [](OneLocation /\ IndexExact)` |
| `QueueRefines` | `Spec => WorkQueueSpec`: the queue, the waiters and the hand-off implement the abstract work queue |

Assumed are `NoTaskAssumption` and `NoContextAssumption`: the values that stand
for *no task* and *no context* are not tasks or contexts.

`HandoffDiscipline` is inductive given the types: an enqueue that finds a waiter
takes it out of the line before it is served, a dequeue that finds an entry
does not join the line. `OneLocation` and `IndexExact` are not inductive on
their own: a task is filed in the index under the context it carries, while
`IndexExact` speaks of the context its id was issued with, and an update files
a task that is already there. The strengthening `StoreInvariant` adds `Filed`:
whatever the maps hold under an id is a task of that id in the context it was
issued with, and an id nobody issued is nowhere. The proof has one lemma per
operation of the storage, then one step per action of the client. The
refinement maps every queue operation to one step of `WorkQueue` (an enqueue to
`Submit`, a dequeue to `Ask`, an abort to `GiveUp`, removals to `Withdraw`) and
everything else to a stutter; it uses `HandoffDiscipline`, because only then is
at most one item paired per step.

`GuardedSystem_proofs` proves, for any numbers of tasks, contexts, workers,
senders, streams, subscribers and messages:

| Theorem | States | Assumes of the executors |
|---|---|---|
| `ServerTypeCorrect` | `Spec => []ServerTypeOK` | nothing |
| `SubscribersFedCorrect` | `Spec => []SubscribersFed` | nothing |
| `WorkersCorrect` | `Spec => []WorkersSurvive` | nothing |
| `OwnerCorrect` | `Spec => []ExactlyOneOwner` | they stop at a pause |
| `CancellationCorrect` | `Spec => []CancellationReaches` | they stop at a pause |
| `AnswersCorrect` | `Spec => []TerminalAnswersStand` | they stop at a pause |
| `LifecycleCorrect` | `Spec => LifecycleRespected` | they stop at a pause |
| `MessagesCorrect` | `Spec => AcceptedMessagesKept` | they stop at a pause |

The hypothesis `ExecutorStopsAtPause` is what the package's default streaming
handler does. It is needed: with an executor that goes on after it asked for
input (an instance of one task is enough), TLC finds `ExactlyOneOwner`,
`CancellationReaches`, `TerminalAnswersStand` and `AcceptedMessagesKept` violated
(the observations tell how a message is lost). The properties proved without it
are the ones that hold there too.

The five conditional theorems come from one inductive invariant, `Inv`. None of
the properties is inductive, because each depends on who may write a task:

* `QueueSound`: the hand-off discipline, and one entry per task at most (a
  second entry would make a second owner).
* `TasksSound`: a stored task is filed under its id and only terminal ones are
  dead letters (`Filed`); an entry, queued or in a worker's hands, that the guard
  would let through equals the stored task (`EntriesSound`), so the guard tells
  a stale entry from a live one; a live stream's snapshot is the stored task for
  as long as that is active, and once it is not the stream has been aborted
  (`StreamsSound`); a pending task has its entry and no stream, one in progress
  an entry or a live stream (`Owned`). Together these are `ExactlyOneOwner`
  without the cardinalities.
* `RegistriesSound`: both registries name live streams on the right tasks, and a
  live stream publishes on the bus it opened itself.
* `ClientsSound`: whatever a sender, a stream or a subscriber holds is of a minted
  task, and a terminal state shown to one is that of the stored task.

`LifecycleRespected` and `AcceptedMessagesKept` follow from the lemma that a
step from `Inv` makes tasks advance (`TasksAdvance`): tasks stay minted, move along
the lifecycle, keep their messages, and what has been evicted does not come back.
The proof has a lemma for what each action does to each part of `Inv`.

The unconditional theorems come from a second, weaker invariant, `Wired`: stored
tasks are filed and only terminal ones are dead letters (`Shelved`), and a
registered bus is open and held by a live stream on its task, whose name no
new stream can take (`BusesSound`).

Before the proof TLC found no violation of the parts of `Inv` on the instance of
`guarded_streams` (1,006,621 distinct states), nor of the parts of `Wired` with
executors that go on.

`RedisStorage_proofs` proves every safety property that the Redis runs check, for
any numbers of tasks, contexts, workers, queue entries, commands under way,
failures and crashes:

| Theorem | States |
|---|---|
| `RedisTypes` | `Spec => []RedisTypeOK` |
| `MirrorsRedis` | `Spec => []MirrorFaithful` |
| `OwedTasksQueued` | `Spec => []OwedIsQueued` |
| `HandsOverOnce` | `Spec => HandedOnce` |
| `EachLocatedOnce` | `Spec => []OneLocation` |
| `ServedAlways` | `Spec => []WaitersAreServed` |

`MirrorFaithful` and `OwedIsQueued` speak of `Settled`, a fold of the command
semantics over all that is under way, and `LREM` is a fold over the list. So the
module first derives the equations of the two folds (`ExecutedUnfolds`,
`UnlistedUnfolds`) by induction on the number of commands, or entries; the
library's induction theorems take a predicate, which the provers cannot
instantiate, so `Induction` of `SequenceLemmas` takes the set of the numbers that have the property
and rests on the well-foundedness of `<`. From the equations follow what both
runs need: executing the oldest command leaves `Settled` as it is
(`SettledHead`), sending one adds its effect (`SettledSends`).

The invariants, each used by the next:

* `Base`: the types; every map files a task under its id; the loop holds a task
  and its id exactly when it has popped one; a command whose answer is awaited is
  the only one, and the one the loop stands at; a process that is down has
  nothing under way. `RedisTypeOK` alone is not inductive: the loop gives back
  what it holds, so it must hold something.
* `MirrorFaithful` is inductive given `Base`: a write changes the mirror as its
  commands change the keys, and no command of the loop touches them.
* `IdsSound`: nothing anywhere speaks of a task before its first message, and what
  a command under way takes off the list (a cancellation, a dropped context) is
  not active, without which enqueueing it again would race the removal.
* `AllKnownIssued`: a message that has not come is in no task, payload, command or
  snapshot. So a task that is enqueued with a new message is a snapshot that is
  nowhere yet, however many older ones of the same task there are.
* `SnapshotsSound` says of each snapshot that it is in one place (`OnePlace`): the
  payload in Redis, one queue or restore command under way, or the hands of the
  loop, which shares it with Redis only until the HDEL is answered; and in none
  once it was handed over (`HandedIsNowhere`, of which `HandedOnce` is a case).
* `AllOwedSound` says what an owed message has (`OwedHas`): an entry of its task,
  listed, coming or popped, and a payload that carries it, in Redis or coming,
  which no later payload of its task without it will replace; or a loop that has
  read it; and a loop that has asked for a payload gets one that carries it. It
  rests on `IdsSound` and `AllKnownIssued`, and not on where the task stands in
  its lifecycle: updates, pauses and resumptions of a queued task are all
  allowed. What it excludes is just what the ledger calls raced, dropped (the
  task was enqueued again from a snapshot without the message), revoked or lost.
* A second induction over the commands (`ExecutedHas`) turns "coming" into "listed,
  with payload, once all is executed", which is `OwedIsQueued`.
* `AllLocated` is `OneLocation` for what the mirror may become at a crash: an active
  task is neither dead in Redis nor about to be, a dead one in Redis neither active
  there nor about to be, and after the retirement of a task nothing under way
  stores it again.
* `ServedInvariant` adds to `WaitersAreServed` that a storage that is not open has
  no waiters, else a restart would find one beside a stopped loop.

They assume `NoTaskAssumption`, `BoundAssumption` and `UndefinedAssumption`:
`undefined` is neither a task nor an id; and `RequestAssumption`: a message is a
task and a number.

`AgentLoop_proofs` proves these of the default handlers as `MCAgentLoop` runs them
(`Spec`, without fairness), for any caps, tools, histories and answers of the
model, from `AgentConstants`:

* `AbortsWindDown`: `Spec => []AbortBounded`. `AbortInvariant` adds where the late
  work can come from: between a check of the signal and the model call after it
  nothing was begun after the abort, and between that call and the batch after
  it only the call.
* `VerdictsFit`: `Spec => []VerdictFits`. `VerdictInvariant` adds that a run starts
  on a task that is neither cancelled nor failed.
* `ArtifactsStay`: `Spec => []ArtifactsKept`. `ArtifactsInvariant` says that until a
  run ends each stored artifact is once in what was kept or in the slot, that
  calls which may still store belong to the current iteration, and that after
  the end such calls exist only if one of their batch threw. It speaks of the
  background handler only, and no step changes the handler.
* `AgentTypes`: `Spec => []TypeOK`. `TypeOK` bounds sequences by enumerable sets, for
  TLC; `TypeInvariant` says the same with `Seq` and adds what the bounds need: an
  iteration begins only below the cap, and a call is dispatched once.
* `ArtifactsAreShown`: `Spec => []ArtifactsStreamed`. The events a stream has given
  and those its generator is about to yield are one sequence, `Planned`
  (`events \o out`): a pull leaves it as it is, an end cuts it, any other step
  extends it. `ShowingInvariant` says of `Planned` that it shows no artifact twice
  and only stored ones, and that until the run ends each stored artifact is
  shown there or waits in the slot, which is empty once the generator is past a batch and
  no call of it is under way.
* `StreamsInOrder`: `Spec => []EventsInOrder`. `EventsInOrder` speaks of the first event
  of a kind about a call (a `CHOOSE` of the least position, whose equation is the
  lemma `LeastNumber` of `SequenceLemmas`, from the well-foundedness of `<`); the proof uses
  `Orderly`, which says of each event what must stand before it and is thus preserved
  by prefixes, and by extension with items that fit (`OrderlyConcat`).
  `OrderInvariant` adds to it how far a batch has come: before the next answer of the
  model every announced call has its result, and while a batch runs those
  with a result are the first `answered` ones of it, whatever order the tools end
  in. A lemma for each thing the generator plans (`AnnouncementsFollow`,
  `RefusalsFollow`, `ReportsFollow`, `ArtifactsFollow`, `QuestionFollows`) shows that it fits.

* `ConversationsSound`: `Spec => []ConversationSound`. `ConversationInvariant` says that
  outside batches the conversation is `Closed` (what was asked has been answered in
  place, and nothing else) and that within one it `Owes` the calls of the last answer
  from the `answered`-th on; either way it begins with the prompt, if there is
  one, and the statistics are its `Tally`. A batch of the background
  handler answers all calls at once, the streaming one an answer at a time
  (`AnswersCome`, `BatchCloses`). That there are as many answers as calls
  (`OneAnswerPerCall`) is a bijection between the two, and `Truncated` says what
  the limit leaves of any such conversation. The conversation a history opens is
  a fold over its messages (`ConversationOpens`, by `Induction`); `AgentConstants` therefore types
  `History`.

`PushDelivery_proofs` proves `DeliveriesCorrect`: `PushSpec =>
[]DeliveriesSound`, for any configs, limits and numbers of updates, from
`PushConstants`. `DeliveriesSound` is not inductive: `DeliveryInvariant` adds
that a waiting config was never posted to, that one being posted to was served
by earlier attempts only, that a sleeping one has a retry left, and that the
waiting configs are the last ones of the listing, which is how a worker that
ends finds the next config by itself and posts in flight stay at `concurrency`.

`Services_proofs` proves `DialsCorrect`: `McpSpec => []DialsSound`, for any
servers, retry limit and number of refresh rounds, from `McpConstants`.
`DialsSound` is inductive together with the types: after a stop every loop that
wakes ends, so the dials stop met in flight are the only ones there will be.

It also proves `CallsCorrect`: `ClientSpec => []CallsSound`, and
`AbortedCallsRest`: `ClientSpec => NoAttemptAfterAbort`, for any limit, from
`ClientConstants`. The strengthening `CallInvariant` counts: a call under way has
at most `maxRetries` failed attempts behind it, all of them worth a retry, so
the attempt it is making is at most number `maxRetries + 1`; and a body is only
read of an attempt that was served.

Of the artifacts it proves `DownloadsCorrect`: `StoresSpec =>
[]DownloadsTrue`, for any files and each provider, from `StoreConstants`. The
strengthening says that a stored file that still has its payload is whole and
typed, that a removal takes only files whose store has begun, and that a promised
download which found no type meets a payload that is gone or has failed to
read the sidecar. Reads, writes and unlinks may fail at any point. It rests on
removal unlinking the payload first: with the sidecar first (a faulty variant) a
download can be served untyped.

`AnswersInOrder`: `RpcServerSpec => []AnswersMatch`, for batches of any size, from
`ServerConstants`. `ExchangeInvariant` says of an exchange that items are only set
up for an admitted request, one for each item of the body, and that a settled one
is silent just when no answer is due. The answers are the outcomes filtered, a
fold; `FilteredUnfolds` derives its equation and `FilteredInOrder` that it keeps
exactly the positions that are not silent, in their order.

`WalksComplete`: `ListingSpec => []WalkComplete`, and `RetentionCorrect`:
`ListingSpec => []RetentionExact`, for any tasks, timestamps, filters, page sizes
and caps, from `ListingConstants` and `StoreConstants`. Both listing and sweep
sort, which the model states as the choice of the sorted sequence (`SortedBy`); that there is
one is proved by induction on the size of the set (`SortedExists`), and that an
element has as many behind it as its position says in `RankFromAbove`, from which
the sweep takes the oldest of a bucket down to its cap. `ListingInvariant` adds for
the walk, while it is open: what is owed has been returned or lies past the
cursor; nothing returned and still stored lies past it, so nothing can be returned
twice; and what was returned was created once, so that an evicted task is never
taken for a new one. The key of a task never changes while it is stored, which is what the walk
rests on. `ListIs` says that what a page starts with is the first task past the
cursor.

`ServicesCorrect`: `FairSpec => [](ServicesTypeOK /\ ...)`, the conjunction of all the
invariants of the run `services`, for `MCServices` as it is run: a step of one
part is a stutter of the others, so the invariants of the parts carry over.

Only model-checked: liveness (`SendersAnswered`, `SubscribersReleased`,
`OwedIsHandedOver`, `RunsEnd`, `EverythingEnds`), since the prover handles neither
fairness nor ENABLED. Every invariant and action property of a passing run is
the subject of a theorem.

## Observations

Behaviour that differs from what a document says and is shown by a run is
listed under `findings` in `PROJECT.json`. Others, seen while modelling and part
of the models unless noted, without a run of their own:

* An executor that goes on after `inputRequired` works on its own snapshot of the
  task: a later event of it stores that snapshot over the history another request
  has resumed (`message-stream.ts:590`), and an accepted message is lost, although
  lines 587-588 say "Append the prompt to task history so a subsequent resume sees
  the full conversation". TLC finds it with `ExecutorStopsAtPause = FALSE`, one
  task, one sender and one stream; the configurations here set it TRUE.
* When the client of a stream disconnects, the SSE writer closes with the same
  event (`sse.ts:276`), so `emitStatusEvent` publishes nothing: subscribers of
  the task see their stream close without the CANCELLED it got.
* `CancelTask` removes the queue entry only of a PENDING task
  (`task-cancel.ts:89-92`): resumed and streamed tasks leave an entry behind.
  The guarded worker drops it.
* `SubscribeToTask` refuses terminal tasks (`task-resubscribe.ts:103`) although
  its doc comment (77-79) says they are served.
* `pollTask` (`message-send.ts:188`) never ends for a task that was removed
  between two polls.
* On Redis a new task may overtake queued ones: `enqueue` hands it to a waiting
  worker (`redis.ts:313-319`) although older entries are in the list the loop
  is popping from, and an entry given back is pushed at the newest end (707).
  `WorkQueue` is therefore not refined, although lines 167-169 call the storage
  "functionally indistinguishable" from the in-memory one on one instance. A
  restored entry is also missing from `queueLength` until the next restart.
* A task popped from Redis when the process dies, or disconnects (678), stays
  active and is never queued again: `hydrate` does not enqueue active tasks.
* An entry of a streamed task that is still queued when the task is resumed gives
  a worker a snapshot from before the resumption, in memory and on Redis, also
  after the resumed task has gone to a worker by the fast path. The snapshots
  differ (`HandedOnce` is about these), a message may be in both, and it is the
  guard of the worker that drops the older one (`ExactlyOneOwner`).
* An abort during the backoff of a push delivery rejects with the raw reason of
  the signal (`push-notification-sender.ts:301-306`), not with the sender's own
  error, and the delivery reports 0 attempts for it (doc at 147, 225-231).
* Push configs survive the eviction of their task by a sweep
  (`in-memory.ts:225`); only deleting the context removes them.
* An abort or timeout while the body of a response is read becomes
  `A2AClientError('failed to decode ...')` and is not retried, although
  `client.ts:140` says that aborting propagates as `A2AAbortError`. A
  SendMessage that timed out and is retried creates another task:
  up to `maxRetries + 1` in all (`CallsSound`).
* `MCPClient.stop` does not abort a dial in flight; the session it opens is
  never closed ("close every open MCP session", `mcp/client.ts:143-146`).
  `A2A_MCP_MAX_RETRIES` counts attempts, not retries, and 0 means for ever
  (README: "Connection retries before giving up"). A stop before start does not
  keep start from arming the timer.
* An abort during a model call that answers finally gives COMPLETED, and a
  background handler without a toolbox may reach its cap, FAILED, after an abort
  (the comment at `default-background-task-handler.ts:354-357` promises
  CANCELLED); `VerdictFits` says how far the promise holds.
* `truncateConversation` may cut the assistant message with the calls and keep
  the answers to them.
* In a batch, a streaming method is METHOD_NOT_FOUND; the streaming path skips
  the validation of id and params (`server.ts`, `tryDispatchStreaming`).
* The file system provider serves a file whose sidecar it cannot read as
  `application/octet-stream` (`filesystem-storage.ts:293`, 400-402), and calls one
  whose `stat` fails missing (285-286, 222-228). An unlink that fails between
  payload and sidecar (254, 451) leaves a sidecar that no later scan finds; since
  the payload goes first it is never served.
* The file system cleanup may unlink a file that is just being written; the
  store then succeeds with a sidecar and no payload, which no later cleanup
  finds. A failed overwrite removes the old file. Emptied directories are never
  removed: `rm` without `recursive` refuses them and the error is swallowed. A
  failed S3 put may have been carried out, and any S3 error is a 404 in the
  download route.
* Not part of the models: the worker of `examples/default-handlers` writes its
  dequeued snapshot back without a check (line 101), its handler cannot be
  reached by CancelTask (108), and it attempts illegal transitions outside of
  its `try` (111, 115): a handler that asks for input ends its loop.
* Not part of the models: `A2A_MCP_SERVERS` may list a server twice
  (`mcp/config.ts:119-127`); `McpConstants` assumes distinct ones. An injected
  `fetch` that throws an `A2AClientError`, or an `AbortError` though nobody
  aborted, is classified by `client.ts:413-415` and 425-427, which
  `classifyFetchError` leaves out.
* Retention documents "completedAt, then updatedAt, then createdAt" as the
  order; the code compares the first of them that is defined, then the id.

## Not modelled

* The generated types (`types/generated/a2a.ts`), builders, configuration and
  wiring (`server-builder.ts`, `agent-builder.ts`, `card.ts`, `config.ts`): no
  state changes after start-up. They and the doc comments are a large part of
  the source lines.
* Validation and conversion (parameter checks, cursors, message conversion, tool
  schemas, url building, S3 signatures): functions on data that no property
  tells apart; the models take their result, valid or not.
* LLM client, authentication, TLS: wrappers around an SDK, a token library and
  the platform. The JSON-RPC model takes the verdict of the authenticator.
* Metrics, traces and logs observe and do not steer.
* The toolbox beyond what a call comes to; user-supplied tools are external.
* `callTool` and `listTools` of the MCP client, `GetTask`, listing of push
  configs: reads. A dropped MCP session is not redialled by the code.
* `sendStreamingMessage` of the client: one request without retry; its parser
  works on data. SSE heartbeats and framing.
* Start and close of the HTTP server, shutdown of workers; the order of
  microtasks is over-approximated.
* Redis: push configs, writes after disconnect, several instances.

## Plan

What is left, in this order:

1. Redis storage, second part: two instances on one Redis, push configs.
2. The default handlers inside `TaskServer`: today the server runs an abstract
   executor, of which the events of `StreamingHandler` are one instance
   (`ExecutorStopsAtPause`); a refinement would make that explicit.
3. Theorems: the invariants of the additions above, and which properties of the
   server the refinement carries over to the handlers.
