----------------------------- MODULE TaskServer -----------------------------
(***************************************************************************)
(* The request handlers of the A2A server over one TaskStorage:            *)
(* SendMessage, SendStreamingMessage, CancelTask, SubscribeToTask and the  *)
(* retention sweep, with the two process-wide registries they share (the   *)
(* cancellation registry and the event bus registry).  Workers are not     *)
(* part of the package; the module GuardedSystem adds the guarded one of   *)
(* the repository's tck-sut example.                                       *)
(*                                                                         *)
(* JavaScript runs a handler without interruption up to its next await, so *)
(* a step here is the code between two awaits.  Each request is one        *)
(* process that runs once.                                                 *)
(***************************************************************************)
EXTENDS TaskStorage

CONSTANTS Sender,                \* SendMessage requests
          Streamer,              \* SendStreamingMessage requests
          Subscriber,            \* SubscribeToTask requests
          NoId, NoContext, NoStream,
          Configuring,           \* requests that carry a push config inline
          ExecutorStopsAtPause,  \* the executor returns right after inputRequired
          RetentionCaps          \* caps of the retention sweep; {} when it is off

ASSUME RequestAssumption ==
  /\ Request = Sender \cup Streamer
  /\ Sender \cap Streamer = {}
  /\ Configuring \subseteq Request
  /\ ExecutorStopsAtPause \in BOOLEAN
  /\ NoStream \notin Streamer
  /\ NoContext \notin Context
  /\ NoId \notin TaskId

VARIABLES home,         \* context each minted id was created in
          sender,       \* SendMessage requests and their pollTask loop
          stream,       \* SendStreamingMessage requests and their executor
          subscriber,   \* SubscribeToTask requests
          controllers,  \* TaskCancellationRegistry: id -> stream to abort
          buses,        \* TaskEventBusRegistry: id -> bus
          closedBuses   \* buses that have been closed

requestVars == <<sender, stream, subscriber>>
registryVars == <<controllers, buses, closedBuses>>
serverVars == <<storageVars, home, requestVars, registryVars>>

(* A bus is named by the stream whose getOrCreate made it.                 *)
Bus == Streamer

NotShown == "NOT_SHOWN"
Shown == TASK_STATE \cup {NotShown}

StreamPhase == {"idle", "running", "leaving", "failing", "done", "rejected"}

SenderState ==
  [phase: {"idle", "polling", "answered", "gone", "rejected"},
   latest: Task \cup {NoTask}]

(* gone: the client's connection is lost; shown: the last status state the *)
(* client was sent; task: the local variable of the handler.               *)
StreamState ==
  [phase: StreamPhase, task: Task \cup {NoTask}, aborted: BOOLEAN,
   gone: BOOLEAN, bus: Bus \cup {NoStream}, shown: Shown]

SubscriberState ==
  [phase: {"idle", "polling", "attached", "closed", "gone", "rejected"},
   id: TaskId \cup {NoId}, bus: Bus \cup {NoStream}, seen: Shown]

ServerTypeOK ==
  /\ StorageTypeOK
  /\ home \in [TaskId -> Context \cup {NoContext}]
  /\ sender \in [Sender -> SenderState]
  /\ stream \in [Streamer -> StreamState]
  /\ subscriber \in [Subscriber -> SubscriberState]
  /\ controllers \in [TaskId -> Streamer \cup {NoStream}]
  /\ buses \in [TaskId -> Bus \cup {NoStream}]
  /\ closedBuses \in SUBSET Bus

ServerInit ==
  /\ StorageInit
  /\ home = [id \in TaskId |-> NoContext]
  /\ sender = [r \in Sender |-> [phase |-> "idle", latest |-> NoTask]]
  /\ stream = [s \in Streamer |->
                 [phase |-> "idle", task |-> NoTask, aborted |-> FALSE,
                  gone |-> FALSE, bus |-> NoStream, shown |-> NotShown]]
  /\ subscriber = [b \in Subscriber |->
                     [phase |-> "idle", id |-> NoId, bus |-> NoStream, seen |-> NotShown]]
  /\ controllers = [id \in TaskId |-> NoStream]
  /\ buses = [id \in TaskId |-> NoStream]
  /\ closedBuses = {}

Live(s) == stream[s].phase \in {"running", "leaving", "failing"}

StateOf(id) == getTask(id).state

(* Faulty variant: terminal tasks are accepted too.                        *)
OpenIfKnown(id) == Known(id)

(* What CancelTask, SubscribeToTask and a message by taskId accept.        *)
Open(id) == Known(id) /\ ~isTerminal(StateOf(id))

-----------------------------------------------------------------------------
(* From a message to its task                                              *)

(* What a message may name: a task, a context, both or neither.            *)
MessageRef == [task: TaskId \cup {NoId}, context: Context \cup {NoContext}]

(* assertReferencedTaskAcceptsMessage does not throw.                      *)
Accepted(ref) ==
  \/ ref.task = NoId
  \/ /\ Open(ref.task)
     /\ ref.context \in {NoContext, getTask(ref.task).context}

(* Faulty variant: a task at work is resumed as well.                      *)
findResumableUnpaused(ref) ==
  {id \in TaskId : /\ Open(id)
                   /\ \/ ref.task = id
                      \/ ref.task = NoId /\ ref.context = getTask(id).context}

(* findResumableTask takes the paused task named by taskId, or the most    *)
(* recently updated paused task of the context.  Timestamps are            *)
(* abstracted: any paused task of the context may be the latest.           *)
findResumableTask(ref) ==
  {id \in TaskId : /\ Known(id)
                   /\ isPaused(StateOf(id))
                   /\ \/ ref.task = id
                      \/ ref.task = NoId /\ ref.context = getTask(id).context}

(* Faulty variant: the new message replaces the history.                   *)
resumeWithoutHistory(task, r) ==
  transitionTask([task EXCEPT !.messages = {r}], "IN_PROGRESS")

appendAndResume(task, r) ==
  transitionTask([task EXCEPT !.messages = @ \cup {r}], "IN_PROGRESS")

(* Faulty variant: no context is minted.                                   *)
NoMintedContext == {NoContext}

(* enrichMessage mints a context when the message brings none.             *)
MintedContext == {c \in Context : \A id \in TaskId : home[id] # c}

NewTask(ref, r) ==
  {createTask(id, c, {r}) :
     id \in {i \in TaskId : home[i] = NoContext},
     c \in IF ref.context = NoContext THEN MintedContext ELSE {ref.context}}

(* startTask: the tasks it may return for the message of r.                *)
startTask(ref, r) ==
  LET paused == findResumableTask(ref)
  IN  IF paused # {} THEN {appendAndResume(getTask(id), r) : id \in paused}
                     ELSE NewTask(ref, r)

recordHome(task) == home' = [home EXCEPT ![task.id] = task.context]

registerPushConfig(r, task) ==
  IF r \in Configuring THEN \E config \in ConfigId : setPushConfig(task.id, config)
                       ELSE UNCHANGED pushConfigs

-----------------------------------------------------------------------------
(* SendMessage                                                             *)

RejectSend(r) ==
  /\ sender[r].phase = "idle"
  /\ \E ref \in MessageRef : ~Accepted(ref)
  /\ sender' = [sender EXCEPT ![r].phase = "rejected"]
  /\ UNCHANGED <<storageVars, home, stream, subscriber, registryVars>>

(* The run from the handler's await to the enqueue.  A request with        *)
(* returnImmediately answers at once, any other starts polling.            *)
SendMessage(r) ==
  /\ sender[r].phase = "idle"
  /\ \E ref \in {m \in MessageRef : Accepted(m)} : \E task \in startTask(ref, r) :
       /\ registerPushConfig(r, task)
       /\ enqueue(task)
       /\ recordHome(task)
       /\ \E phase \in {"polling", "answered"} :
            sender' = [sender EXCEPT ![r] = [phase |-> phase, latest |-> task]]
  /\ UNCHANGED <<stream, subscriber, registryVars>>

(* One round of pollTask that sees another state than the last one.  A     *)
(* round that finds the same state, or no task, changes nothing.           *)
Poll(r) ==
  LET current == getTask(sender[r].latest.id)
  IN  /\ sender[r].phase = "polling"
      /\ current # NoTask
      /\ current.state # sender[r].latest.state
      /\ sender' = [sender EXCEPT ![r] =
                      [phase |-> IF isTerminal(current.state) \/ isPaused(current.state)
                                 THEN "answered" ELSE "polling",
                       latest |-> current]]
      /\ UNCHANGED <<storageVars, home, stream, subscriber, registryVars>>

SenderDisconnects(r) ==
  /\ sender[r].phase = "polling"
  /\ sender' = [sender EXCEPT ![r].phase = "gone"]
  /\ UNCHANGED <<storageVars, home, stream, subscriber, registryVars>>

-----------------------------------------------------------------------------
(* SendStreamingMessage                                                    *)

(* publish: every subscriber attached to the open bus is sent the state.   *)
Published(bus, state) ==
  [b \in Subscriber |->
     IF subscriber[b].phase = "attached" /\ subscriber[b].bus = bus /\ bus \notin closedBuses
     THEN [subscriber[b] EXCEPT !.seen = state] ELSE subscriber[b]]

(* Faulty variant: the bus is dropped without telling its subscribers.     *)
StillAttached(subs, bus) == subs

Detached(subs, bus) ==
  [b \in Subscriber |->
     IF subs[b].phase = "attached" /\ subs[b].bus = bus
     THEN [subs[b] EXCEPT !.phase = "closed"] ELSE subs[b]]

(* emitStatusEvent reaches the bus only when the SSE writer took the       *)
(* event, that is while the client is connected.                           *)
emitStatusEvent(s, rec, state) ==
  IF rec.gone
  THEN /\ stream' = [stream EXCEPT ![s] = rec]
       /\ UNCHANGED subscriber
  ELSE /\ stream' = [stream EXCEPT ![s] = [rec EXCEPT !.shown = state]]
       /\ subscriber' = Published(rec.bus, state)

RejectStream(s) ==
  /\ stream[s].phase = "idle"
  /\ \E ref \in MessageRef : ~Accepted(ref)
  /\ stream' = [stream EXCEPT ![s].phase = "rejected"]
  /\ UNCHANGED <<storageVars, home, sender, subscriber, registryVars>>

(* From the request to the first await on the executor: the task is stored *)
(* (a new one is also queued, as PENDING, and moved to IN_PROGRESS at      *)
(* once), the abort controller registered and the bus opened.              *)
StartStream(s) ==
  /\ stream[s].phase = "idle"
  /\ \E ref \in {m \in MessageRef : Accepted(m)} : \E task \in startTask(ref, s) :
       LET working == IF task.state = "PENDING"
                      THEN transitionTask(task, "IN_PROGRESS") ELSE task
           bus     == IF buses[task.id] = NoStream THEN s ELSE buses[task.id]
       IN  /\ registerPushConfig(s, task)
           /\ \/ task.state = "PENDING" /\ setActive(working) /\ offer(task)
              \/ task.state # "PENDING" /\ updateActive(working) /\ UNCHANGED queueVars
           /\ recordHome(task)
           /\ controllers' = [controllers EXCEPT ![task.id] = s]
           /\ buses' = [buses EXCEPT ![task.id] = bus]
           /\ emitStatusEvent(s, [stream[s] EXCEPT !.phase = "running",
                                                   !.task = working,
                                                   !.bus = bus], "IN_PROGRESS")
  /\ UNCHANGED <<sender, closedBuses>>

(* transitionAndPersist returns rather than throws.                        *)
CanPersist(task, state) == canTransition(task.state, state) /\ isActive(task.id)

(* Faulty variant: the controller stays registered.                        *)
ReleaseWithoutUnregister(s, subs) ==
  /\ buses' = [buses EXCEPT ![stream[s].task.id] = NoStream]
  /\ closedBuses' = closedBuses \cup {stream[s].bus}
  /\ subscriber' = Detached(subs, stream[s].bus)
  /\ UNCHANGED controllers

(* The finally block after the storage has been settled: the controller is *)
(* unregistered, the stream closed, its bus closed and deleted.            *)
Release(s, subs) ==
  LET id == stream[s].task.id
  IN  /\ controllers' = [controllers EXCEPT ![id] = NoStream]
      /\ buses' = [buses EXCEPT ![id] = NoStream]
      /\ closedBuses' = closedBuses \cup {stream[s].bus}
      /\ subscriber' = Detached(subs, stream[s].bus)

(* A status the executor yields: persisted and shown; a terminal one ends  *)
(* the loop.                                                               *)
StreamStatus(s, state) ==
  LET next == transitionTask(stream[s].task, state)
  IN  /\ stream[s].phase = "running"
      /\ ~stream[s].aborted
      /\ ~(isPaused(state) /\ ExecutorStopsAtPause)
      /\ CanPersist(stream[s].task, state)
      /\ updateActive(next)
      /\ emitStatusEvent(s, [stream[s] EXCEPT
                               !.task = next,
                               !.phase = IF isTerminal(state) THEN "leaving" ELSE "running"],
                         state)
      /\ UNCHANGED <<queueVars, pushConfigs, home, sender, registryVars>>

(* An inputRequired event of an executor that returns right after it.  The *)
(* handler then tries COMPLETED and FAILED, both illegal from              *)
(* INPUT_REQUIRED, and closes with the task paused.  Nothing else can run  *)
(* in between: the returning generator settles in microtasks.              *)
StreamPauses(s) ==
  LET next == transitionTask(stream[s].task, "INPUT_REQUIRED")
  IN  /\ stream[s].phase = "running"
      /\ ~stream[s].aborted
      /\ ExecutorStopsAtPause
      /\ CanPersist(stream[s].task, "INPUT_REQUIRED")
      /\ updateActive(next)
      /\ stream' = [stream EXCEPT ![s].phase = "done", ![s].task = next,
                                  ![s].shown = IF stream[s].gone THEN @
                                               ELSE "INPUT_REQUIRED"]
      /\ Release(s, IF stream[s].gone THEN subscriber
                    ELSE Published(stream[s].bus, "INPUT_REQUIRED"))
      /\ UNCHANGED <<queueVars, pushConfigs, home, sender>>

(* artifactCreated: the handler stores its own snapshot of the task.       *)
StreamArtifact(s) ==
  /\ stream[s].phase = "running"
  /\ ~stream[s].aborted
  /\ updateActive(stream[s].task)
  /\ UNCHANGED <<queueVars, pushConfigs, home, requestVars, registryVars>>

(* An event the handler throws on: an illegal transition, or a task that   *)
(* is no longer active.                                                    *)
StreamEventFails(s) ==
  /\ stream[s].phase = "running"
  /\ ~stream[s].aborted
  /\ \/ \E state \in TASK_STATE \ {"PENDING"} : ~CanPersist(stream[s].task, state)
     \/ ~isActive(stream[s].task.id)
  /\ stream' = [stream EXCEPT ![s].phase = "failing"]
  /\ UNCHANGED <<storageVars, home, sender, subscriber, registryVars>>

(* The executor yields although its signal is aborted: the loop breaks.    *)
StreamBreaks(s) ==
  /\ stream[s].phase = "running"
  /\ stream[s].aborted
  /\ stream' = [stream EXCEPT ![s].phase = "leaving"]
  /\ UNCHANGED <<storageVars, home, sender, subscriber, registryVars>>

(* After the loop: the last transition, or its catch when something threw. *)
(* CANCELLED is tried when the signal is aborted, otherwise FAILED after a *)
(* throw and COMPLETED without.  When COMPLETED throws the catch tries     *)
(* FAILED, which then throws as well: both have the same legal sources and *)
(* need the task to be active.  The finally block stores a dead letter     *)
(* only when the stored task is not terminal yet.                          *)
EndStream(s, threw) ==
  LET rec    == stream[s]
      goal   == IF rec.aborted THEN "CANCELLED" ELSE IF threw THEN "FAILED" ELSE "COMPLETED"
      moves  == ~isTerminal(rec.task.state) /\ CanPersist(rec.task, goal)
      final  == IF moves THEN transitionTask(rec.task, goal) ELSE rec.task
      tells  == moves /\ ~rec.gone
      stored == Known(final.id) /\ isTerminal(StateOf(final.id))
  IN  /\ IF moves THEN setActive(final)
         ELSE IF isTerminal(final.state) /\ ~stored THEN storeDeadLetter(final)
         ELSE UNCHANGED mapVars
      /\ stream' = [stream EXCEPT ![s].phase = "done", ![s].task = final,
                                  ![s].shown = IF tells THEN goal ELSE @]
      /\ Release(s, IF tells THEN Published(rec.bus, goal) ELSE subscriber)
      /\ UNCHANGED <<queueVars, pushConfigs, home, sender>>

StreamReturns(s) == stream[s].phase \in {"running", "leaving"} /\ EndStream(s, FALSE)

StreamThrows(s) == Live(s) /\ EndStream(s, TRUE)

(* The request's signal aborts: the executor's signal follows and the SSE  *)
(* writer closes.                                                          *)
StreamDisconnects(s) ==
  /\ Live(s)
  /\ ~stream[s].gone
  /\ stream' = [stream EXCEPT ![s].aborted = TRUE, ![s].gone = TRUE]
  /\ UNCHANGED <<storageVars, home, sender, subscriber, registryVars>>

-----------------------------------------------------------------------------
(* CancelTask                                                              *)

CancelTask(id) ==
  LET owner == controllers[id]
  IN  /\ Open(id)
      /\ IF StateOf(id) = "PENDING" THEN removeFromQueue(id) ELSE UNCHANGED queueVars
      /\ controllers' = [controllers EXCEPT ![id] = NoStream]
      /\ stream' = [s \in Streamer |->
                      IF s = owner THEN [stream[s] EXCEPT !.aborted = TRUE] ELSE stream[s]]
      /\ storeDeadLetter(transitionTask(getTask(id), "CANCELLED"))
      /\ UNCHANGED <<pushConfigs, home, sender, subscriber, buses, closedBuses>>

-----------------------------------------------------------------------------
(* SubscribeToTask                                                         *)

RejectSubscription(b) ==
  /\ subscriber[b].phase = "idle"
  /\ \E id \in TaskId : ~Open(id)
  /\ subscriber' = [subscriber EXCEPT ![b].phase = "rejected"]
  /\ UNCHANGED <<storageVars, home, sender, stream, registryVars>>

(* Follow the bus of a running stream, or poll the storage without one.    *)
Subscribe(b, id) ==
  LET bus == buses[id]
  IN  /\ subscriber[b].phase = "idle"
      /\ Open(id)
      /\ subscriber' = [subscriber EXCEPT ![b] =
                          [phase |-> IF bus = NoStream \/ bus \in closedBuses
                                     THEN "polling" ELSE "attached",
                           id |-> id, bus |-> bus, seen |-> StateOf(id)]]
      /\ UNCHANGED <<storageVars, home, sender, stream, registryVars>>

PollSubscription(b) ==
  LET id == subscriber[b].id
  IN  /\ subscriber[b].phase = "polling"
      /\ Known(id)
      /\ StateOf(id) # subscriber[b].seen
      /\ subscriber' = [subscriber EXCEPT
                          ![b].seen = StateOf(id),
                          ![b].phase = IF isTerminal(StateOf(id)) THEN "closed" ELSE "polling"]
      /\ UNCHANGED <<storageVars, home, sender, stream, registryVars>>

SubscriberDisconnects(b) ==
  /\ subscriber[b].phase \in {"polling", "attached"}
  /\ subscriber' = [subscriber EXCEPT ![b].phase = "gone"]
  /\ UNCHANGED <<storageVars, home, sender, stream, registryVars>>

-----------------------------------------------------------------------------

(* TaskCleanupScheduler's sweep.                                           *)
RetentionSweep ==
  /\ \E completedCap, failedCap \in RetentionCaps :
       cleanupTasksWithRetention(completedCap, failedCap)
  /\ UNCHANGED <<queueVars, pushConfigs, home, requestVars, registryVars>>

SenderStep(r) == RejectSend(r) \/ SendMessage(r) \/ Poll(r) \/ SenderDisconnects(r)

StreamStep(s) ==
  \/ RejectStream(s) \/ StartStream(s)
  \/ \E state \in TASK_STATE \ {"PENDING"} : StreamStatus(s, state)
  \/ StreamPauses(s) \/ StreamArtifact(s) \/ StreamEventFails(s) \/ StreamBreaks(s)
  \/ StreamReturns(s) \/ StreamThrows(s) \/ StreamDisconnects(s)

SubscriberStep(b) ==
  \/ RejectSubscription(b)
  \/ \E id \in TaskId : Subscribe(b, id)
  \/ PollSubscription(b) \/ SubscriberDisconnects(b)

ServerNext ==
  \/ \E r \in Sender : SenderStep(r)
  \/ \E s \in Streamer : StreamStep(s)
  \/ \E id \in TaskId : CancelTask(id)
  \/ \E b \in Subscriber : SubscriberStep(b)
  \/ RetentionSweep
=============================================================================
