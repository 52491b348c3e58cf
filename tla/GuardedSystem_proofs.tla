------------------------ MODULE GuardedSystem_proofs ------------------------
(***************************************************************************)
(* Proofs about GuardedSystem, for any numbers of tasks, workers, senders, *)
(* streams and subscribers: its type invariant, that subscribers are fed   *)
(* and workers survive; and, when executors return at a pause              *)
(* (ExecutorStopsAtPause), who owns a task, whom a cancellation reaches,   *)
(* and what becomes of tasks, messages and what was answered.              *)
(***************************************************************************)
EXTENDS GuardedSystem, TaskStorage_proofs

-----------------------------------------------------------------------------
(* The type invariant                                                      *)

HomeTyped == home \in [TaskId -> Context \cup {NoContext}]

SendersTyped == sender \in [Sender -> SenderState]

StreamsTyped == stream \in [Streamer -> StreamState]

SubscribersTyped == subscriber \in [Subscriber -> SubscriberState]

RegistriesTyped ==
  /\ controllers \in [TaskId -> Streamer \cup {NoStream}]
  /\ buses \in [TaskId -> Bus \cup {NoStream}]
  /\ closedBuses \in SUBSET Bus

(* Inductive: what a request still uses is there.                          *)
LocalsBound ==
  /\ \A s \in Streamer : Live(s) => stream[s].task \in Task /\ stream[s].bus \in Bus
  /\ \A r \in Sender : sender[r].phase = "polling" => sender[r].latest \in Task
  /\ \A b \in Subscriber :
       subscriber[b].phase \in {"polling", "attached"} => subscriber[b].id \in TaskId

Typed ==
  /\ MapsTyped /\ QueueTyped /\ ConfigsTyped /\ HomeTyped
  /\ SendersTyped /\ StreamsTyped /\ SubscribersTyped /\ RegistriesTyped
  /\ LocalsBound

LEMMA TypedParts == Typed => ServerTypeOK
BY DEF Typed, ServerTypeOK, StorageTypeOK, MapsTyped, QueueTyped, ConfigsTyped, HomeTyped,
       SendersTyped, StreamsTyped, SubscribersTyped, RegistriesTyped

(* The fields of a stream, and a stream from its fields.                   *)
LEMMA StreamFields ==
  /\ \A rec \in StreamState :
       /\ rec.phase \in StreamPhase /\ rec.task \in Task \cup {NoTask}
       /\ rec.aborted \in BOOLEAN /\ rec.gone \in BOOLEAN
       /\ rec.bus \in Bus \cup {NoStream} /\ rec.shown \in Shown
  /\ \A rec \in StreamState :
       /\ \A p \in StreamPhase : [rec EXCEPT !.phase = p] \in StreamState
       /\ \A t \in Task : [rec EXCEPT !.task = t] \in StreamState
       /\ \A b \in Bus : [rec EXCEPT !.bus = b] \in StreamState
       /\ \A sh \in Shown : [rec EXCEPT !.shown = sh] \in StreamState
       /\ [rec EXCEPT !.aborted = TRUE] \in StreamState
       /\ [rec EXCEPT !.gone = TRUE] \in StreamState
<1>1. ASSUME NEW rec \in StreamState
      PROVE  /\ rec.phase \in StreamPhase /\ rec.task \in Task \cup {NoTask}
             /\ rec.aborted \in BOOLEAN /\ rec.gone \in BOOLEAN
             /\ rec.bus \in Bus \cup {NoStream} /\ rec.shown \in Shown
  BY <1>1 DEF StreamState
<1>2. ASSUME NEW rec \in StreamState
      PROVE  /\ \A p \in StreamPhase : [rec EXCEPT !.phase = p] \in StreamState
             /\ \A t \in Task : [rec EXCEPT !.task = t] \in StreamState
             /\ \A b \in Bus : [rec EXCEPT !.bus = b] \in StreamState
             /\ \A sh \in Shown : [rec EXCEPT !.shown = sh] \in StreamState
             /\ [rec EXCEPT !.aborted = TRUE] \in StreamState
             /\ [rec EXCEPT !.gone = TRUE] \in StreamState
  BY <1>2 DEF StreamState
<1> QED  BY <1>1, <1>2

LEMMA SubscriberFields ==
  \A rec \in SubscriberState :
    /\ rec.id \in TaskId \cup {NoId} /\ rec.bus \in Bus \cup {NoStream} /\ rec.seen \in Shown
    /\ \A sh \in Shown : [rec EXCEPT !.seen = sh] \in SubscriberState
    /\ \A p \in {"closed", "gone", "polling", "rejected"} : [rec EXCEPT !.phase = p] \in SubscriberState
BY DEF SubscriberState

(* Publishing and detaching only touch what the subscribers have seen and  *)
(* how they are attached.                                                  *)
LEMMA PublishedSubscribers ==
  ASSUME SubscribersTyped, NEW bus, NEW state \in Shown
  PROVE  /\ Published(bus, state) \in [Subscriber -> SubscriberState]
         /\ \A b \in Subscriber :
              /\ Published(bus, state)[b].phase = subscriber[b].phase
              /\ Published(bus, state)[b].id = subscriber[b].id
              /\ Published(bus, state)[b].bus = subscriber[b].bus
              /\ Published(bus, state)[b].seen =
                   IF subscriber[b].phase = "attached" /\ subscriber[b].bus = bus
                      /\ bus \notin closedBuses THEN state ELSE subscriber[b].seen
<1>1. \A b \in Subscriber : subscriber[b] \in SubscriberState
  BY DEF SubscribersTyped
<1>2. Published(bus, state) \in [Subscriber -> SubscriberState]
  BY <1>1, SubscriberFields DEF Published
<1>3. ASSUME NEW b \in Subscriber
      PROVE  /\ Published(bus, state)[b].phase = subscriber[b].phase
             /\ Published(bus, state)[b].id = subscriber[b].id
             /\ Published(bus, state)[b].bus = subscriber[b].bus
             /\ Published(bus, state)[b].seen =
                   IF subscriber[b].phase = "attached" /\ subscriber[b].bus = bus
                      /\ bus \notin closedBuses THEN state ELSE subscriber[b].seen
  BY <1>1 DEF Published, SubscriberState
<1> QED  BY <1>2, <1>3

LEMMA DetachedSubscribers ==
  ASSUME NEW subs \in [Subscriber -> SubscriberState], NEW bus
  PROVE  /\ Detached(subs, bus) \in [Subscriber -> SubscriberState]
         /\ \A b \in Subscriber :
              /\ Detached(subs, bus)[b].phase =
                   IF subs[b].phase = "attached" /\ subs[b].bus = bus THEN "closed"
                   ELSE subs[b].phase
              /\ Detached(subs, bus)[b].id = subs[b].id
              /\ Detached(subs, bus)[b].bus = subs[b].bus
              /\ Detached(subs, bus)[b].seen = subs[b].seen
<1>1. Detached(subs, bus) \in [Subscriber -> SubscriberState]
  BY SubscriberFields DEF Detached
<1>2. ASSUME NEW b \in Subscriber
      PROVE  /\ Detached(subs, bus)[b].phase =
                   IF subs[b].phase = "attached" /\ subs[b].bus = bus THEN "closed"
                   ELSE subs[b].phase
             /\ Detached(subs, bus)[b].id = subs[b].id
             /\ Detached(subs, bus)[b].bus = subs[b].bus
             /\ Detached(subs, bus)[b].seen = subs[b].seen
  BY DEF Detached, SubscriberState
<1> QED  BY <1>1, <1>2

LEMMA TransitionType ==
  ASSUME NEW task \in Task, NEW state \in TASK_STATE
  PROVE  /\ transitionTask(task, state) \in Task
         /\ transitionTask(task, state).id = task.id
         /\ transitionTask(task, state).context = task.context
         /\ transitionTask(task, state).state = state
         /\ transitionTask(task, state).messages = task.messages
BY DEF transitionTask, Task

-----------------------------------------------------------------------------
(* What the steps do, field by field                                       *)

LEMMA StreamMoves ==
  ASSUME StreamsTyped, NEW s \in Streamer, NEW rec \in StreamState,
         stream' = [stream EXCEPT ![s] = rec]
  PROVE  /\ StreamsTyped'
         /\ stream'[s] = rec
         /\ \A o \in Streamer \ {s} : stream'[o] = stream[o]
BY DEF StreamsTyped

(* A status event changes what the stream has shown and what the attached  *)
(* subscribers have seen.                                                  *)
LEMMA EmitEffect ==
  ASSUME StreamsTyped, SubscribersTyped, NEW s \in Streamer, NEW rec \in StreamState,
         NEW state \in Shown, emitStatusEvent(s, rec, state)
  PROVE  /\ StreamsTyped' /\ SubscribersTyped'
         /\ \A o \in Streamer \ {s} : stream'[o] = stream[o]
         /\ stream'[s].phase = rec.phase /\ stream'[s].task = rec.task
         /\ stream'[s].aborted = rec.aborted /\ stream'[s].bus = rec.bus
         /\ stream'[s].gone = rec.gone
         /\ stream'[s].shown = IF rec.gone THEN rec.shown ELSE state
         /\ \A b \in Subscriber :
              /\ subscriber'[b].phase = subscriber[b].phase
              /\ subscriber'[b].id = subscriber[b].id
              /\ subscriber'[b].bus = subscriber[b].bus
              /\ \/ subscriber'[b].seen = subscriber[b].seen
                 \/ /\ subscriber[b].phase = "attached" /\ subscriber[b].bus = rec.bus
                    /\ subscriber'[b].seen = state
<1>1. CASE rec.gone
  <2>1. stream' = [stream EXCEPT ![s] = rec] /\ UNCHANGED subscriber
    BY <1>1 DEF emitStatusEvent
  <2>2. StreamsTyped' /\ stream'[s] = rec /\ \A o \in Streamer \ {s} : stream'[o] = stream[o]
    BY <2>1, StreamMoves
  <2>3. SubscribersTyped' /\ \A b \in Subscriber : subscriber'[b] = subscriber[b]
    BY <2>1 DEF SubscribersTyped
  <2> QED  BY <1>1, <2>2, <2>3
<1>2. CASE ~rec.gone
  <2> DEFINE told == [rec EXCEPT !.shown = state]
  <2>1. stream' = [stream EXCEPT ![s] = told] /\ subscriber' = Published(rec.bus, state)
    BY <1>2 DEF emitStatusEvent
  <2>2. told \in StreamState
    BY StreamFields
  <2>3. /\ told.phase = rec.phase /\ told.task = rec.task /\ told.aborted = rec.aborted
        /\ told.bus = rec.bus /\ told.shown = state /\ told.gone = rec.gone
    BY DEF StreamState
  <2> HIDE DEF told
  <2>4. /\ StreamsTyped'
        /\ stream'[s] = told
        /\ \A o \in Streamer \ {s} : stream'[o] = stream[o]
    BY <2>1, <2>2, StreamMoves
  <2>5. /\ SubscribersTyped'
        /\ \A b \in Subscriber :
              /\ subscriber'[b].phase = subscriber[b].phase
              /\ subscriber'[b].id = subscriber[b].id
              /\ subscriber'[b].bus = subscriber[b].bus
              /\ \/ subscriber'[b].seen = subscriber[b].seen
                 \/ /\ subscriber[b].phase = "attached" /\ subscriber[b].bus = rec.bus
                    /\ subscriber'[b].seen = state
    BY <2>1, PublishedSubscribers DEF SubscribersTyped
  <2> QED  BY <1>2, <2>3, <2>4, <2>5
<1> QED  BY <1>1, <1>2

(* The end of a stream, as StreamPauses and EndStream share it.            *)
Ends(s, final, tells) ==
  /\ stream' = [stream EXCEPT ![s].phase = "done", ![s].task = final,
                              ![s].shown = IF tells THEN final.state ELSE @]
  /\ Release(s, IF tells THEN Published(stream[s].bus, final.state) ELSE subscriber)

LEMMA EndsEffect ==
  ASSUME StreamsTyped, SubscribersTyped, RegistriesTyped, NEW s \in Streamer,
         NEW final \in Task, NEW tells \in BOOLEAN, Ends(s, final, tells),
         stream[s].task \in Task, stream[s].bus \in Bus
  PROVE  /\ StreamsTyped' /\ SubscribersTyped' /\ RegistriesTyped'
         /\ \A o \in Streamer \ {s} : stream'[o] = stream[o]
         /\ stream'[s].phase = "done" /\ stream'[s].task = final
         /\ stream'[s].shown = IF tells THEN final.state ELSE stream[s].shown
         /\ \A b \in Subscriber :
              /\ subscriber'[b].phase =
                   IF subscriber[b].phase = "attached" /\ subscriber[b].bus = stream[s].bus
                   THEN "closed" ELSE subscriber[b].phase
              /\ subscriber'[b].id = subscriber[b].id
              /\ subscriber'[b].bus = subscriber[b].bus
              /\ \/ subscriber'[b].seen = subscriber[b].seen
                 \/ /\ tells /\ subscriber[b].phase = "attached"
                    /\ subscriber[b].bus = stream[s].bus
                    /\ subscriber'[b].seen = final.state
         /\ \A id \in TaskId :
              /\ controllers'[id] = IF id = stream[s].task.id THEN NoStream ELSE controllers[id]
              /\ buses'[id] = IF id = stream[s].task.id THEN NoStream ELSE buses[id]
         /\ closedBuses' = closedBuses \cup {stream[s].bus}
<1>1. stream[s] \in StreamState /\ final.state \in Shown
  BY DEF StreamsTyped, Task, Shown
<1>2. /\ StreamsTyped'
      /\ \A o \in Streamer \ {s} : stream'[o] = stream[o]
      /\ stream'[s].phase = "done" /\ stream'[s].task = final
      /\ stream'[s].shown = IF tells THEN final.state ELSE stream[s].shown
  <2> DEFINE rec == [stream[s] EXCEPT !.phase = "done", !.task = final,
                                      !.shown = IF tells THEN final.state ELSE @]
  <2>1. stream' = [stream EXCEPT ![s] = rec]
    BY DEF Ends, StreamsTyped
  <2>2. rec \in StreamState
    BY <1>1 DEF StreamState, StreamPhase
  <2>3. /\ rec.phase = "done" /\ rec.task = final
        /\ rec.shown = IF tells THEN final.state ELSE stream[s].shown
    BY <1>1 DEF StreamState
  <2> HIDE DEF rec
  <2> QED  BY <2>1, <2>2, <2>3, StreamMoves
<1> DEFINE subs == IF tells THEN Published(stream[s].bus, final.state) ELSE subscriber
<1>3. /\ subs \in [Subscriber -> SubscriberState]
      /\ \A b \in Subscriber :
           /\ subs[b].phase = subscriber[b].phase
           /\ subs[b].id = subscriber[b].id
           /\ subs[b].bus = subscriber[b].bus
           /\ \/ subs[b].seen = subscriber[b].seen
              \/ /\ tells /\ subscriber[b].phase = "attached"
                 /\ subscriber[b].bus = stream[s].bus
                 /\ subs[b].seen = final.state
  <2>1. CASE tells
    BY <1>1, <2>1, PublishedSubscribers
  <2>2. CASE ~tells
    BY <2>2 DEF SubscribersTyped
  <2> QED  BY <2>1, <2>2
<1>4. /\ subscriber' = Detached(subs, stream[s].bus)
      /\ controllers' = [controllers EXCEPT ![stream[s].task.id] = NoStream]
      /\ buses' = [buses EXCEPT ![stream[s].task.id] = NoStream]
      /\ closedBuses' = closedBuses \cup {stream[s].bus}
  BY DEF Ends, Release
<1> HIDE DEF subs
<1>5. /\ SubscribersTyped'
      /\ \A b \in Subscriber :
           /\ subscriber'[b].phase =
                IF subs[b].phase = "attached" /\ subs[b].bus = stream[s].bus
                THEN "closed" ELSE subs[b].phase
           /\ subscriber'[b].id = subs[b].id
           /\ subscriber'[b].bus = subs[b].bus
           /\ subscriber'[b].seen = subs[b].seen
  BY <1>3, <1>4, DetachedSubscribers DEF SubscribersTyped
<1>6. stream[s].task.id \in TaskId
  BY DEF Task
<1>7. RegistriesTyped'
  BY <1>4, <1>6 DEF RegistriesTyped
<1>8. \A id \in TaskId :
        /\ controllers'[id] = IF id = stream[s].task.id THEN NoStream ELSE controllers[id]
        /\ buses'[id] = IF id = stream[s].task.id THEN NoStream ELSE buses[id]
  BY <1>4, <1>6 DEF RegistriesTyped
<1> QED  BY <1>2, <1>3, <1>4, <1>5, <1>7, <1>8

(* startTask makes a new task under an unused id, or resumes a paused one. *)
Minted(id) == home[id] # NoContext

StartsNew(task) == ~Minted(task.id) /\ task.state = "PENDING"

Resumes(task) ==
  \E id \in TaskId :
    /\ Known(id) /\ StateOf(id) = "INPUT_REQUIRED"
    /\ task.id = getTask(id).id /\ task.state = "IN_PROGRESS"
    /\ getTask(id).messages \subseteq task.messages

LEMMA StartedTasks ==
  ASSUME MapsTyped, NEW ref \in MessageRef, NEW r \in Request, NEW task \in startTask(ref, r)
  PROVE  task \in Task /\ (StartsNew(task) \/ Resumes(task))
<1>1. CASE findResumableTask(ref) # {}
  <2>1. PICK id \in findResumableTask(ref) : task = appendAndResume(getTask(id), r)
    BY <1>1 DEF startTask
  <2>2. id \in TaskId /\ Known(id) /\ StateOf(id) = "INPUT_REQUIRED"
    BY DEF findResumableTask, isPaused, PAUSED_STATES
  <2>3. getTask(id) \in Task
    BY <2>2, StoredTasks
  <2>4. /\ task \in Task
        /\ task.id = getTask(id).id /\ task.state = "IN_PROGRESS"
        /\ getTask(id).messages \subseteq task.messages
    BY <2>1, <2>3 DEF appendAndResume, transitionTask, Task, TASK_STATE
  <2> QED  BY <2>2, <2>4 DEF Resumes
<1>2. CASE findResumableTask(ref) = {}
  <2>1. task \in NewTask(ref, r)
    BY <1>2 DEF startTask
  <2>2. PICK id \in {i \in TaskId : home[i] = NoContext},
             c \in IF ref.context = NoContext THEN MintedContext ELSE {ref.context} :
               task = createTask(id, c, {r})
    BY <2>1 DEF NewTask
  <2>3. c \in Context
    BY DEF MessageRef, MintedContext
  <2>4. task \in Task
    BY <2>2, <2>3 DEF createTask, Task, TASK_STATE
  <2> QED  BY <2>2, <2>4 DEF createTask, StartsNew, Minted
<1> QED  BY <1>1, <1>2

LEMMA RegisterConfigType ==
  ASSUME ConfigsTyped, NEW r, NEW task \in Task, registerPushConfig(r, task)
  PROVE  ConfigsTyped'
BY DEF ConfigsTyped, registerPushConfig, setPushConfig, Task

LEMMA RecordHomeEffect ==
  ASSUME HomeTyped, NEW task \in Task, recordHome(task)
  PROVE  /\ HomeTyped'
         /\ home'[task.id] = task.context
         /\ \A id \in TaskId : id # task.id => home'[id] = home[id]
BY DEF HomeTyped, recordHome, Task

-----------------------------------------------------------------------------
(* Types, action by action                                                 *)

LEMMA SenderStepType ==
  ASSUME Typed, NEW r \in Sender, SenderStep(r)
  PROVE  Typed'
<1>0. sender[r] \in SenderState /\ SendersTyped
  BY DEF Typed, SendersTyped
<1>1. ASSUME UNCHANGED <<storageVars, home, stream, subscriber, registryVars>>, SendersTyped',
             sender'[r].phase = "polling" => sender'[r].latest \in Task,
             \A o \in Sender \ {r} : sender'[o] = sender[o]
      PROVE  Typed'
  BY <1>1 DEF Typed, storageVars, mapVars, queueVars, registryVars, MapsTyped, QueueTyped,
       ConfigsTyped, HomeTyped, StreamsTyped, SubscribersTyped, RegistriesTyped,
       LocalsBound, Live
<1>2. CASE RejectSend(r)
  <2>1. SendersTyped' /\ sender'[r].phase = "rejected" /\ \A o \in Sender \ {r} : sender'[o] = sender[o]
    BY <1>0, <1>2 DEF RejectSend, SendersTyped, SenderState
  <2> QED  BY <1>1, <1>2, <2>1 DEF RejectSend
<1>3. CASE SenderDisconnects(r)
  <2>1. SendersTyped' /\ sender'[r].phase = "gone" /\ \A o \in Sender \ {r} : sender'[o] = sender[o]
    BY <1>0, <1>3 DEF SenderDisconnects, SendersTyped, SenderState
  <2> QED  BY <1>1, <1>3, <2>1 DEF SenderDisconnects
<1>4. CASE Poll(r)
  <2> DEFINE current == getTask(sender[r].latest.id)
  <2>1. sender[r].latest \in Task /\ sender[r].latest.id \in TaskId
    BY <1>4 DEF Typed, LocalsBound, Poll, Task
  <2>2. current \in Task
    BY <1>4, <2>1, StoredTasks DEF Poll, Known, Typed
  <2>3. sender' = [sender EXCEPT ![r] =
                      [phase |-> IF isTerminal(current.state) \/ isPaused(current.state)
                                 THEN "answered" ELSE "polling",
                       latest |-> current]]
    BY <1>4 DEF Poll
  <2> HIDE DEF current
  <2>4. SendersTyped' /\ sender'[r].latest \in Task /\ \A o \in Sender \ {r} : sender'[o] = sender[o]
    BY <1>0, <2>2, <2>3 DEF SendersTyped, SenderState
  <2> QED  BY <1>1, <1>4, <2>4 DEF Poll
<1>5. CASE SendMessage(r)
  <2>0. r \in Request
    BY RequestAssumption
  <2> PICK ref \in MessageRef : \E task \in startTask(ref, r) :
         /\ registerPushConfig(r, task)
         /\ enqueue(task)
         /\ recordHome(task)
         /\ \E phase \in {"polling", "answered"} :
              sender' = [sender EXCEPT ![r] = [phase |-> phase, latest |-> task]]
    BY <1>5 DEF SendMessage
  <2>1. PICK task \in startTask(ref, r), phase \in {"polling", "answered"} :
          /\ registerPushConfig(r, task)
          /\ enqueue(task)
          /\ recordHome(task)
          /\ sender' = [sender EXCEPT ![r] = [phase |-> phase, latest |-> task]]
    OBVIOUS
  <2>2. task \in Task
    BY <2>0, StartedTasks DEF Typed
  <2>3. MapsTyped' /\ QueueTyped' /\ ConfigsTyped' /\ HomeTyped'
    BY <2>1, <2>2, SetActiveType, OfferType, RegisterConfigType, RecordHomeEffect
       DEF Typed, enqueue
  <2>4. SendersTyped' /\ sender'[r].latest \in Task /\ \A o \in Sender \ {r} : sender'[o] = sender[o]
    BY <1>0, <2>1, <2>2 DEF SendersTyped, SenderState
  <2>5. UNCHANGED <<stream, subscriber, registryVars>>
    BY <1>5 DEF SendMessage
  <2> QED  BY <2>3, <2>4, <2>5 DEF Typed, StreamsTyped, SubscribersTyped, RegistriesTyped,
             registryVars, LocalsBound, Live
<1> QED  BY <1>2, <1>3, <1>4, <1>5 DEF SenderStep

LEMMA SubscriberStepType ==
  ASSUME Typed, NEW b \in Subscriber, SubscriberStep(b)
  PROVE  Typed'
<1>0. subscriber[b] \in SubscriberState /\ SubscribersTyped
  BY DEF Typed, SubscribersTyped
<1>1. ASSUME UNCHANGED <<storageVars, home, sender, stream, registryVars>>, SubscribersTyped',
             subscriber'[b].phase \in {"polling", "attached"} => subscriber'[b].id \in TaskId,
             \A o \in Subscriber \ {b} : subscriber'[o] = subscriber[o]
      PROVE  Typed'
  BY <1>1 DEF Typed, storageVars, mapVars, queueVars, registryVars, MapsTyped, QueueTyped,
       ConfigsTyped, HomeTyped, StreamsTyped, SendersTyped, RegistriesTyped,
       LocalsBound, Live
<1>2. CASE RejectSubscription(b)
  <2>1. /\ SubscribersTyped' /\ subscriber'[b].phase = "rejected"
        /\ \A o \in Subscriber \ {b} : subscriber'[o] = subscriber[o]
    BY <1>0, <1>2 DEF RejectSubscription, SubscribersTyped, SubscriberState
  <2> QED  BY <1>1, <1>2, <2>1 DEF RejectSubscription
<1>3. CASE SubscriberDisconnects(b)
  <2>1. /\ SubscribersTyped' /\ subscriber'[b].phase = "gone"
        /\ \A o \in Subscriber \ {b} : subscriber'[o] = subscriber[o]
    BY <1>0, <1>3 DEF SubscriberDisconnects, SubscribersTyped, SubscriberState
  <2> QED  BY <1>1, <1>3, <2>1 DEF SubscriberDisconnects
<1>4. CASE PollSubscription(b)
  <2> DEFINE id == subscriber[b].id
  <2>1. id \in TaskId
    BY <1>4 DEF PollSubscription, Typed, LocalsBound
  <2>2. StateOf(id) \in TASK_STATE
    BY <1>4, <2>1, StoredTasks DEF PollSubscription, Typed, Task, StateOf
  <2>3. /\ SubscribersTyped' /\ subscriber'[b].id = id
        /\ \A o \in Subscriber \ {b} : subscriber'[o] = subscriber[o]
    BY <1>0, <1>4, <2>2 DEF PollSubscription, SubscribersTyped, SubscriberState, Shown
  <2> QED  BY <1>1, <1>4, <2>1, <2>3 DEF PollSubscription
<1>5. ASSUME NEW id \in TaskId, Subscribe(b, id)
      PROVE  Typed'
  <2>1. StateOf(id) \in Shown
    BY <1>5, StoredTasks DEF Subscribe, Open, Typed, Task, StateOf, Shown
  <2>2. buses[id] \in Bus \cup {NoStream}
    BY DEF Typed, RegistriesTyped
  <2>3. PICK p \in {"polling", "attached"} : subscriber' = [subscriber EXCEPT ![b] =
          [phase |-> p, id |-> id, bus |-> buses[id], seen |-> StateOf(id)]]
    BY <1>5 DEF Subscribe
  <2>4. /\ SubscribersTyped' /\ subscriber'[b].id = id
        /\ \A o \in Subscriber \ {b} : subscriber'[o] = subscriber[o]
    BY <1>0, <2>1, <2>2, <2>3 DEF SubscribersTyped, SubscriberState
  <2> QED  BY <1>1, <1>5, <2>4 DEF Subscribe
<1> QED  BY <1>2, <1>3, <1>4, <1>5 DEF SubscriberStep

LEMMA StartStreamEffect ==
  ASSUME Typed, NEW s \in Streamer, StartStream(s)
  PROVE  \E task \in Task, working \in Task :
           /\ StartsNew(task) \/ Resumes(task)
           /\ working.id = task.id /\ working.state = "IN_PROGRESS"
           /\ working.messages = task.messages
           /\ setActive(working)
           /\ \/ task.state = "PENDING" /\ offer(task)
              \/ task.state = "IN_PROGRESS" /\ isActive(task.id) /\ UNCHANGED queueVars
           /\ home'[task.id] = task.context
           /\ \A id \in TaskId : id # task.id => home'[id] = home[id]
           /\ \A id \in TaskId :
                /\ controllers'[id] = IF id = task.id THEN s ELSE controllers[id]
                /\ buses'[id] = IF id = task.id /\ buses[id] = NoStream THEN s ELSE buses[id]
           /\ UNCHANGED <<sender, closedBuses>>
           /\ \A o \in Streamer \ {s} : stream'[o] = stream[o]
           /\ stream'[s].phase = "running" /\ stream'[s].task = working
           /\ stream'[s].bus = buses'[task.id]
           /\ stream'[s].shown \in {"IN_PROGRESS", stream[s].shown}
           /\ \A b \in Subscriber :
                /\ subscriber'[b].phase = subscriber[b].phase
                /\ subscriber'[b].id = subscriber[b].id
                /\ subscriber'[b].bus = subscriber[b].bus
                /\ subscriber'[b].seen \in {"IN_PROGRESS", subscriber[b].seen}
           /\ Typed'
<1>0. s \in Request /\ stream[s] \in StreamState
  BY RequestAssumption DEF Typed, StreamsTyped
<1>a. PICK ref \in MessageRef : \E task \in startTask(ref, s) :
       LET working == IF task.state = "PENDING"
                      THEN transitionTask(task, "IN_PROGRESS") ELSE task
           bus     == IF buses[task.id] = NoStream THEN s ELSE buses[task.id]
       IN  /\ registerPushConfig(s, task)
           /\ \/ task.state = "PENDING" /\ setActive(working) /\ offer(task)
              \/ task.state # "PENDING" /\ updateActive(working) /\ UNCHANGED queueVars
           /\ recordHome(task)
           /\ controllers' = [controllers EXCEPT ![task.id] = s]
           /\ buses' = [buses EXCEPT ![task.id] = bus]
           /\ emitStatusEvent(s, [stream[s] EXCEPT !.phase = "running",
                                                   !.task = working,
                                                   !.bus = bus], "IN_PROGRESS")
  BY DEF StartStream
<1>b. PICK task \in startTask(ref, s) :
       LET working == IF task.state = "PENDING"
                      THEN transitionTask(task, "IN_PROGRESS") ELSE task
           bus     == IF buses[task.id] = NoStream THEN s ELSE buses[task.id]
       IN  /\ registerPushConfig(s, task)
           /\ \/ task.state = "PENDING" /\ setActive(working) /\ offer(task)
              \/ task.state # "PENDING" /\ updateActive(working) /\ UNCHANGED queueVars
           /\ recordHome(task)
           /\ controllers' = [controllers EXCEPT ![task.id] = s]
           /\ buses' = [buses EXCEPT ![task.id] = bus]
           /\ emitStatusEvent(s, [stream[s] EXCEPT !.phase = "running",
                                                   !.task = working,
                                                   !.bus = bus], "IN_PROGRESS")
  BY <1>a
<1>1. task \in Task /\ (StartsNew(task) \/ Resumes(task))
  BY <1>0, StartedTasks DEF Typed
<1> DEFINE working == IF task.state = "PENDING" THEN transitionTask(task, "IN_PROGRESS") ELSE task
           bus     == IF buses[task.id] = NoStream THEN s ELSE buses[task.id]
           rec     == [stream[s] EXCEPT !.phase = "running", !.task = working, !.bus = bus]
<1>2. /\ working \in Task /\ working.id = task.id /\ working.state = "IN_PROGRESS"
      /\ working.messages = task.messages
      /\ task.state \in {"PENDING", "IN_PROGRESS"}
  BY <1>1, TransitionType DEF StartsNew, Resumes, TASK_STATE
<1>3. task.id \in TaskId /\ bus \in Bus
  BY <1>1 DEF Task, Typed, RegistriesTyped, Bus
<1>4. /\ rec \in StreamState /\ rec.phase = "running" /\ rec.task = working /\ rec.bus = bus
      /\ rec.shown = stream[s].shown
  <2> HIDE DEF working, bus
  <2> QED  BY <1>0, <1>2, <1>3 DEF StreamState, StreamPhase
<1>5. /\ registerPushConfig(s, task)
      /\ setActive(working)
      /\ \/ task.state = "PENDING" /\ offer(task)
         \/ task.state = "IN_PROGRESS" /\ isActive(task.id) /\ UNCHANGED queueVars
      /\ recordHome(task)
      /\ controllers' = [controllers EXCEPT ![task.id] = s]
      /\ buses' = [buses EXCEPT ![task.id] = bus]
      /\ emitStatusEvent(s, rec, "IN_PROGRESS")
      /\ UNCHANGED <<sender, closedBuses>>
  BY <1>b, <1>2 DEF updateActive, StartStream
<1> HIDE DEF rec, bus, working
<1>6. /\ HomeTyped' /\ home'[task.id] = task.context
      /\ \A id \in TaskId : id # task.id => home'[id] = home[id]
  BY <1>1, <1>5, RecordHomeEffect DEF Typed
<1>7. MapsTyped' /\ ConfigsTyped'
  BY <1>1, <1>2, <1>5, SetActiveType, RegisterConfigType DEF Typed
<1>8. QueueTyped'
  <2>1. CASE offer(task)
    BY <1>1, <2>1, OfferType DEF Typed
  <2>2. CASE UNCHANGED queueVars
    BY <2>2 DEF Typed, QueueTyped, queueVars
  <2> QED  BY <1>5, <2>1, <2>2
<1>9. /\ RegistriesTyped'
      /\ \A id \in TaskId :
           /\ controllers'[id] = IF id = task.id THEN s ELSE controllers[id]
           /\ buses'[id] = IF id = task.id /\ buses[id] = NoStream THEN s ELSE buses[id]
      /\ buses'[task.id] = bus
  <2>1. /\ controllers \in [TaskId -> Streamer \cup {NoStream}]
        /\ buses \in [TaskId -> Bus \cup {NoStream}]
        /\ closedBuses' = closedBuses
    BY <1>5 DEF Typed, RegistriesTyped, Bus
  <2>2. /\ controllers' = [controllers EXCEPT ![task.id] = s]
        /\ buses' = [buses EXCEPT ![task.id] = bus]
    BY <1>5
  <2>3. controllers' \in [TaskId -> Streamer \cup {NoStream}] /\ buses' \in [TaskId -> Bus \cup {NoStream}]
    BY <1>3, <2>1, <2>2 DEF Bus
  <2>4. \A id \in TaskId :
          /\ controllers'[id] = IF id = task.id THEN s ELSE controllers[id]
          /\ buses'[id] = IF id = task.id THEN bus ELSE buses[id]
    BY <2>1, <2>2
  <2>5. \A id \in TaskId :
          buses'[id] = IF id = task.id /\ buses[id] = NoStream THEN s ELSE buses[id]
    BY <2>4 DEF bus
  <2> QED  BY <1>3, <2>1, <2>3, <2>4, <2>5 DEF Typed, RegistriesTyped, Bus
<1>10. /\ StreamsTyped' /\ SubscribersTyped'
       /\ \A o \in Streamer \ {s} : stream'[o] = stream[o]
       /\ stream'[s].phase = "running" /\ stream'[s].task = working
       /\ stream'[s].bus = bus
       /\ stream'[s].shown \in {"IN_PROGRESS", stream[s].shown}
       /\ \A b \in Subscriber :
            /\ subscriber'[b].phase = subscriber[b].phase
            /\ subscriber'[b].id = subscriber[b].id
            /\ subscriber'[b].bus = subscriber[b].bus
            /\ subscriber'[b].seen \in {"IN_PROGRESS", subscriber[b].seen}
  <2>1. "IN_PROGRESS" \in Shown
    BY DEF Shown, TASK_STATE
  <2> QED  BY <1>4, <1>5, <2>1, EmitEffect DEF Typed
<1>11. LocalsBound'
  BY <1>2, <1>3, <1>5, <1>10 DEF Typed, LocalsBound, Live
<1>12. Typed'
  BY <1>5, <1>6, <1>7, <1>8, <1>9, <1>10, <1>11 DEF Typed, SendersTyped
<1> QED  BY <1>1, <1>2, <1>5, <1>6, <1>9, <1>10, <1>12

LEMMA StreamStatusEffect ==
  ASSUME Typed, NEW s \in Streamer, NEW state \in TASK_STATE, StreamStatus(s, state)
  PROVE  \E next \in Task :
           /\ next.id = stream[s].task.id /\ next.state = state
           /\ next.messages = stream[s].task.messages
           /\ setActive(next)
           /\ \A o \in Streamer \ {s} : stream'[o] = stream[o]
           /\ stream'[s].phase = IF isTerminal(state) THEN "leaving" ELSE "running"
           /\ stream'[s].task = next
           /\ stream'[s].aborted = stream[s].aborted
           /\ stream'[s].bus = stream[s].bus
           /\ stream'[s].shown \in {state, stream[s].shown}
           /\ \A b \in Subscriber :
                /\ subscriber'[b].phase = subscriber[b].phase
                /\ subscriber'[b].id = subscriber[b].id
                /\ subscriber'[b].bus = subscriber[b].bus
                /\ \/ subscriber'[b].seen = subscriber[b].seen
                   \/ /\ subscriber[b].phase = "attached"
                      /\ subscriber[b].bus = stream[s].bus
                      /\ subscriber'[b].seen = state
           /\ Typed'
<1>0. stream[s].task \in Task /\ stream[s] \in StreamState
  BY DEF StreamStatus, Typed, LocalsBound, Live, StreamsTyped
<1> DEFINE next == transitionTask(stream[s].task, state)
           rec  == [stream[s] EXCEPT !.task = next,
                                     !.phase = IF isTerminal(state) THEN "leaving" ELSE "running"]
<1>1. /\ next \in Task /\ next.id = stream[s].task.id /\ next.state = state
      /\ next.messages = stream[s].task.messages
  BY <1>0, TransitionType
<1>2. /\ setActive(next)
      /\ emitStatusEvent(s, rec, state)
      /\ UNCHANGED <<queueVars, pushConfigs, home, sender, registryVars>>
  BY DEF StreamStatus, updateActive
<1> HIDE DEF next
<1>3. /\ rec \in StreamState /\ rec.task = next
      /\ rec.phase = IF isTerminal(state) THEN "leaving" ELSE "running"
      /\ rec.aborted = stream[s].aborted /\ rec.bus = stream[s].bus
      /\ rec.shown = stream[s].shown
  BY <1>0, <1>1 DEF StreamState, StreamPhase
<1> HIDE DEF rec
<1>4. /\ StreamsTyped' /\ SubscribersTyped'
      /\ \A o \in Streamer \ {s} : stream'[o] = stream[o]
      /\ stream'[s].phase = rec.phase /\ stream'[s].task = next
      /\ stream'[s].aborted = rec.aborted
      /\ stream'[s].bus = rec.bus
      /\ stream'[s].shown \in {state, stream[s].shown}
      /\ \A b \in Subscriber :
           /\ subscriber'[b].phase = subscriber[b].phase
           /\ subscriber'[b].id = subscriber[b].id
           /\ subscriber'[b].bus = subscriber[b].bus
           /\ \/ subscriber'[b].seen = subscriber[b].seen
              \/ /\ subscriber[b].phase = "attached"
                 /\ subscriber[b].bus = stream[s].bus
                 /\ subscriber'[b].seen = state
  <2>1. state \in Shown
    BY DEF Shown
  <2> QED  BY <1>2, <1>3, <2>1, EmitEffect DEF Typed
<1>5. LocalsBound'
  <2>1. \A o \in Streamer : Live(o)' => Live(o)
    BY <1>4 DEF Live, StreamStatus
  <2>2. Live(s)
    BY DEF Live, StreamStatus
  <2> QED  BY <1>1, <1>2, <1>3, <1>4, <2>1, <2>2 DEF Typed, LocalsBound
<1>6. MapsTyped'
  BY <1>1, <1>2, SetActiveType DEF Typed
<1>7. Typed'
  BY <1>2, <1>4, <1>5, <1>6 DEF Typed, QueueTyped, ConfigsTyped, HomeTyped, SendersTyped,
       RegistriesTyped, queueVars, registryVars
<1> QED  BY <1>1, <1>2, <1>3, <1>4, <1>7

LEMMA EndsType ==
  ASSUME Typed, NEW s \in Streamer, Live(s), NEW final \in Task, NEW tells \in BOOLEAN,
         Ends(s, final, tells), MapsTyped', UNCHANGED <<queueVars, pushConfigs, home, sender>>
  PROVE  Typed'
<1>1. stream[s].task \in Task /\ stream[s].bus \in Bus
  BY DEF Typed, LocalsBound
<1>2. /\ StreamsTyped' /\ SubscribersTyped' /\ RegistriesTyped'
      /\ \A o \in Streamer \ {s} : stream'[o] = stream[o]
      /\ stream'[s].phase = "done"
      /\ \A b \in Subscriber :
              /\ subscriber'[b].phase \in {"closed", subscriber[b].phase}
              /\ subscriber'[b].id = subscriber[b].id
  BY <1>1, EndsEffect DEF Typed
<1>3. LocalsBound'
  BY <1>2 DEF Typed, LocalsBound, Live
<1> QED  BY <1>2, <1>3 DEF Typed, QueueTyped, ConfigsTyped, HomeTyped, SendersTyped, queueVars

LEMMA StreamPausesEffect ==
  ASSUME Typed, NEW s \in Streamer, StreamPauses(s)
  PROVE  \E next \in Task :
           /\ next.id = stream[s].task.id /\ next.state = "INPUT_REQUIRED"
           /\ next.messages = stream[s].task.messages
           /\ setActive(next)
           /\ \E tells \in BOOLEAN : Ends(s, next, tells)
           /\ Typed'
<1>0. stream[s].task \in Task /\ stream[s] \in StreamState /\ Live(s)
  BY DEF StreamPauses, Typed, LocalsBound, Live, StreamsTyped
<1> DEFINE next  == transitionTask(stream[s].task, "INPUT_REQUIRED")
           tells == ~stream[s].gone
<1>1. /\ next \in Task /\ next.id = stream[s].task.id /\ next.state = "INPUT_REQUIRED"
      /\ next.messages = stream[s].task.messages
  BY <1>0, TransitionType DEF TASK_STATE
<1>2. /\ setActive(next)
      /\ stream' = [stream EXCEPT ![s].phase = "done", ![s].task = next,
                                  ![s].shown = IF stream[s].gone THEN @
                                               ELSE "INPUT_REQUIRED"]
      /\ Release(s, IF stream[s].gone THEN subscriber
                    ELSE Published(stream[s].bus, "INPUT_REQUIRED"))
      /\ UNCHANGED <<queueVars, pushConfigs, home, sender>>
  BY DEF StreamPauses, updateActive
<1> HIDE DEF next
<1>3. Ends(s, next, tells)
  <2>1. CASE stream[s].gone
    BY <1>1, <1>2, <2>1 DEF Ends
  <2>2. CASE ~stream[s].gone
    BY <1>1, <1>2, <2>2 DEF Ends
  <2> QED  BY <2>1, <2>2
<1>4. MapsTyped'
  BY <1>1, <1>2, SetActiveType DEF Typed
<1>5. tells \in BOOLEAN
  OBVIOUS
<1> HIDE DEF tells
<1>6. Typed'
  BY <1>0, <1>1, <1>2, <1>3, <1>4, <1>5, EndsType
<1> QED  BY <1>1, <1>2, <1>3, <1>5, <1>6

(* A stream that ends makes its last transition, or leaves the task as it  *)
(* finds it, or, with a terminal snapshot that is not stored, files it.    *)
LEMMA EndStreamEffect ==
  ASSUME Typed, NEW s \in Streamer, Live(s), NEW threw \in BOOLEAN, EndStream(s, threw)
  PROVE  \E final \in Task, tells \in BOOLEAN :
           LET id == stream[s].task.id
           IN  /\ final.id = id /\ final.messages = stream[s].task.messages
               /\ Ends(s, final, tells)
               /\ \/ /\ ~isTerminal(stream[s].task.state) /\ isActive(id)
                     /\ canTransition(stream[s].task.state, final.state)
                     /\ isTerminal(final.state)
                     /\ setActive(final)
                  \/ /\ ~tells /\ final = stream[s].task
                     /\ isTerminal(final.state)
                     /\ ~(Known(id) /\ isTerminal(StateOf(id)))
                     /\ storeDeadLetter(final)
                  \/ /\ ~tells /\ final = stream[s].task
                     /\ isTerminal(final.state)
                          \/ \E goal \in TERMINAL_STATES : ~CanPersist(final, goal)
                     /\ UNCHANGED mapVars
               /\ UNCHANGED <<queueVars, home, sender>>
               /\ Typed'
<1> DEFINE rec    == stream[s]
           goal   == IF rec.aborted THEN "CANCELLED" ELSE IF threw THEN "FAILED" ELSE "COMPLETED"
           moves  == ~isTerminal(rec.task.state) /\ CanPersist(rec.task, goal)
           final  == IF moves THEN transitionTask(rec.task, goal) ELSE rec.task
           tells  == moves /\ ~rec.gone
<1>0. stream[s].task \in Task
  BY DEF Typed, LocalsBound
<1>1. goal \in TERMINAL_STATES /\ goal \in TASK_STATE /\ isTerminal(goal)
  BY DEF TERMINAL_STATES, TASK_STATE, isTerminal
<1>2. /\ IF moves THEN setActive(final)
         ELSE IF isTerminal(final.state) /\ ~(Known(final.id) /\ isTerminal(StateOf(final.id)))
         THEN storeDeadLetter(final)
         ELSE UNCHANGED mapVars
      /\ stream' = [stream EXCEPT ![s].phase = "done", ![s].task = final,
                                  ![s].shown = IF tells THEN goal ELSE @]
      /\ Release(s, IF tells THEN Published(rec.bus, goal) ELSE subscriber)
      /\ UNCHANGED <<queueVars, pushConfigs, home, sender>>
  BY DEF EndStream
<1> HIDE DEF goal
<1>3. /\ final \in Task /\ final.id = rec.task.id /\ final.messages = rec.task.messages
      /\ moves => final.state = goal
  BY <1>0, <1>1, TransitionType
<1>4. tells \in BOOLEAN /\ (tells => moves)
  OBVIOUS
<1>5. Ends(s, final, tells)
  <2>1. CASE tells
    <3>1. final.state = goal
      BY <1>3, <1>4, <2>1
    <3> HIDE DEF final, tells
    <3> QED  BY <1>2, <2>1, <3>1 DEF Ends
  <2>2. CASE ~tells
    <3> HIDE DEF final, tells
    <3> QED  BY <1>2, <2>2 DEF Ends
  <2> QED  BY <2>1, <2>2
<1>6. MapsTyped'
  <2>1. setActive(final) \/ storeDeadLetter(final) \/ UNCHANGED mapVars
    BY <1>2
  <2> HIDE DEF final, moves
  <2>2. CASE UNCHANGED mapVars
    BY <2>2 DEF Typed, MapsTyped, mapVars
  <2> QED  BY <1>3, <2>1, <2>2, SetActiveType, StoreDeadLetterType DEF Typed
<1>7. Typed'
  <2> HIDE DEF final, tells, moves
  <2> QED  BY <1>2, <1>3, <1>4, <1>5, <1>6, EndsType
<1>8. CASE moves
  <2>1. /\ ~isTerminal(rec.task.state) /\ isActive(rec.task.id)
        /\ canTransition(rec.task.state, final.state)
        /\ isTerminal(final.state)
        /\ setActive(final)
    BY <1>1, <1>2, <1>3, <1>8 DEF CanPersist
  <2> HIDE DEF final, tells, moves
  <2> QED  BY <1>2, <1>3, <1>4, <1>5, <1>7, <2>1
<1>9. CASE ~moves
  <2>1. ~tells /\ final = rec.task
    BY <1>9
  <2>2. isTerminal(final.state) \/ ~CanPersist(final, goal)
    BY <1>9
  <2> HIDE DEF final, tells
  <2>3. \/ isTerminal(final.state) /\ ~(Known(final.id) /\ isTerminal(StateOf(final.id)))
           /\ storeDeadLetter(final)
        \/ UNCHANGED mapVars
    BY <1>2, <1>9
  <2> HIDE DEF moves
  <2> QED  BY <1>1, <1>2, <1>3, <1>4, <1>5, <1>7, <2>1, <2>2, <2>3
<1> QED  BY <1>8, <1>9

(* The steps of a stream that touch nothing but the stream itself.         *)
StreamQuiet(s) ==
  RejectStream(s) \/ StreamEventFails(s) \/ StreamBreaks(s) \/ StreamDisconnects(s)

LEMMA StreamQuietEffect ==
  ASSUME Typed, NEW s \in Streamer, StreamQuiet(s)
  PROVE  /\ UNCHANGED <<storageVars, home, sender, subscriber, registryVars>>
         /\ \A o \in Streamer \ {s} : stream'[o] = stream[o]
         /\ stream'[s].task = stream[s].task /\ stream'[s].bus = stream[s].bus
         /\ stream'[s].shown = stream[s].shown
         /\ stream[s].aborted => stream'[s].aborted
         /\ Live(s)' <=> Live(s)
         /\ stream'[s].phase # "idle"
         /\ stream'[s].phase = "done" <=> stream[s].phase = "done"
         /\ stream[s].phase = "leaving" => stream'[s].phase = "leaving"
         /\ Typed'
<1>0. stream[s] \in StreamState /\ StreamsTyped
  BY DEF Typed, StreamsTyped
<1>1. \E p \in StreamPhase, a, g \in BOOLEAN :
        /\ stream' = [stream EXCEPT ![s] = [stream[s] EXCEPT !.phase = p, !.aborted = a, !.gone = g]]
        /\ stream[s].aborted => a
        /\ p # "idle" /\ p # "done" /\ stream[s].phase # "done"
        /\ stream[s].phase = "leaving" => p = "leaving"
        /\ p \in {"running", "leaving", "failing"} <=> Live(s)
  <2>1. CASE RejectStream(s)
    <3>1. stream' = [stream EXCEPT ![s] = [stream[s] EXCEPT !.phase = "rejected",
                       !.aborted = stream[s].aborted, !.gone = stream[s].gone]]
      BY <1>0, <2>1 DEF RejectStream, StreamState, StreamsTyped
    <3> QED  BY <1>0, <2>1, <3>1, StreamFields DEF RejectStream, StreamPhase, Live
  <2>2. CASE StreamEventFails(s)
    <3>1. stream' = [stream EXCEPT ![s] = [stream[s] EXCEPT !.phase = "failing",
                       !.aborted = stream[s].aborted, !.gone = stream[s].gone]]
      BY <1>0, <2>2 DEF StreamEventFails, StreamState, StreamsTyped
    <3> QED  BY <1>0, <2>2, <3>1, StreamFields DEF StreamEventFails, StreamPhase, Live
  <2>3. CASE StreamBreaks(s)
    <3>1. stream' = [stream EXCEPT ![s] = [stream[s] EXCEPT !.phase = "leaving",
                       !.aborted = stream[s].aborted, !.gone = stream[s].gone]]
      BY <1>0, <2>3 DEF StreamBreaks, StreamState, StreamsTyped
    <3> QED  BY <1>0, <2>3, <3>1, StreamFields DEF StreamBreaks, StreamPhase, Live
  <2>4. CASE StreamDisconnects(s)
    <3>1. stream' = [stream EXCEPT ![s] = [stream[s] EXCEPT !.phase = stream[s].phase,
                       !.aborted = TRUE, !.gone = TRUE]]
      BY <1>0, <2>4 DEF StreamDisconnects, StreamState, StreamsTyped
    <3> QED  BY <1>0, <2>4, <3>1, StreamFields DEF StreamDisconnects, StreamPhase, Live
  <2> QED  BY <2>1, <2>2, <2>3, <2>4 DEF StreamQuiet
<1>2. PICK p \in StreamPhase, a \in BOOLEAN, g \in BOOLEAN :
        /\ stream' = [stream EXCEPT ![s] = [stream[s] EXCEPT !.phase = p, !.aborted = a, !.gone = g]]
        /\ stream[s].aborted => a
        /\ p # "idle" /\ p # "done" /\ stream[s].phase # "done"
        /\ stream[s].phase = "leaving" => p = "leaving"
        /\ p \in {"running", "leaving", "failing"} <=> Live(s)
  BY <1>1
<1> DEFINE rec == [stream[s] EXCEPT !.phase = p, !.aborted = a, !.gone = g]
<1>3. /\ rec \in StreamState /\ rec.phase = p /\ rec.aborted = a /\ rec.task = stream[s].task
      /\ rec.bus = stream[s].bus /\ rec.shown = stream[s].shown
  BY <1>0 DEF StreamState
<1>4. stream' = [stream EXCEPT ![s] = rec]
  BY <1>2
<1> HIDE DEF rec
<1>5. StreamsTyped' /\ stream'[s] = rec /\ \A o \in Streamer \ {s} : stream'[o] = stream[o]
  BY <1>0, <1>3, <1>4, StreamMoves
<1>6. UNCHANGED <<storageVars, home, sender, subscriber, registryVars>>
  BY DEF StreamQuiet, RejectStream, StreamEventFails, StreamBreaks, StreamDisconnects
<1>7. Live(s)' <=> Live(s)
  BY <1>2, <1>3, <1>5 DEF Live
<1>8. LocalsBound'
  <2>1. \A o \in Streamer : Live(o)' => Live(o) /\ stream'[o].task = stream[o].task
                                        /\ stream'[o].bus = stream[o].bus
    BY <1>3, <1>5, <1>7 DEF Live
  <2> QED  BY <1>6, <2>1 DEF Typed, LocalsBound
<1>9. Typed'
  BY <1>5, <1>6, <1>8 DEF Typed, storageVars, mapVars, queueVars, registryVars, MapsTyped,
       QueueTyped, ConfigsTyped, HomeTyped, SendersTyped, SubscribersTyped, RegistriesTyped
<1> QED  BY <1>2, <1>3, <1>5, <1>6, <1>7, <1>9

LEMMA StreamArtifactType ==
  ASSUME Typed, NEW s \in Streamer, StreamArtifact(s)
  PROVE  stream[s].task \in Task /\ setActive(stream[s].task) /\ Typed'
<1>1. stream[s].task \in Task
  BY DEF Typed, LocalsBound, Live, StreamArtifact
<1>2. setActive(stream[s].task)
  BY DEF StreamArtifact, updateActive
<1>3. MapsTyped'
  BY <1>1, <1>2, SetActiveType DEF Typed
<1> QED  BY <1>1, <1>2, <1>3 DEF StreamArtifact, Typed, queueVars, requestVars, registryVars,
           QueueTyped, ConfigsTyped, HomeTyped, SendersTyped, StreamsTyped, SubscribersTyped,
           RegistriesTyped, LocalsBound, Live

(* A cancelled task is filed, and the stream registered for it, if any, is *)
(* told to stop.                                                           *)
LEMMA CancelTaskEffect ==
  ASSUME Typed, NEW id \in TaskId, CancelTask(id)
  PROVE  \E task \in Task :
           /\ Open(id)
           /\ task.id = getTask(id).id /\ task.state = "CANCELLED"
           /\ task.messages = getTask(id).messages
           /\ storeDeadLetter(task)
           /\ IF StateOf(id) = "PENDING" THEN removeFromQueue(id) ELSE UNCHANGED queueVars
           /\ \A i \in TaskId : controllers'[i] = IF i = id THEN NoStream ELSE controllers[i]
           /\ \A s \in Streamer :
                /\ stream'[s].phase = stream[s].phase /\ stream'[s].task = stream[s].task
                /\ stream'[s].bus = stream[s].bus /\ stream'[s].shown = stream[s].shown
                /\ stream[s].aborted => stream'[s].aborted
                /\ s = controllers[id] => stream'[s].aborted
           /\ UNCHANGED <<pushConfigs, home, sender, subscriber, buses, closedBuses>>
           /\ Typed'
<1> DEFINE task == transitionTask(getTask(id), "CANCELLED")
<1>1. getTask(id) \in Task
  BY StoredTasks DEF CancelTask, Open, Typed
<1>2. /\ task \in Task /\ task.id = getTask(id).id /\ task.state = "CANCELLED"
      /\ task.messages = getTask(id).messages
  BY <1>1, TransitionType DEF TASK_STATE
<1>3. /\ Open(id)
      /\ IF StateOf(id) = "PENDING" THEN removeFromQueue(id) ELSE UNCHANGED queueVars
      /\ controllers' = [controllers EXCEPT ![id] = NoStream]
      /\ stream' = [s \in Streamer |->
                      IF s = controllers[id] THEN [stream[s] EXCEPT !.aborted = TRUE] ELSE stream[s]]
      /\ storeDeadLetter(task)
      /\ UNCHANGED <<pushConfigs, home, sender, subscriber, buses, closedBuses>>
  BY DEF CancelTask
<1> HIDE DEF task
<1>4. \A s \in Streamer : stream[s] \in StreamState
  BY DEF Typed, StreamsTyped
<1>5. StreamsTyped'
  BY <1>3, <1>4, StreamFields DEF StreamsTyped
<1>6. \A s \in Streamer :
        /\ stream'[s].phase = stream[s].phase /\ stream'[s].task = stream[s].task
        /\ stream'[s].bus = stream[s].bus /\ stream'[s].shown = stream[s].shown
        /\ stream[s].aborted => stream'[s].aborted
        /\ s = controllers[id] => stream'[s].aborted
  BY <1>3, <1>4 DEF StreamState
<1>7. \A i \in TaskId : controllers'[i] = IF i = id THEN NoStream ELSE controllers[i]
  BY <1>3 DEF Typed, RegistriesTyped
<1>8. MapsTyped' /\ QueueTyped' /\ RegistriesTyped'
  <2>1. MapsTyped'
    BY <1>2, <1>3, StoreDeadLetterType DEF Typed
  <2>2. QueueTyped'
    BY <1>3, RemoveFromQueueType DEF Typed, QueueTyped, queueVars
  <2>3. RegistriesTyped'
    BY <1>3 DEF Typed, RegistriesTyped
  <2> QED  BY <2>1, <2>2, <2>3
<1>9. LocalsBound'
  BY <1>3, <1>6 DEF Typed, LocalsBound, Live
<1>10. Typed'
  BY <1>3, <1>5, <1>8, <1>9 DEF Typed, ConfigsTyped, HomeTyped, SendersTyped, SubscribersTyped
<1> QED  BY <1>2, <1>3, <1>6, <1>7, <1>10

LEMMA RetentionSweepEffect ==
  ASSUME Typed, RetentionSweep
  PROVE  /\ \E ids \in SUBSET TaskId : evict(ids)
         /\ UNCHANGED <<queueVars, pushConfigs, home, requestVars, registryVars>>
         /\ Typed'
<1>1. PICK ids \in SUBSET TaskId : evict(ids)
  BY RetentionEvicts DEF RetentionSweep
<1>2. UNCHANGED <<queueVars, pushConfigs, home, requestVars, registryVars>>
  BY DEF RetentionSweep
<1>3. MapsTyped'
  BY <1>1, EvictType DEF Typed
<1>4. Typed'
  BY <1>2, <1>3 DEF Typed, queueVars, requestVars, registryVars,
           QueueTyped, ConfigsTyped, HomeTyped, SendersTyped, StreamsTyped, SubscribersTyped,
           RegistriesTyped, LocalsBound, Live
<1> QED  BY <1>1, <1>2, <1>4

(* A worker asks for its next entry; before, it may settle the one it has. *)
LEMMA WorkerStepEffect ==
  ASSUME Typed, NEW w \in Worker, WorkerStep(w)
  PROVE  /\ dequeue(w)
         /\ \/ UNCHANGED mapVars /\ (resolved[w] = NoTask \/ ~Runnable(resolved[w]))
            \/ /\ resolved[w] \in Task /\ Runnable(resolved[w]) /\ isActive(resolved[w].id)
               /\ \E result \in Task :
                    /\ result.id = resolved[w].id
                    /\ result.state \in {"COMPLETED", "FAILED", "INPUT_REQUIRED"}
                    /\ result.messages = resolved[w].messages
                    /\ IF isTerminal(result.state) THEN storeDeadLetter(result)
                       ELSE setActive(result)
         /\ UNCHANGED <<pushConfigs, home, requestVars, registryVars>>
         /\ Typed'
<1>1. dequeue(w) /\ UNCHANGED <<pushConfigs, home, requestVars, registryVars>>
  BY DEF WorkerStep, WorkerStarts, WorkerSkips, WorkerRuns
<1>2. \/ UNCHANGED mapVars /\ (resolved[w] = NoTask \/ ~Runnable(resolved[w]))
      \/ /\ resolved[w] \in Task /\ Runnable(resolved[w]) /\ isActive(resolved[w].id)
         /\ \E result \in Task :
              /\ result.id = resolved[w].id
              /\ result.state \in {"COMPLETED", "FAILED", "INPUT_REQUIRED"}
              /\ result.messages = resolved[w].messages
              /\ IF isTerminal(result.state) THEN storeDeadLetter(result) ELSE setActive(result)
  <2>1. CASE WorkerStarts(w) \/ WorkerSkips(w)
    BY <2>1 DEF WorkerStarts, WorkerSkips
  <2>2. CASE WorkerRuns(w)
    <3>1. resolved[w] \in Task /\ Runnable(resolved[w]) /\ isActive(resolved[w].id)
      BY <2>2 DEF WorkerRuns, Typed, QueueTyped
    <3>2. PICK state \in {"COMPLETED", "FAILED", "INPUT_REQUIRED"} :
            LET result == transitionTask(resolved[w], state)
            IN  IF isTerminal(result.state) THEN storeDeadLetter(result) ELSE setActive(result)
      BY <2>2 DEF WorkerRuns, handleTask
    <3> DEFINE result == transitionTask(resolved[w], state)
    <3>3. /\ result \in Task /\ result.id = resolved[w].id
          /\ result.state = state /\ result.messages = resolved[w].messages
      BY <3>1, TransitionType DEF TASK_STATE
    <3>4. IF isTerminal(result.state) THEN storeDeadLetter(result) ELSE setActive(result)
      BY <3>2
    <3> HIDE DEF result
    <3> QED  BY <3>1, <3>3, <3>4
  <2> QED  BY <2>1, <2>2 DEF WorkerStep
<1>3. MapsTyped'
  <2>1. CASE UNCHANGED mapVars
    BY <2>1 DEF Typed, MapsTyped, mapVars
  <2>2. ASSUME NEW result \in Task, storeDeadLetter(result) \/ setActive(result)
        PROVE  MapsTyped'
    BY <2>2, SetActiveType, StoreDeadLetterType DEF Typed
  <2> QED  BY <1>2, <2>1, <2>2
<1>4. QueueTyped'
  BY <1>1, DequeueType DEF Typed
<1>5. Typed'
  BY <1>1, <1>3, <1>4 DEF Typed, requestVars, registryVars, ConfigsTyped, HomeTyped,
       SendersTyped, StreamsTyped, SubscribersTyped, RegistriesTyped, LocalsBound, Live
<1> QED  BY <1>1, <1>2, <1>5

LEMMA InitTyped == Init => Typed
<1> SUFFICES ASSUME Init PROVE Typed
  OBVIOUS
<1>1. MapsTyped /\ QueueTyped /\ ConfigsTyped
  BY EmptySeq DEF Init, ServerInit, StorageInit, MapsTyped, QueueTyped, ConfigsTyped
<1>2. HomeTyped /\ SendersTyped /\ RegistriesTyped
  BY DEF Init, ServerInit, HomeTyped, SendersTyped, RegistriesTyped, SenderState
<1>3. StreamsTyped /\ SubscribersTyped
  BY DEF Init, ServerInit, StreamsTyped, SubscribersTyped, StreamState, SubscriberState,
         StreamPhase, Shown
<1>4. LocalsBound
  BY DEF Init, ServerInit, LocalsBound, Live
<1> QED  BY <1>1, <1>2, <1>3, <1>4 DEF Typed

LEMMA NextTyped == Typed /\ [Next]_vars => Typed'
<1> SUFFICES ASSUME Typed, [Next]_vars PROVE Typed'
  OBVIOUS
<1>1. ASSUME NEW s \in Streamer, StreamStep(s)
      PROVE  Typed'
  <2>1. CASE StreamQuiet(s)
    BY <2>1, StreamQuietEffect
  <2>2. CASE StartStream(s)
    BY <2>2, StartStreamEffect
  <2>3. ASSUME NEW state \in TASK_STATE, StreamStatus(s, state)
        PROVE  Typed'
    BY <2>3, StreamStatusEffect
  <2>4. CASE StreamPauses(s)
    BY <2>4, StreamPausesEffect
  <2>5. CASE StreamArtifact(s)
    BY <2>5, StreamArtifactType
  <2>6. CASE StreamReturns(s) \/ StreamThrows(s)
    <3>1. Live(s) /\ \E threw \in BOOLEAN : EndStream(s, threw)
      BY <2>6 DEF StreamReturns, StreamThrows, Live
    <3> QED  BY <3>1, EndStreamEffect
  <2> QED  BY <1>1, <2>1, <2>2, <2>3, <2>4, <2>5, <2>6 DEF StreamStep, StreamQuiet
<1>2. CASE UNCHANGED vars
  BY <1>2 DEF vars, serverVars, storageVars, mapVars, queueVars, requestVars, registryVars,
       Typed, MapsTyped, QueueTyped, ConfigsTyped, HomeTyped, SendersTyped, StreamsTyped,
       SubscribersTyped, RegistriesTyped, LocalsBound, Live
<1> QED
  BY <1>1, <1>2, SenderStepType, SubscriberStepType, CancelTaskEffect, RetentionSweepEffect,
     WorkerStepEffect DEF Next, ServerNext

(* Storage, registries and requests keep their shape, whatever the         *)
(* executors do and however many actors there are.                         *)
THEOREM ServerTypeCorrect == Spec => []ServerTypeOK
BY InitTyped, NextTyped, TypedParts, PTL DEF Spec

-----------------------------------------------------------------------------
(* The inductive invariant                                                 *)

(* A stored task stands under its own, minted id, and is terminal once it  *)
(* has left the active map.                                                *)
Filed ==
  \A id \in TaskId :
    Known(id) => /\ getTask(id).id = id
                 /\ Minted(id)
                 /\ isActive(id) \/ isTerminal(StateOf(id))

(* An entry a worker would run is the stored task itself, and a task that  *)
(* was queued for being resumed never pauses while its entry is about.     *)
EntriesSound ==
  \A e \in Entries :
    /\ Minted(e.id)
    /\ e.state \in {"PENDING", "IN_PROGRESS"}
    /\ Runnable(e) => getTask(e.id) = e
    /\ e.state = "IN_PROGRESS" /\ Known(e.id) =>
         StateOf(e.id) \in {"IN_PROGRESS"} \cup TERMINAL_STATES

(* The stream works on the task, or did.                                   *)
Names(s, id) == stream[s].task # NoTask /\ stream[s].task.id = id

Runs(s, id) == Live(s) /\ stream[s].task.id = id

(* A live stream's snapshot is the stored task for as long as that is      *)
(* active, its controller the registered one; once it is not, the stream   *)
(* has been aborted.  Nobody else is to run the task.                      *)
HoldsTask(s, id) ==
  /\ stream[s].task.state \in {"IN_PROGRESS"} \cup TERMINAL_STATES
  /\ stream[s].phase # "leaving" => stream[s].task.state = "IN_PROGRESS"
  /\ isActive(id) => getTask(id) = stream[s].task /\ controllers[id] = s
  /\ ~isActive(id) => stream[s].aborted /\ stream[s].task.state = "IN_PROGRESS"
  /\ getTask(id) \notin Entries

StreamSound(s) ==
  /\ stream[s].phase = "idle" => stream[s].task = NoTask /\ stream[s].shown = NotShown
  /\ \A id \in TaskId : Names(s, id) => Minted(id)
  /\ \A id \in TaskId : Runs(s, id) => HoldsTask(s, id)

StreamsSound == \A s \in Streamer : StreamSound(s)

(* A pending task has its entry and no stream yet, one in progress has an  *)
(* entry or a live stream.                                                 *)
Owned ==
  \A id \in TaskId :
    Known(id) =>
      /\ StateOf(id) = "PENDING" =>
           getTask(id) \in Entries /\ \A s \in Streamer : ~Names(s, id)
      /\ StateOf(id) = "IN_PROGRESS" =>
           getTask(id) \in Entries \/ \E s \in Streamer : Runs(s, id)

(* The registries name live streams on the right tasks; a live stream      *)
(* publishes on the bus it opened, and only buses of ended streams are     *)
(* closed.                                                                 *)
RegistriesSound ==
  /\ \A id \in TaskId, s \in Streamer : controllers[id] = s \/ buses[id] = s => Runs(s, id)
  /\ \A id \in TaskId, s \in Streamer : Runs(s, id) => stream[s].bus = s /\ buses[id] = s
  /\ \A s \in closedBuses : stream[s].phase = "done"

SubscribersSound ==
  /\ \A b \in Subscriber, id \in TaskId : subscriber[b].id = id => Minted(id)
  /\ \A b \in Subscriber :
       subscriber[b].phase = "attached" =>
         \E s \in Streamer, id \in TaskId :
           subscriber[b].bus = s /\ subscriber[b].id = id /\ Runs(s, id)

(* The task of the last answer a sender was given.                         *)
Answered(r, id) == sender[r].latest # NoTask /\ sender[r].latest.id = id

SendersSound == \A r \in Sender, id \in TaskId : Answered(r, id) => Minted(id)

(* TerminalAnswersStand, by task id.                                       *)
Stands(id, state) == isTerminal(state) /\ Known(id) => StateOf(id) = state

AnswersStand ==
  \A id \in TaskId :
    /\ \A s \in Streamer : Names(s, id) => Stands(id, stream[s].shown)
    /\ \A b \in Subscriber : subscriber[b].id = id => Stands(id, subscriber[b].seen)
    /\ \A r \in Sender : Answered(r, id) => Stands(id, sender[r].latest.state)

QueueSound == HandoffDiscipline /\ EntriesOnce

TasksSound == Filed /\ EntriesSound /\ Owned /\ StreamsSound

ClientsSound == SubscribersSound /\ SendersSound /\ AnswersStand

Inv == Typed /\ QueueSound /\ TasksSound /\ RegistriesSound /\ ClientsSound

(* What every step does to the tasks there are: they stay minted, move     *)
(* along the lifecycle, keep their messages, and never come back.          *)
TasksAdvance ==
  \A id \in TaskId :
    Minted(id) =>
      /\ Minted(id)'
      /\ Known(id)' => /\ Known(id)
                       /\ StateOf(id)' \in Reachable[StateOf(id)]
                       /\ getTask(id).messages \subseteq getTask(id)'.messages

-----------------------------------------------------------------------------
(* The lifecycle                                                           *)

LEMMA ReachableStates ==
  /\ \A state \in TASK_STATE : state \in Reachable[state]
  /\ \A from, to \in TASK_STATE : canTransition(from, to) => to \in Reachable[from]
  /\ \A state \in TASK_STATE : state \in Reachable["PENDING"]
  /\ \A from \in {"IN_PROGRESS", "INPUT_REQUIRED"}, to \in TASK_STATE :
       to # "PENDING" => to \in Reachable[from]
  /\ \A from \in TERMINAL_STATES, to \in TASK_STATE : to \in Reachable[from] => to = from
BY DEF Reachable, TASK_STATE, TERMINAL_STATES, canTransition, VALID_TRANSITIONS

(* Where a task at work may go.                                            *)
LEMMA FromInProgress ==
  /\ \A to \in TASK_STATE :
       canTransition("IN_PROGRESS", to) => to \in {"INPUT_REQUIRED"} \cup TERMINAL_STATES
  /\ \A to \in TERMINAL_STATES : canTransition("IN_PROGRESS", to)
BY DEF canTransition, VALID_TRANSITIONS, TASK_STATE, TERMINAL_STATES

-----------------------------------------------------------------------------
(* Consequences of the invariant                                           *)

(* A live stream runs one task, and there is one live stream on a task.    *)
LEMMA LiveStreams ==
  ASSUME Inv, NEW s \in Streamer
  PROVE  /\ Live(s) => /\ stream[s].task \in Task /\ stream[s].task # NoTask
                       /\ stream[s].task.id \in TaskId
                       /\ Runs(s, stream[s].task.id)
                       /\ HoldsTask(s, stream[s].task.id)
                       /\ stream[s].bus = s /\ s \notin closedBuses
                       /\ buses[stream[s].task.id] = s
         /\ \A id \in TaskId : Runs(s, id) => Names(s, id) /\ stream[s].task \in Task
         /\ \A id \in TaskId, o \in Streamer : Runs(s, id) /\ Runs(o, id) => o = s
<1>1. Live(s) => stream[s].task \in Task /\ stream[s].task # NoTask /\ stream[s].task.id \in TaskId
  BY NoTaskAssumption DEF Inv, Typed, LocalsBound, Task
<1>2. Live(s) => /\ Runs(s, stream[s].task.id)
                 /\ HoldsTask(s, stream[s].task.id)
                 /\ stream[s].bus = s /\ buses[stream[s].task.id] = s
  BY <1>1 DEF Inv, TasksSound, StreamsSound, StreamSound, RegistriesSound, Runs
<1>3. Live(s) => s \notin closedBuses
  BY DEF Inv, RegistriesSound, Live
<1>4. \A id \in TaskId : Runs(s, id) => Names(s, id) /\ stream[s].task \in Task
  BY <1>1 DEF Runs, Names
<1>5. \A id \in TaskId, o \in Streamer : Runs(s, id) /\ Runs(o, id) => o = s
  BY DEF Inv, RegistriesSound
<1> QED  BY <1>1, <1>2, <1>3, <1>4, <1>5

(* A new id is nowhere yet.                                                *)
LEMMA UnmintedIsFree ==
  ASSUME Inv, NEW id \in TaskId, ~Minted(id)
  PROVE  /\ ~Known(id)
         /\ \A e \in Entries : e.id # id
         /\ \A s \in Streamer : ~Names(s, id) /\ ~Runs(s, id)
         /\ buses[id] = NoStream
<1>1. ~Known(id)
  BY DEF Inv, TasksSound, Filed
<1>2. \A e \in Entries : e.id # id
  BY DEF Inv, TasksSound, EntriesSound
<1>3. \A s \in Streamer : ~Names(s, id)
  BY DEF Inv, TasksSound, StreamsSound, StreamSound
<1>4. \A s \in Streamer : ~Runs(s, id)
  BY <1>3, LiveStreams
<1>5. buses[id] \in Streamer \cup {NoStream}
  BY DEF Inv, Typed, RegistriesTyped, Bus
<1>6. buses[id] = NoStream
  BY <1>4, <1>5 DEF Inv, RegistriesSound
<1> QED  BY <1>1, <1>2, <1>3, <1>4, <1>6

(* A paused task is with nobody.                                           *)
LEMMA PausedIsFree ==
  ASSUME Inv, NEW id \in TaskId, Known(id), StateOf(id) = "INPUT_REQUIRED"
  PROVE  /\ isActive(id) /\ Minted(id)
         /\ \A e \in Entries : e.id = id => e.state = "PENDING"
         /\ \A s \in Streamer : ~Runs(s, id)
         /\ buses[id] = NoStream
<1>1. isActive(id) /\ Minted(id)
  BY DEF Inv, TasksSound, Filed, isTerminal, TERMINAL_STATES
<1>2. \A e \in Entries : e.id = id => e.state = "PENDING"
  BY DEF Inv, TasksSound, EntriesSound, TERMINAL_STATES
<1>3. \A s \in Streamer : ~Runs(s, id)
  BY <1>1 DEF Inv, TasksSound, StreamsSound, StreamSound, HoldsTask, StateOf, TERMINAL_STATES
<1>4. buses[id] \in Streamer \cup {NoStream}
  BY DEF Inv, Typed, RegistriesTyped, Bus
<1>5. buses[id] = NoStream
  BY <1>3, <1>4 DEF Inv, RegistriesSound
<1> QED  BY <1>1, <1>2, <1>3, <1>5

-----------------------------------------------------------------------------
(* What several actions do                                                 *)

(* One task is stored, as an active one or as a dead letter.               *)
Stores(task, active) ==
  \A id \in TaskId :
    /\ getTask(id)' = IF id = task.id THEN task ELSE getTask(id)
    /\ isActive(id)' <=> IF id = task.id THEN active ELSE isActive(id)

LEMMA StoringStores ==
  ASSUME Typed, NEW task \in Task
  PROVE  /\ setActive(task) => Stores(task, TRUE)
         /\ storeDeadLetter(task) => Stores(task, FALSE)
<1>1. ASSUME setActive(task) PROVE Stores(task, TRUE)
  BY <1>1, SetActiveReads DEF Typed, Stores
<1>2. ASSUME storeDeadLetter(task) PROVE Stores(task, FALSE)
  BY <1>2, StoreDeadLetterReads DEF Typed, Stores
<1> QED  BY <1>1, <1>2

LEMMA StoringFiles ==
  ASSUME Filed, NEW task \in Task, NEW active \in BOOLEAN, Stores(task, active),
         active \/ isTerminal(task.state), NEW tid \in TaskId, tid = task.id, Minted(tid)',
         \A id \in TaskId : Minted(id) => Minted(id)'
  PROVE  Filed'
BY DEF Filed, Stores, Known, StateOf

LEMMA StoringAdvances ==
  ASSUME Typed, NEW task \in Task, NEW active \in BOOLEAN, Stores(task, active),
         \A id \in TaskId : Minted(id) => Minted(id)',
         Minted(task.id) => /\ Known(task.id)
                            /\ task.state \in Reachable[StateOf(task.id)]
                            /\ getTask(task.id).messages \subseteq task.messages
  PROVE  TasksAdvance
<1>1. \A id \in TaskId : Known(id) => StateOf(id) \in TASK_STATE
  BY StoredTasks DEF Typed, StateOf, Task
<1>2. \A id \in TaskId : getTask(id)' = IF id = task.id THEN task ELSE getTask(id)
  BY DEF Stores
<1>3. task.id \in TaskId
  BY DEF Task
<1> QED  BY <1>1, <1>2, <1>3, ReachableStates DEF TasksAdvance, Known, StateOf

(* Nothing is stored.                                                      *)
SameReads == \A id \in TaskId : getTask(id)' = getTask(id) /\ (isActive(id)' <=> isActive(id))

LEMMA SameTasksAdvance ==
  ASSUME Typed, SameReads, UNCHANGED home
  PROVE  TasksAdvance
<1>1. \A id \in TaskId : Known(id) => StateOf(id) \in TASK_STATE
  BY StoredTasks DEF Typed, StateOf, Task
<1>2. \A id \in TaskId : getTask(id)' = getTask(id)
  BY DEF SameReads
<1> QED  BY <1>1, <1>2, ReachableStates DEF TasksAdvance, Known, StateOf, Minted

(* A stream is untouched when its snapshot, the stored task and its        *)
(* controller are.                                                         *)
Untouched(s) ==
  /\ stream'[s].task = stream[s].task /\ stream'[s].shown = stream[s].shown
  /\ stream'[s].phase = "idle" => stream[s].phase = "idle"
  /\ Live(s)' => /\ Live(s)
                 /\ stream[s].phase = "leaving" => stream'[s].phase = "leaving"
                 /\ stream[s].aborted => stream'[s].aborted

LEMMA StreamUntouched ==
  ASSUME NEW s \in Streamer, StreamSound(s), Untouched(s),
         \A id \in TaskId : Minted(id) => Minted(id)',
         \A id \in TaskId :
           Runs(s, id) /\ Live(s)' =>
             /\ isActive(id)' <=> isActive(id)
             /\ isActive(id) => getTask(id)' = getTask(id)
             /\ isActive(id) /\ controllers[id] = s => controllers'[id] = s
             /\ getTask(id) \notin Entries => getTask(id)' \notin Entries'
  PROVE  StreamSound(s)'
<1>1. stream'[s].phase = "idle" => stream'[s].task = NoTask /\ stream'[s].shown = NotShown
  BY DEF StreamSound, Untouched
<1>2. \A id \in TaskId : Names(s, id)' => Minted(id)'
  BY DEF StreamSound, Names, Untouched
<1>3. ASSUME NEW id \in TaskId, Runs(s, id)'
      PROVE  HoldsTask(s, id)'
  <2>1. Runs(s, id) /\ Live(s)'
    BY <1>3 DEF Runs, Untouched
  <2> QED  BY <2>1 DEF StreamSound, HoldsTask, Untouched
<1> QED  BY <1>1, <1>2, <1>3 DEF StreamSound

(* The registries stay sound when streams keep their buses and tasks, and  *)
(* controllers are at most taken out.                                      *)
LEMMA RegistriesUntouched ==
  ASSUME Typed, RegistriesSound, UNCHANGED <<buses, closedBuses>>,
         \A id \in TaskId : controllers'[id] \in {controllers[id], NoStream},
         \A s \in Streamer, id \in TaskId : Runs(s, id)' <=> Runs(s, id),
         \A s \in Streamer : Live(s) => stream'[s].bus = stream[s].bus,
         \A s \in Streamer : stream[s].phase = "done" => stream'[s].phase = "done"
  PROVE  RegistriesSound'
<1>1. closedBuses \subseteq Streamer
  BY DEF Typed, RegistriesTyped, Bus
<1>2. \A id \in TaskId, s \in Streamer :
        controllers'[id] = s \/ buses'[id] = s => Runs(s, id)'
  BY RequestAssumption DEF RegistriesSound
<1>3. \A id \in TaskId, s \in Streamer :
        Runs(s, id)' => stream'[s].bus = s /\ buses'[id] = s
  BY DEF RegistriesSound, Runs
<1>4. \A s \in closedBuses' : stream'[s].phase = "done"
  BY <1>1 DEF RegistriesSound
<1> QED  BY <1>2, <1>3, <1>4 DEF RegistriesSound

(* Subscribers stay fed when nobody attaches and their streams go on.      *)
LEMMA SubscribersUntouched ==
  ASSUME SubscribersSound,
         \A id \in TaskId : Minted(id) => Minted(id)',
         \A b \in Subscriber :
           /\ subscriber'[b].id = subscriber[b].id
           /\ subscriber'[b].bus = subscriber[b].bus
           /\ subscriber'[b].phase = "attached" => subscriber[b].phase = "attached",
         \A b \in Subscriber, s \in Streamer, id \in TaskId :
           subscriber'[b].phase = "attached" /\ subscriber[b].bus = s /\ Runs(s, id) =>
             Runs(s, id)'
  PROVE  SubscribersSound'
<1>1. \A b \in Subscriber, id \in TaskId : subscriber'[b].id = id => Minted(id)'
  BY DEF SubscribersSound
<1>2. ASSUME NEW b \in Subscriber, subscriber'[b].phase = "attached"
      PROVE  \E s \in Streamer, id \in TaskId :
               subscriber'[b].bus = s /\ subscriber'[b].id = id /\ Runs(s, id)'
  BY <1>2 DEF SubscribersSound
<1> QED  BY <1>1, <1>2 DEF SubscribersSound

(* What was told stands when nothing new is told but the stored state.     *)
StandsNext(id, state) == isTerminal(state) /\ Known(id)' => StateOf(id)' = state

LEMMA AnswersUntouched ==
  ASSUME Inv, Typed', TasksAdvance,
         \A s \in Streamer, id \in TaskId :
           Names(s, id)' => \/ Names(s, id) /\ stream'[s].shown = stream[s].shown
                            \/ StandsNext(id, stream'[s].shown),
         \A b \in Subscriber, id \in TaskId :
           subscriber'[b].id = id =>
             \/ subscriber[b].id = id /\ subscriber'[b].seen = subscriber[b].seen
             \/ StandsNext(id, subscriber'[b].seen),
         \A r \in Sender, id \in TaskId :
           Answered(r, id)' => \/ Answered(r, id) /\ sender'[r].latest = sender[r].latest
                               \/ StandsNext(id, sender'[r].latest.state)
  PROVE  AnswersStand'
<1>1. ASSUME NEW id \in TaskId, Minted(id), NEW state, Stands(id, state)
      PROVE  StandsNext(id, state)
  <2> SUFFICES ASSUME isTerminal(state), Known(id)'
               PROVE  StateOf(id)' = state
    BY DEF StandsNext
  <2>1. Known(id) /\ StateOf(id)' \in Reachable[StateOf(id)]
    BY <1>1 DEF TasksAdvance
  <2>2. StateOf(id) = state
    BY <1>1, <2>1 DEF Stands
  <2>3. state \in TERMINAL_STATES
    BY DEF isTerminal
  <2>4. StateOf(id)' \in TASK_STATE
    <3>1. getTask(id)' \in Task
      <4>1. MapsTyped'
        BY DEF Typed
      <4> QED  BY <4>1 DEF MapsTyped, Known, getTask, isActive
    <3> QED  BY <3>1 DEF StateOf, Task
  <2> QED  BY <2>1, <2>2, <2>3, <2>4, ReachableStates
<1>2. ASSUME NEW s \in Streamer, NEW id \in TaskId, Names(s, id)'
      PROVE  StandsNext(id, stream'[s].shown)
  <2>1. CASE Names(s, id) /\ stream'[s].shown = stream[s].shown
    <3>1. Minted(id) /\ Stands(id, stream[s].shown)
      BY <2>1 DEF Inv, TasksSound, StreamsSound, StreamSound, ClientsSound, AnswersStand
    <3> QED  BY <1>1, <2>1, <3>1
  <2> QED  BY <1>2, <2>1
<1>3. ASSUME NEW b \in Subscriber, NEW id \in TaskId, subscriber'[b].id = id
      PROVE  StandsNext(id, subscriber'[b].seen)
  <2>1. CASE subscriber[b].id = id /\ subscriber'[b].seen = subscriber[b].seen
    <3>1. Minted(id) /\ Stands(id, subscriber[b].seen)
      BY <2>1 DEF Inv, ClientsSound, SubscribersSound, AnswersStand
    <3> QED  BY <1>1, <2>1, <3>1
  <2> QED  BY <1>3, <2>1
<1>4. ASSUME NEW r \in Sender, NEW id \in TaskId, Answered(r, id)'
      PROVE  StandsNext(id, sender'[r].latest.state)
  <2>1. CASE Answered(r, id) /\ sender'[r].latest = sender[r].latest
    <3>1. Minted(id) /\ Stands(id, sender[r].latest.state)
      BY <2>1 DEF Inv, ClientsSound, SendersSound, AnswersStand
    <3> QED  BY <1>1, <2>1, <3>1
  <2> QED  BY <1>4, <2>1
<1> QED  BY <1>2, <1>3, <1>4 DEF AnswersStand, Stands, StandsNext

(* Nothing is stored; entries are dropped only when no worker would run    *)
(* them.                                                                   *)
LEMMA SameTasksKeep ==
  ASSUME Inv, SameReads, UNCHANGED home,
         Entries' \subseteq Entries, \A e \in Entries : Runnable(e) => e \in Entries',
         \A s \in Streamer, id \in TaskId :
           /\ Names(s, id)' => Names(s, id)
           /\ Runs(s, id) /\ Known(id) /\ StateOf(id) = "IN_PROGRESS" => Runs(s, id)'
  PROVE  Filed' /\ EntriesSound' /\ Owned'
<1>1. \A id \in TaskId : /\ getTask(id)' = getTask(id)
                         /\ isActive(id)' <=> isActive(id)
                         /\ Minted(id)' <=> Minted(id)
  BY DEF SameReads, Minted
<1>2. Filed'
  BY <1>1 DEF Inv, TasksSound, Filed, Known, StateOf
<1>3. \A e \in Entries : e.id \in TaskId
  BY EntriesAreTasks DEF Inv, Typed, Task
<1>4. EntriesSound'
  BY <1>1, <1>3 DEF Inv, TasksSound, EntriesSound, Runnable, Known, StateOf
<1>5. \A id \in TaskId : getTask(id) \in Entries => getTask(id) \in Entries'
  <2> SUFFICES ASSUME NEW id \in TaskId, getTask(id) \in Entries
               PROVE  Runnable(getTask(id))
    OBVIOUS
  <2>1. Known(id)
    BY DEF Entries, Known
  <2>2. getTask(id).id = id
    BY <2>1 DEF Inv, TasksSound, Filed
  <2> QED  BY <2>1, <2>2 DEF Runnable, StateOf
<1>6. Owned'
  BY <1>1, <1>5 DEF Inv, TasksSound, Owned, Known, StateOf
<1> QED  BY <1>2, <1>4, <1>6

(* A task is stored that is nobody's from now on, terminal or paused.      *)
LEMMA SettlingKeeps ==
  ASSUME Inv, UNCHANGED home,
         NEW task \in Task, NEW active \in BOOLEAN, Stores(task, active),
         active \/ isTerminal(task.state), Minted(task.id),
         task.state \in {"INPUT_REQUIRED"} \cup TERMINAL_STATES,
         Entries' \subseteq Entries, \A e \in Entries : e.id # task.id => e \in Entries',
         task.state = "INPUT_REQUIRED" =>
           \A e \in Entries' : e.id = task.id => e.state # "IN_PROGRESS",
         \A s \in Streamer, id \in TaskId : Names(s, id)' => Names(s, id),
         \A s \in Streamer, id \in TaskId : id # task.id /\ Runs(s, id) => Runs(s, id)'
  PROVE  Filed' /\ EntriesSound' /\ Owned'
<1>1. \A id \in TaskId : /\ getTask(id)' = IF id = task.id THEN task ELSE getTask(id)
                         /\ Minted(id)' <=> Minted(id)
  BY DEF Stores, Minted
<1>2. task.id \in TaskId
  BY DEF Task
<1>3. Filed'
  <2>1. PICK tid \in TaskId : tid = task.id
    BY <1>2
  <2>2. Minted(tid)'
    BY <1>1, <2>1
  <2> QED  BY <1>1, <2>1, <2>2, StoringFiles DEF Inv, TasksSound
<1>4. \A e \in Entries : e.id \in TaskId
  BY EntriesAreTasks DEF Inv, Typed, Task
<1>5. task.state \notin {"PENDING", "IN_PROGRESS"}
  BY DEF TERMINAL_STATES
<1>6. EntriesSound'
  <2> SUFFICES ASSUME NEW e \in Entries'
               PROVE  /\ Minted(e.id)'
                      /\ e.state \in {"PENDING", "IN_PROGRESS"}
                      /\ Runnable(e)' => getTask(e.id)' = e
                      /\ e.state = "IN_PROGRESS" /\ Known(e.id)' =>
                           StateOf(e.id)' \in {"IN_PROGRESS"} \cup TERMINAL_STATES
    BY DEF EntriesSound
  <2>1. e \in Entries /\ e.id \in TaskId
    BY <1>4
  <2>2. CASE e.id = task.id
    BY <1>1, <1>5, <2>1, <2>2 DEF Inv, TasksSound, EntriesSound, Runnable, StateOf
  <2>3. CASE e.id # task.id
    BY <1>1, <2>1, <2>3 DEF Inv, TasksSound, EntriesSound, Runnable, Known, StateOf
  <2> QED  BY <2>2, <2>3
<1>7. Owned'
  <2> SUFFICES ASSUME NEW id \in TaskId, Known(id)', StateOf(id)' \in {"PENDING", "IN_PROGRESS"}
               PROVE  /\ StateOf(id)' = "PENDING" =>
                           getTask(id)' \in Entries' /\ \A s \in Streamer : ~Names(s, id)'
                      /\ StateOf(id)' = "IN_PROGRESS" =>
                           getTask(id)' \in Entries' \/ \E s \in Streamer : Runs(s, id)'
    BY DEF Owned
  <2>1. id # task.id
    BY <1>1, <1>5 DEF StateOf
  <2>2. getTask(id)' = getTask(id) /\ Known(id) /\ StateOf(id)' = StateOf(id)
    BY <1>1, <2>1 DEF Known, StateOf
  <2>3. getTask(id) \in Entries => getTask(id)' \in Entries'
    BY <2>1, <2>2 DEF Inv, TasksSound, Filed
  <2> QED  BY <2>1, <2>2, <2>3 DEF Inv, TasksSound, Owned
<1> QED  BY <1>3, <1>6, <1>7

-----------------------------------------------------------------------------
(* Action by action                                                        *)

LEMMA IdleKeeps ==
  ASSUME Inv, SameReads, UNCHANGED <<queueVars, home, stream, registryVars>>
  PROVE  QueueSound' /\ TasksSound' /\ RegistriesSound' /\ TasksAdvance
<1>1. QueueSound' /\ Entries' = Entries
  BY SameQueueEntries DEF Inv, QueueSound
<1>2. \A s \in Streamer, id \in TaskId :
        (Names(s, id)' <=> Names(s, id)) /\ (Runs(s, id)' <=> Runs(s, id))
  BY DEF Names, Runs, Live
<1>3. Filed' /\ EntriesSound' /\ Owned'
  BY <1>1, <1>2, SameTasksKeep
<1>4. StreamsSound'
  <2>1. \A id \in TaskId : /\ getTask(id)' = getTask(id)
                           /\ isActive(id)' <=> isActive(id)
                           /\ Minted(id)' <=> Minted(id)
                           /\ controllers'[id] = controllers[id]
    BY DEF SameReads, Minted, registryVars
  <2>2. ASSUME NEW s \in Streamer PROVE StreamSound(s)'
    <3>1. StreamSound(s) /\ Untouched(s)
      BY DEF Inv, TasksSound, StreamsSound, Untouched, Live
    <3> QED  BY <1>1, <2>1, <3>1, StreamUntouched
  <2> QED  BY <2>2 DEF StreamsSound
<1>5. RegistriesSound'
  BY <1>2, RegistriesUntouched DEF Inv, registryVars
<1>6. TasksAdvance
  BY SameTasksAdvance DEF Inv
<1> QED  BY <1>1, <1>3, <1>4, <1>5, <1>6 DEF TasksSound

LEMMA SenderQuietKeeps ==
  ASSUME Inv, NEW r \in Sender, RejectSend(r) \/ Poll(r) \/ SenderDisconnects(r), Typed'
  PROVE  Inv' /\ TasksAdvance
<1>0. UNCHANGED <<storageVars, home, stream, subscriber, registryVars>>
  BY DEF RejectSend, Poll, SenderDisconnects
<1>1. QueueSound' /\ TasksSound' /\ RegistriesSound' /\ TasksAdvance
  BY <1>0, SameMapsReads, IdleKeeps DEF SameReads, storageVars
<1>2. \A id \in TaskId : Minted(id)' <=> Minted(id)
  BY <1>0 DEF Minted
<1>3. SubscribersSound'
  BY <1>0, <1>2, SubscribersUntouched DEF Inv, ClientsSound, Runs, Live
<1>4. \A id \in TaskId : getTask(id)' = getTask(id)
  BY <1>0, SameMapsReads DEF storageVars
<1>5. ASSUME NEW o \in Sender, NEW id \in TaskId, Answered(o, id)'
      PROVE  /\ Minted(id)'
             /\ \/ Answered(o, id) /\ sender'[o].latest = sender[o].latest
                \/ StandsNext(id, sender'[o].latest.state)
  <2>0. sender \in [Sender -> SenderState]
    BY DEF Inv, Typed, SendersTyped
  <2>1. CASE sender'[o].latest = sender[o].latest
    BY <1>2, <1>5, <2>1 DEF Inv, ClientsSound, SendersSound, Answered
  <2>2. CASE sender'[o].latest # sender[o].latest
    <3>1. o = r /\ Poll(r)
      BY <2>0, <2>2 DEF RejectSend, SenderDisconnects, Poll, SenderState
    <3>2. PICK old \in TaskId : old = sender[r].latest.id
      BY <3>1 DEF Poll, Inv, Typed, LocalsBound, Task
    <3>3. sender'[r].latest = getTask(old) /\ Known(old)
      BY <2>0, <3>1, <3>2 DEF Poll, Known
    <3>4. getTask(old).id = old /\ Minted(old)
      BY <3>3 DEF Inv, TasksSound, Filed
    <3>5. id = old
      BY <1>5, <3>1, <3>3, <3>4 DEF Answered
    <3> QED  BY <1>2, <1>4, <3>1, <3>3, <3>4, <3>5 DEF StandsNext, StateOf
  <2> QED  BY <2>1, <2>2
<1>6. SendersSound'
  BY <1>5 DEF SendersSound
<1>7. AnswersStand'
  <2>1. \A s \in Streamer, id \in TaskId :
          Names(s, id)' => Names(s, id) /\ stream'[s].shown = stream[s].shown
    BY <1>0 DEF Names
  <2> QED  BY <1>0, <1>1, <1>5, <2>1, AnswersUntouched
<1> QED  BY <1>1, <1>3, <1>6, <1>7 DEF Inv, ClientsSound

(* A task that a message starts or resumes is free to be taken up.         *)
LEMMA StartableTasks ==
  ASSUME Inv, NEW task \in Task, StartsNew(task) \/ Resumes(task)
  PROVE  /\ task.id \in TaskId
         /\ \A e \in Entries : e.id = task.id => Minted(task.id) /\ e.state = "PENDING"
         /\ \A s \in Streamer : ~Runs(s, task.id)
         /\ \A s \in Streamer : ~Minted(task.id) => ~Names(s, task.id)
         /\ buses[task.id] = NoStream
         /\ \/ task.state = "PENDING" /\ ~Minted(task.id) /\ ~Known(task.id)
            \/ /\ task.state = "IN_PROGRESS" /\ Minted(task.id) /\ isActive(task.id)
               /\ Known(task.id) /\ StateOf(task.id) = "INPUT_REQUIRED"
               /\ getTask(task.id).messages \subseteq task.messages
<1>1. task.id \in TaskId
  BY DEF Task
<1>2. CASE StartsNew(task)
  BY <1>1, <1>2, UnmintedIsFree DEF StartsNew
<1>3. CASE Resumes(task)
  <2>1. PICK id \in TaskId : /\ Known(id) /\ StateOf(id) = "INPUT_REQUIRED"
                             /\ task.id = getTask(id).id /\ task.state = "IN_PROGRESS"
                             /\ getTask(id).messages \subseteq task.messages
    BY <1>3 DEF Resumes
  <2>2. task.id = id
    BY <2>1 DEF Inv, TasksSound, Filed
  <2> QED  BY <2>1, <2>2, PausedIsFree
<1> QED  BY <1>2, <1>3

LEMMA HomeGrows ==
  ASSUME Typed, NEW task \in Task, home'[task.id] = task.context,
         \A id \in TaskId : id # task.id => home'[id] = home[id]
  PROVE  \A id \in TaskId : /\ Minted(id) => Minted(id)'
                            /\ id = task.id => Minted(id)'
                            /\ Minted(id)' => Minted(id) \/ id = task.id
<1>1. task.context # NoContext
  BY RequestAssumption DEF Task
<1> QED  BY <1>1 DEF Minted

(* No stored task but itself is the one being stored.                      *)
LEMMA OtherTasks ==
  ASSUME Inv, NEW task \in Task, NEW id \in TaskId, id # task.id
  PROVE  getTask(id) # task
<1>1. Known(id) => getTask(id).id = id
  BY DEF Inv, TasksSound, Filed
<1> QED  BY <1>1, NoTaskAssumption DEF Known

LEMMA SendMessageKeeps ==
  ASSUME Inv, NEW r \in Sender, SendMessage(r), Typed'
  PROVE  Inv' /\ TasksAdvance
<1>0. r \in Request /\ Typed
  BY RequestAssumption DEF Inv
<1>a. PICK ref \in MessageRef : \E task \in startTask(ref, r) :
         /\ enqueue(task)
         /\ recordHome(task)
         /\ \E phase \in {"polling", "answered"} :
              sender' = [sender EXCEPT ![r] = [phase |-> phase, latest |-> task]]
  BY DEF SendMessage
<1>b. PICK task \in startTask(ref, r), phase \in {"polling", "answered"} :
         /\ enqueue(task)
         /\ recordHome(task)
         /\ sender' = [sender EXCEPT ![r] = [phase |-> phase, latest |-> task]]
  BY <1>a
<1>1. task \in Task /\ (StartsNew(task) \/ Resumes(task))
  BY <1>0, StartedTasks DEF Typed
<1>2. /\ task.id \in TaskId
      /\ \A e \in Entries : e.id = task.id => Minted(task.id) /\ e.state = "PENDING"
      /\ \A s \in Streamer : ~Runs(s, task.id)
      /\ \A s \in Streamer : ~Minted(task.id) => ~Names(s, task.id)
      /\ \/ task.state = "PENDING" /\ ~Minted(task.id) /\ ~Known(task.id)
         \/ /\ task.state = "IN_PROGRESS" /\ Minted(task.id) /\ isActive(task.id)
            /\ Known(task.id) /\ StateOf(task.id) = "INPUT_REQUIRED"
            /\ getTask(task.id).messages \subseteq task.messages
  BY <1>1, StartableTasks
<1>3. UNCHANGED <<stream, subscriber, registryVars>>
  BY DEF SendMessage
<1>4. Stores(task, TRUE)
  BY <1>0, <1>1, <1>b, StoringStores DEF enqueue
<1>5. \A id \in TaskId : /\ Minted(id) => Minted(id)'
                         /\ id = task.id => Minted(id)'
                         /\ Minted(id)' => Minted(id) \/ id = task.id
  BY <1>0, <1>1, <1>b, HomeGrows, RecordHomeEffect DEF Typed
<1>6. /\ QueueSound'
      /\ Entries' = Entries \cup {task}
  <2>1. \A e \in Entries : ~SameEntry(e, task)
    BY <1>2 DEF SameEntry
  <2> QED  BY <1>0, <1>1, <1>b, <2>1, OfferEntries, OfferHandoff
              DEF enqueue, Inv, QueueSound, Typed
<1>7. \A id \in TaskId : getTask(id)' = IF id = task.id THEN task ELSE getTask(id)
  BY <1>4 DEF Stores
<1>8. Filed'
  BY <1>1, <1>2, <1>4, <1>5, StoringFiles DEF Inv, TasksSound
<1>9. EntriesSound'
  <2> SUFFICES ASSUME NEW e \in Entries'
               PROVE  /\ Minted(e.id)'
                      /\ e.state \in {"PENDING", "IN_PROGRESS"}
                      /\ Runnable(e)' => getTask(e.id)' = e
                      /\ e.state = "IN_PROGRESS" /\ Known(e.id)' =>
                           StateOf(e.id)' \in {"IN_PROGRESS"} \cup TERMINAL_STATES
    BY DEF EntriesSound
  <2>1. CASE e = task
    BY <1>2, <1>5, <1>7, <2>1 DEF StateOf
  <2>2. CASE e \in Entries
    <3>1. e.id \in TaskId
      BY <1>0, <2>2, EntriesAreTasks DEF Typed, Task
    <3>2. CASE e.id = task.id
      BY <1>2, <1>5, <1>7, <2>2, <3>1, <3>2 DEF Runnable, StateOf
    <3>3. CASE e.id # task.id
      BY <1>5, <1>7, <2>2, <3>1, <3>3 DEF Inv, TasksSound, EntriesSound, Runnable, Known, StateOf
    <3> QED  BY <3>2, <3>3
  <2> QED  BY <1>6, <2>1, <2>2
<1>10. \A s \in Streamer, id \in TaskId :
         (Names(s, id)' <=> Names(s, id)) /\ (Runs(s, id)' <=> Runs(s, id))
  BY <1>3 DEF Names, Runs, Live
<1>11. Owned'
  <2> SUFFICES ASSUME NEW id \in TaskId, Known(id)'
               PROVE  /\ StateOf(id)' = "PENDING" =>
                           getTask(id)' \in Entries' /\ \A s \in Streamer : ~Names(s, id)'
                      /\ StateOf(id)' = "IN_PROGRESS" =>
                           getTask(id)' \in Entries' \/ \E s \in Streamer : Runs(s, id)'
    BY DEF Owned
  <2>1. CASE id = task.id
    BY <1>2, <1>6, <1>7, <1>10, <2>1 DEF StateOf
  <2>2. CASE id # task.id
    BY <1>6, <1>7, <1>10, <2>2 DEF Inv, TasksSound, Owned, Known, StateOf
  <2> QED  BY <2>1, <2>2
<1>12. StreamsSound'
  <2> SUFFICES ASSUME NEW s \in Streamer PROVE StreamSound(s)'
    BY DEF StreamsSound
  <2>1. StreamSound(s) /\ Untouched(s)
    BY <1>3 DEF Inv, TasksSound, StreamsSound, Untouched, Live
  <2>2. ASSUME NEW id \in TaskId, Runs(s, id)
        PROVE  /\ isActive(id)' <=> isActive(id)
               /\ getTask(id)' = getTask(id)
               /\ controllers'[id] = controllers[id]
               /\ getTask(id) \notin Entries => getTask(id)' \notin Entries'
    <3>1. id # task.id
      BY <1>2, <2>2
    <3>2. getTask(id) # task
      BY <1>1, <3>1, OtherTasks
    <3> QED  BY <1>3, <1>4, <1>6, <3>1, <3>2 DEF Stores, registryVars
  <2> QED  BY <1>5, <2>1, <2>2, StreamUntouched
<1>13. RegistriesSound'
  BY <1>0, <1>3, <1>10, RegistriesUntouched DEF Inv, registryVars
<1>14. SubscribersSound'
  BY <1>3, <1>5, <1>10, SubscribersUntouched DEF Inv, ClientsSound
<1>15. TasksAdvance
  <2>1. Minted(task.id) => /\ Known(task.id)
                           /\ task.state \in Reachable[StateOf(task.id)]
                           /\ getTask(task.id).messages \subseteq task.messages
    BY <1>2, ReachableStates DEF TASK_STATE
  <2> QED  BY <1>0, <1>1, <1>4, <1>5, <2>1, StoringAdvances
<1>16. ASSUME NEW o \in Sender, NEW id \in TaskId, Answered(o, id)'
       PROVE  \/ Answered(o, id) /\ sender'[o].latest = sender[o].latest
              \/ /\ id = task.id /\ sender'[o].latest = task
                 /\ StandsNext(id, sender'[o].latest.state)
  <2>1. sender \in [Sender -> SenderState]
    BY <1>0 DEF Typed, SendersTyped
  <2>2. CASE o = r
    <3>1. sender'[o].latest = task
      BY <1>b, <2>1, <2>2
    <3>2. id = task.id
      BY <1>16, <3>1 DEF Answered
    <3> QED  BY <1>7, <3>1, <3>2 DEF StandsNext, StateOf
  <2>3. CASE o # r
    BY <1>b, <1>16, <2>1, <2>3 DEF Answered
  <2> QED  BY <2>2, <2>3
<1>17. SendersSound'
  BY <1>5, <1>16 DEF Inv, ClientsSound, SendersSound
<1>18. AnswersStand'
  <2>1. \A s \in Streamer, id \in TaskId :
          Names(s, id)' => Names(s, id) /\ stream'[s].shown = stream[s].shown
    BY <1>3 DEF Names
  <2> QED  BY <1>3, <1>15, <1>16, <2>1, AnswersUntouched
<1> QED  BY <1>6, <1>8, <1>9, <1>11, <1>12, <1>13, <1>14, <1>17, <1>18, <1>15
            DEF Inv, TasksSound, ClientsSound

LEMMA SubscriberStepKeeps ==
  ASSUME Inv, NEW b \in Subscriber, SubscriberStep(b), Typed'
  PROVE  Inv' /\ TasksAdvance
<1>0. UNCHANGED <<storageVars, home, sender, stream, registryVars>> /\ Typed
  BY DEF SubscriberStep, RejectSubscription, Subscribe, PollSubscription,
         SubscriberDisconnects, Inv
<1>1. QueueSound' /\ TasksSound' /\ RegistriesSound' /\ TasksAdvance
  BY <1>0, SameMapsReads, IdleKeeps DEF SameReads, storageVars
<1>2. \A id \in TaskId : /\ Minted(id)' <=> Minted(id)
                         /\ getTask(id)' = getTask(id)
  BY <1>0, SameMapsReads DEF Minted, storageVars
<1>3. subscriber \in [Subscriber -> SubscriberState]
  BY <1>0 DEF Typed, SubscribersTyped
<1>4. \A o \in Subscriber \ {b} : subscriber'[o] = subscriber[o]
  BY <1>3 DEF SubscriberStep, RejectSubscription, Subscribe, PollSubscription,
              SubscriberDisconnects
<1>5. /\ \A id \in TaskId : subscriber'[b].id = id => Minted(id)
      /\ subscriber'[b].phase = "attached" =>
           \E s \in Streamer, id \in TaskId :
             subscriber'[b].bus = s /\ subscriber'[b].id = id /\ Runs(s, id)
      /\ \A id \in TaskId : subscriber'[b].id = id =>
           \/ subscriber[b].id = id /\ subscriber'[b].seen = subscriber[b].seen
           \/ subscriber'[b].seen = StateOf(id)
  <2>1. CASE RejectSubscription(b) \/ SubscriberDisconnects(b)
    <3>1. /\ subscriber'[b].phase \in {"rejected", "gone"}
          /\ subscriber'[b].id = subscriber[b].id /\ subscriber'[b].seen = subscriber[b].seen
      BY <1>3, <2>1 DEF RejectSubscription, SubscriberDisconnects, SubscriberState
    <3> QED  BY <3>1 DEF Inv, ClientsSound, SubscribersSound
  <2>2. CASE PollSubscription(b)
    <3>1. PICK id \in TaskId : id = subscriber[b].id
      BY <1>0, <2>2 DEF PollSubscription, Typed, LocalsBound
    <3>2. /\ subscriber'[b].phase \in {"closed", "polling"}
          /\ subscriber'[b].id = id /\ subscriber'[b].seen = StateOf(id)
      BY <1>3, <2>2, <3>1 DEF PollSubscription, SubscriberState
    <3> QED  BY <3>1, <3>2 DEF Inv, ClientsSound, SubscribersSound
  <2>3. ASSUME NEW id \in TaskId, Subscribe(b, id)
        PROVE  /\ \A i \in TaskId : subscriber'[b].id = i => Minted(i)
               /\ subscriber'[b].phase = "attached" =>
                    \E s \in Streamer, i \in TaskId :
                      subscriber'[b].bus = s /\ subscriber'[b].id = i /\ Runs(s, i)
               /\ \A i \in TaskId : subscriber'[b].id = i =>
                    \/ subscriber[b].id = i /\ subscriber'[b].seen = subscriber[b].seen
                    \/ subscriber'[b].seen = StateOf(i)
    <3>1. /\ subscriber'[b].phase = "attached" => buses[id] # NoStream
          /\ subscriber'[b].id = id /\ subscriber'[b].bus = buses[id]
          /\ subscriber'[b].seen = StateOf(id)
          /\ Known(id)
      BY <1>3, <2>3 DEF Subscribe, Open
    <3>2. Minted(id)
      BY <3>1 DEF Inv, TasksSound, Filed
    <3>3. buses[id] # NoStream => \E s \in Streamer : buses[id] = s /\ Runs(s, id)
      BY <1>0 DEF Typed, RegistriesTyped, Bus, Inv, RegistriesSound
    <3> QED  BY <3>1, <3>2, <3>3
  <2> QED  BY <2>1, <2>2, <2>3 DEF SubscriberStep
<1>6. SubscribersSound'
  <2>1. ASSUME NEW o \in Subscriber, NEW id \in TaskId, subscriber'[o].id = id
        PROVE  Minted(id)'
    BY <1>2, <1>4, <1>5, <2>1 DEF Inv, ClientsSound, SubscribersSound
  <2>2. ASSUME NEW o \in Subscriber, subscriber'[o].phase = "attached"
        PROVE  \E s \in Streamer, id \in TaskId :
                 subscriber'[o].bus = s /\ subscriber'[o].id = id /\ Runs(s, id)'
    <3>1. \A s \in Streamer, id \in TaskId : Runs(s, id)' <=> Runs(s, id)
      BY <1>0 DEF Runs, Live
    <3> QED  BY <1>4, <1>5, <2>2, <3>1 DEF Inv, ClientsSound, SubscribersSound
  <2> QED  BY <2>1, <2>2 DEF SubscribersSound
<1>7. SendersSound'
  BY <1>0, <1>2 DEF Inv, ClientsSound, SendersSound, Answered
<1>8. AnswersStand'
  <2>1. /\ \A s \in Streamer, id \in TaskId :
             Names(s, id)' => Names(s, id) /\ stream'[s].shown = stream[s].shown
        /\ \A r \in Sender, id \in TaskId :
             Answered(r, id)' => Answered(r, id) /\ sender'[r].latest = sender[r].latest
    BY <1>0 DEF Names, Answered
  <2>2. \A o \in Subscriber, id \in TaskId : subscriber'[o].id = id =>
          \/ subscriber[o].id = id /\ subscriber'[o].seen = subscriber[o].seen
          \/ StandsNext(id, subscriber'[o].seen)
    BY <1>2, <1>4, <1>5 DEF StandsNext, StateOf
  <2> QED  BY <1>1, <2>1, <2>2, AnswersUntouched
<1> QED  BY <1>1, <1>6, <1>7, <1>8 DEF Inv, ClientsSound

(* Clients that are told nothing, of streams that go on.                   *)
LEMMA ClientsUntouched ==
  ASSUME Inv, Typed', TasksAdvance, UNCHANGED <<sender, subscriber>>,
         \A s \in Streamer, id \in TaskId :
           Names(s, id)' => Names(s, id) /\ stream'[s].shown = stream[s].shown,
         \A s \in Streamer, id \in TaskId : Runs(s, id) => Runs(s, id)'
  PROVE  ClientsSound'
<1>1. \A id \in TaskId : Minted(id) => Minted(id)'
  BY DEF TasksAdvance
<1>2. SubscribersSound'
  BY <1>1, SubscribersUntouched DEF Inv, ClientsSound
<1>3. SendersSound'
  BY <1>1 DEF Inv, ClientsSound, SendersSound, Answered
<1>4. AnswersStand'
  <2>1. \A r \in Sender, id \in TaskId :
          Answered(r, id)' => Answered(r, id) /\ sender'[r].latest = sender[r].latest
    BY DEF Answered
  <2> QED  BY <2>1, AnswersUntouched
<1> QED  BY <1>2, <1>3, <1>4 DEF ClientsSound

LEMMA StreamQuietKeeps ==
  ASSUME Inv, NEW s \in Streamer, StreamQuiet(s)
  PROVE  Inv' /\ TasksAdvance
<1>0. Typed
  BY DEF Inv
<1>1. /\ UNCHANGED <<storageVars, home, sender, subscriber, registryVars>>
      /\ \A o \in Streamer \ {s} : stream'[o] = stream[o]
      /\ stream'[s].task = stream[s].task /\ stream'[s].bus = stream[s].bus
      /\ stream'[s].shown = stream[s].shown
      /\ stream[s].aborted => stream'[s].aborted
      /\ Live(s)' <=> Live(s)
      /\ stream'[s].phase # "idle"
      /\ stream'[s].phase = "done" <=> stream[s].phase = "done"
      /\ stream[s].phase = "leaving" => stream'[s].phase = "leaving"
      /\ Typed'
  BY <1>0, StreamQuietEffect
<1>a. SameReads
  BY <1>1, SameMapsReads DEF SameReads, storageVars
<1>2. \A o \in Streamer :
        /\ Untouched(o) /\ (Live(o)' <=> Live(o)) /\ stream'[o].task = stream[o].task
        /\ stream'[o].bus = stream[o].bus /\ stream'[o].shown = stream[o].shown
        /\ stream[o].phase = "done" => stream'[o].phase = "done"
  BY <1>1 DEF Untouched, Live
<1>3. \A o \in Streamer, id \in TaskId :
        (Names(o, id)' <=> Names(o, id)) /\ (Runs(o, id)' <=> Runs(o, id))
  BY <1>2 DEF Names, Runs
<1>4. QueueSound' /\ Entries' = Entries
  BY <1>1, SameQueueEntries DEF storageVars, Inv, QueueSound
<1>5. Filed' /\ EntriesSound' /\ Owned'
  BY <1>1, <1>3, <1>4, <1>a, SameTasksKeep DEF storageVars
<1>6. StreamsSound'
  <2>1. \A id \in TaskId : /\ getTask(id)' = getTask(id)
                           /\ isActive(id)' <=> isActive(id)
                           /\ Minted(id)' <=> Minted(id)
                           /\ controllers'[id] = controllers[id]
    BY <1>1, <1>a DEF SameReads, Minted, registryVars
  <2>2. ASSUME NEW o \in Streamer PROVE StreamSound(o)'
    <3>1. StreamSound(o) /\ Untouched(o)
      BY <1>2 DEF Inv, TasksSound, StreamsSound
    <3> QED  BY <1>4, <2>1, <3>1, StreamUntouched
  <2> QED  BY <2>2 DEF StreamsSound
<1>7. RegistriesSound'
  BY <1>0, <1>1, <1>2, <1>3, RegistriesUntouched DEF Inv, registryVars
<1>8. TasksAdvance
  BY <1>0, <1>1, <1>a, SameTasksAdvance
<1>9. ClientsSound'
  BY <1>1, <1>2, <1>3, <1>8, ClientsUntouched
<1> QED  BY <1>1, <1>4, <1>5, <1>6, <1>7, <1>8, <1>9 DEF Inv, TasksSound

(* A task that starts or goes on under a stream.                           *)
LEMMA StartStreamKeeps ==
  ASSUME Inv, NEW s \in Streamer, StartStream(s)
  PROVE  Inv' /\ TasksAdvance
<1>0. Typed /\ stream[s].phase = "idle"
  BY DEF Inv, StartStream
<1>a. PICK task \in Task, working \in Task :
           /\ StartsNew(task) \/ Resumes(task)
           /\ working.id = task.id /\ working.state = "IN_PROGRESS"
           /\ working.messages = task.messages
           /\ setActive(working)
           /\ \/ task.state = "PENDING" /\ offer(task)
              \/ task.state = "IN_PROGRESS" /\ isActive(task.id) /\ UNCHANGED queueVars
           /\ home'[task.id] = task.context
           /\ \A id \in TaskId : id # task.id => home'[id] = home[id]
           /\ \A id \in TaskId :
                /\ controllers'[id] = IF id = task.id THEN s ELSE controllers[id]
                /\ buses'[id] = IF id = task.id /\ buses[id] = NoStream THEN s ELSE buses[id]
           /\ UNCHANGED <<sender, closedBuses>>
           /\ \A o \in Streamer \ {s} : stream'[o] = stream[o]
           /\ stream'[s].phase = "running" /\ stream'[s].task = working
           /\ stream'[s].bus = buses'[task.id]
           /\ stream'[s].shown \in {"IN_PROGRESS", stream[s].shown}
           /\ \A b \in Subscriber :
                /\ subscriber'[b].phase = subscriber[b].phase
                /\ subscriber'[b].id = subscriber[b].id
                /\ subscriber'[b].bus = subscriber[b].bus
                /\ subscriber'[b].seen \in {"IN_PROGRESS", subscriber[b].seen}
           /\ Typed'
  BY <1>0, StartStreamEffect
<1>1. Typed'
  BY <1>a
<1>2. /\ task.id \in TaskId
      /\ \A e \in Entries : e.id = task.id => Minted(task.id) /\ e.state = "PENDING"
      /\ \A o \in Streamer : ~Runs(o, task.id)
      /\ \A o \in Streamer : ~Minted(task.id) => ~Names(o, task.id)
      /\ buses[task.id] = NoStream
      /\ \/ task.state = "PENDING" /\ ~Minted(task.id) /\ ~Known(task.id)
         \/ /\ task.state = "IN_PROGRESS" /\ Minted(task.id) /\ isActive(task.id)
            /\ Known(task.id) /\ StateOf(task.id) = "INPUT_REQUIRED"
            /\ getTask(task.id).messages \subseteq task.messages
  BY <1>a, StartableTasks
<1>3. PICK id0 \in TaskId : id0 = task.id
  BY <1>2
<1>4. /\ working.id = id0 /\ working.state = "IN_PROGRESS" /\ working # NoTask
      /\ Stores(working, TRUE)
  BY <1>0, <1>3, <1>a, NoTaskAssumption, StoringStores
<1>5. \A id \in TaskId : /\ Minted(id) => Minted(id)'
                         /\ id = id0 => Minted(id)'
  BY <1>0, <1>3, <1>a, HomeGrows
<1>6. /\ stream'[s].phase = "running" /\ stream'[s].task = working /\ stream'[s].bus = s
      /\ stream'[s].shown \in {"IN_PROGRESS", stream[s].shown}
      /\ stream[s].task = NoTask /\ stream[s].shown = NotShown
      /\ \A o \in Streamer \ {s} : stream'[o] = stream[o]
      /\ \A id \in TaskId : /\ controllers'[id] = IF id = id0 THEN s ELSE controllers[id]
                            /\ buses'[id] = IF id = id0 THEN s ELSE buses[id]
  BY <1>0, <1>2, <1>3, <1>a DEF Inv, TasksSound, StreamsSound, StreamSound
<1>7. /\ UNCHANGED <<sender, closedBuses>>
      /\ \A b \in Subscriber :
           /\ subscriber'[b].phase = subscriber[b].phase
           /\ subscriber'[b].id = subscriber[b].id
           /\ subscriber'[b].bus = subscriber[b].bus
           /\ subscriber'[b].seen \in {"IN_PROGRESS", subscriber[b].seen}
  BY <1>a
<1>8. /\ QueueSound' /\ Entries' \subseteq Entries \cup {task} /\ Entries \subseteq Entries'
      /\ task \in Entries' => task.state = "PENDING"
  <2>1. CASE task.state = "PENDING" /\ offer(task)
    <3>1. \A e \in Entries : ~SameEntry(e, task)
      BY <1>2, <2>1 DEF SameEntry
    <3> QED  BY <1>0, <2>1, <3>1, OfferEntries, OfferHandoff DEF Inv, QueueSound, Typed
  <2>2. CASE task.state = "IN_PROGRESS" /\ UNCHANGED queueVars
    <3>1. QueueSound' /\ Entries' = Entries
      BY <2>2, SameQueueEntries DEF Inv, QueueSound
    <3>2. task \notin Entries
      BY <1>2, <2>2
    <3> QED  BY <3>1, <3>2
  <2> QED  BY <1>a, <2>1, <2>2
<1>9. \A id \in TaskId : /\ getTask(id)' = IF id = id0 THEN working ELSE getTask(id)
                         /\ isActive(id)' <=> id = id0 \/ isActive(id)
  BY <1>4 DEF Stores
<1>10. \A e \in Entries' : e.id = id0 => e.state = "PENDING"
  BY <1>2, <1>3, <1>8
<1>11. /\ \A o \in Streamer, id \in TaskId : o # s \/ id # id0 =>
             (Names(o, id)' <=> Names(o, id)) /\ (Runs(o, id)' <=> Runs(o, id))
       /\ Names(s, id0)' /\ Runs(s, id0)'
       /\ \A o \in Streamer : ~Runs(o, id0)
       /\ ~Live(s) /\ \A id \in TaskId : ~Names(s, id)
  BY <1>0, <1>2, <1>3, <1>4, <1>6 DEF Names, Runs, Live
<1>12. Filed'
  <2>1. Minted(id0)' /\ \A id \in TaskId : Minted(id) => Minted(id)'
    BY <1>5
  <2> QED  BY <1>4, <2>1, StoringFiles DEF Inv, TasksSound
<1>13. EntriesSound'
  <2> SUFFICES ASSUME NEW e \in Entries'
               PROVE  /\ Minted(e.id)'
                      /\ e.state \in {"PENDING", "IN_PROGRESS"}
                      /\ Runnable(e)' => getTask(e.id)' = e
                      /\ e.state = "IN_PROGRESS" /\ Known(e.id)' =>
                           StateOf(e.id)' \in {"IN_PROGRESS"} \cup TERMINAL_STATES
    BY DEF EntriesSound
  <2>1. CASE e.id = id0
    BY <1>4, <1>5, <1>9, <1>10, <2>1 DEF Runnable, StateOf
  <2>2. CASE e.id # id0
    <3>1. e \in Entries /\ e.id \in TaskId
      BY <1>0, <1>3, <1>8, <2>2, EntriesAreTasks DEF Typed, Task
    <3> QED  BY <1>5, <1>9, <2>2, <3>1 DEF Inv, TasksSound, EntriesSound, Runnable, Known, StateOf
  <2> QED  BY <2>1, <2>2
<1>14. Owned'
  <2> SUFFICES ASSUME NEW id \in TaskId, Known(id)'
               PROVE  /\ StateOf(id)' = "PENDING" =>
                           getTask(id)' \in Entries' /\ \A o \in Streamer : ~Names(o, id)'
                      /\ StateOf(id)' = "IN_PROGRESS" =>
                           getTask(id)' \in Entries' \/ \E o \in Streamer : Runs(o, id)'
    BY DEF Owned
  <2>1. CASE id = id0
    BY <1>4, <1>9, <1>11, <2>1 DEF StateOf
  <2>2. CASE id # id0
    <3>1. getTask(id)' = getTask(id) /\ Known(id) /\ StateOf(id)' = StateOf(id)
      BY <1>9, <2>2 DEF Known, StateOf
    <3> QED  BY <1>8, <1>11, <2>2, <3>1 DEF Inv, TasksSound, Owned
  <2> QED  BY <2>1, <2>2
<1>15. StreamsSound'
  <2> SUFFICES ASSUME NEW o \in Streamer PROVE StreamSound(o)'
    BY DEF StreamsSound
  <2>1. CASE o # s
    <3>1. StreamSound(o) /\ Untouched(o)
      BY <1>6, <2>1 DEF Inv, TasksSound, StreamsSound, Untouched, Live
    <3>2. ASSUME NEW id \in TaskId, Runs(o, id)
          PROVE  /\ isActive(id)' <=> isActive(id)
                 /\ getTask(id)' = getTask(id)
                 /\ controllers'[id] = controllers[id]
                 /\ getTask(id) \notin Entries => getTask(id)' \notin Entries'
      <4>1. id # id0
        BY <1>11, <3>2
      <4>2. getTask(id) # task
        BY <1>3, <4>1, OtherTasks
      <4> QED  BY <1>6, <1>8, <1>9, <4>1, <4>2
    <3> QED  BY <1>5, <3>1, <3>2, StreamUntouched
  <2>2. CASE o = s
    <3>1. stream'[s].phase = "idle" => stream'[s].task = NoTask /\ stream'[s].shown = NotShown
      BY <1>6
    <3>2. \A id \in TaskId : Names(s, id)' => id = id0
      BY <1>4, <1>6 DEF Names
    <3>3. HoldsTask(s, id0)'
      <4>1. working \notin Entries'
        BY <1>4, <1>10
      <4> QED  BY <1>4, <1>6, <1>9, <4>1 DEF HoldsTask
    <3>4. \A id \in TaskId : Runs(s, id)' => id = id0
      BY <1>4, <1>6 DEF Runs
    <3> QED  BY <1>5, <2>2, <3>1, <3>2, <3>3, <3>4 DEF StreamSound
  <2> QED  BY <2>1, <2>2
<1>16. RegistriesSound'
  <2>1. ASSUME NEW id \in TaskId, NEW o \in Streamer, controllers'[id] = o \/ buses'[id] = o
        PROVE  Runs(o, id)'
    <3>1. CASE id = id0
      BY <1>6, <1>11, <2>1, <3>1
    <3>2. CASE id # id0
      BY <1>6, <1>11, <2>1, <3>2 DEF Inv, RegistriesSound
    <3> QED  BY <3>1, <3>2
  <2>2. ASSUME NEW id \in TaskId, NEW o \in Streamer, Runs(o, id)'
        PROVE  stream'[o].bus = o /\ buses'[id] = o
    <3>1. CASE o = s
      BY <1>4, <1>6, <2>2, <3>1 DEF Runs
    <3>2. CASE o # s
      <4>1. Runs(o, id) /\ id # id0
        BY <1>11, <2>2, <3>2
      <4> QED  BY <1>6, <3>2, <4>1 DEF Inv, RegistriesSound
    <3> QED  BY <3>1, <3>2
  <2>3. ASSUME NEW o \in closedBuses' PROVE stream'[o].phase = "done"
    BY <1>0, <1>6, <1>7, <2>3 DEF Inv, RegistriesSound, Typed, RegistriesTyped, Bus
  <2> QED  BY <2>1, <2>2, <2>3 DEF RegistriesSound
<1>17. SubscribersSound'
  <2>1. \A o \in Streamer, id \in TaskId : Runs(o, id) => Runs(o, id)'
    BY <1>11
  <2> QED  BY <1>5, <1>7, <2>1, SubscribersUntouched DEF Inv, ClientsSound
<1>18. TasksAdvance
  <2>1. Minted(working.id) => /\ Known(working.id)
                              /\ working.state \in Reachable[StateOf(working.id)]
                              /\ getTask(working.id).messages \subseteq working.messages
    BY <1>2, <1>a, ReachableStates DEF TASK_STATE
  <2> QED  BY <1>0, <1>4, <1>5, <2>1, StoringAdvances
<1>19. SendersSound'
  BY <1>5, <1>7 DEF Inv, ClientsSound, SendersSound, Answered
<1>20. AnswersStand'
  <2>1. \A id \in TaskId : StandsNext(id, "IN_PROGRESS") /\ StandsNext(id, NotShown)
    BY DEF StandsNext, isTerminal, TERMINAL_STATES, NotShown
  <2>2. \A o \in Streamer, id \in TaskId :
          Names(o, id)' => \/ Names(o, id) /\ stream'[o].shown = stream[o].shown
                           \/ StandsNext(id, stream'[o].shown)
    <3>1. \A id \in TaskId : StandsNext(id, stream'[s].shown)
      BY <1>6, <2>1
    <3> QED  BY <1>6, <1>11, <3>1
  <2>3. \A b \in Subscriber, id \in TaskId :
          subscriber'[b].id = id =>
            \/ subscriber[b].id = id /\ subscriber'[b].seen = subscriber[b].seen
            \/ StandsNext(id, subscriber'[b].seen)
    BY <1>7, <2>1
  <2>4. \A r \in Sender, id \in TaskId :
          Answered(r, id)' => Answered(r, id) /\ sender'[r].latest = sender[r].latest
    BY <1>7 DEF Answered
  <2> QED  BY <1>1, <1>18, <2>2, <2>3, <2>4, AnswersUntouched
<1> QED  BY <1>1, <1>8, <1>12, <1>13, <1>14, <1>15, <1>16, <1>17, <1>18, <1>19, <1>20
            DEF Inv, TasksSound, ClientsSound

(* A worker whose entry is Runnable is alone on the task; so is a stream.  *)
LEMMA RunningTask ==
  ASSUME Inv, NEW s \in Streamer, Live(s), NEW id \in TaskId, id = stream[s].task.id, isActive(id)
  PROVE  /\ Known(id) /\ Minted(id) /\ getTask(id) = stream[s].task
         /\ controllers[id] = s /\ stream[s].bus = s
         /\ stream[s].task.state \in {"IN_PROGRESS"} \cup TERMINAL_STATES
         /\ stream[s].phase # "leaving" => stream[s].task.state = "IN_PROGRESS"
         /\ stream[s].task.state = "IN_PROGRESS" =>
              \A e \in Entries : e.id = id => e.state # "IN_PROGRESS"
<1>1. HoldsTask(s, id) /\ stream[s].bus = s /\ stream[s].task # NoTask
  BY LiveStreams
<1>2. getTask(id) = stream[s].task /\ Known(id)
  BY <1>1 DEF HoldsTask, Known
<1>3. Minted(id)
  BY <1>2 DEF Inv, TasksSound, Filed
<1>4. \A e \in Entries : e.id = id => ~Runnable(e)
  BY <1>1 DEF HoldsTask, Inv, TasksSound, EntriesSound
<1> QED  BY <1>1, <1>2, <1>3, <1>4 DEF HoldsTask, Runnable, StateOf

(* A subscriber attached to the bus of a live stream asked for its task.   *)
LEMMA AttachedSubscribers ==
  ASSUME Inv, NEW s \in Streamer, Live(s), NEW b \in Subscriber,
         subscriber[b].phase = "attached", subscriber[b].bus = stream[s].bus
  PROVE  subscriber[b].id = stream[s].task.id
<1>1. stream[s].bus = s
  BY LiveStreams
<1> QED  BY <1>1 DEF Inv, ClientsSound, SubscribersSound, Runs

LEMMA StreamArtifactKeeps ==
  ASSUME Inv, NEW s \in Streamer, StreamArtifact(s)
  PROVE  Inv' /\ TasksAdvance
<1>0. Typed /\ Live(s) /\ isActive(stream[s].task.id)
  BY DEF Inv, StreamArtifact, Live, updateActive
<1>1. stream[s].task \in Task /\ setActive(stream[s].task) /\ Typed'
  BY <1>0, StreamArtifactType
<1>2. PICK id \in TaskId : id = stream[s].task.id
  BY <1>1 DEF Task
<1>3. getTask(id) = stream[s].task
  BY <1>0, <1>2, RunningTask
<1>4. SameReads
  BY <1>0, <1>1, <1>2, <1>3, StoringStores DEF SameReads, Stores
<1>5. UNCHANGED <<queueVars, home, requestVars, registryVars>>
  BY DEF StreamArtifact
<1>6. QueueSound' /\ TasksSound' /\ RegistriesSound' /\ TasksAdvance
  BY <1>4, <1>5, IdleKeeps DEF requestVars
<1>7. ClientsSound'
  BY <1>1, <1>5, <1>6, ClientsUntouched DEF requestVars, Names, Runs, Live
<1> QED  BY <1>1, <1>6, <1>7 DEF Inv

(* An executor that returns at a pause only yields terminal states here.   *)
LEMMA StreamStatusKeeps ==
  ASSUME ExecutorStopsAtPause, Inv, NEW s \in Streamer, NEW state \in TASK_STATE,
         StreamStatus(s, state)
  PROVE  Inv' /\ TasksAdvance
<1>0. /\ Typed /\ Live(s) /\ stream[s].phase = "running"
      /\ CanPersist(stream[s].task, state) /\ ~isPaused(state)
      /\ UNCHANGED <<queueVars, pushConfigs, home, sender, registryVars>>
  BY DEF Inv, StreamStatus, Live
<1>a. PICK next \in Task :
           /\ next.id = stream[s].task.id /\ next.state = state
           /\ next.messages = stream[s].task.messages
           /\ setActive(next)
           /\ \A o \in Streamer \ {s} : stream'[o] = stream[o]
           /\ stream'[s].phase = IF isTerminal(state) THEN "leaving" ELSE "running"
           /\ stream'[s].task = next
           /\ stream'[s].aborted = stream[s].aborted
           /\ stream'[s].bus = stream[s].bus
           /\ stream'[s].shown \in {state, stream[s].shown}
           /\ \A b \in Subscriber :
                /\ subscriber'[b].phase = subscriber[b].phase
                /\ subscriber'[b].id = subscriber[b].id
                /\ subscriber'[b].bus = subscriber[b].bus
                /\ \/ subscriber'[b].seen = subscriber[b].seen
                   \/ /\ subscriber[b].phase = "attached"
                      /\ subscriber[b].bus = stream[s].bus
                      /\ subscriber'[b].seen = state
           /\ Typed'
  BY <1>0, StreamStatusEffect
<1>1. PICK id \in TaskId : id = next.id
  BY DEF Task
<1>2. /\ isActive(id) /\ Known(id) /\ Minted(id) /\ getTask(id) = stream[s].task
      /\ controllers[id] = s /\ stream[s].bus = s
      /\ stream[s].task.state = "IN_PROGRESS"
  BY <1>0, <1>1, <1>a, RunningTask DEF CanPersist
<1>3. state \in TERMINAL_STATES /\ next # NoTask
  BY <1>0, <1>2, FromInProgress, NoTaskAssumption DEF CanPersist, isPaused, PAUSED_STATES
<1>4. Stores(next, TRUE)
  BY <1>0, <1>a, StoringStores
<1>5. /\ next.id = id /\ next.state = state /\ stream[s].task.id = id
      /\ stream[s].task # NoTask
      /\ \A o \in Streamer \ {s} : stream'[o] = stream[o]
      /\ stream'[s].phase = "leaving" /\ stream'[s].task = next
      /\ stream'[s].bus = s /\ stream'[s].shown \in {state, stream[s].shown}
      /\ Typed'
  BY <1>0, <1>1, <1>2, <1>3, <1>a, LiveStreams DEF isTerminal
<1>6. \A b \in Subscriber :
        /\ subscriber'[b].phase = subscriber[b].phase
        /\ subscriber'[b].id = subscriber[b].id
        /\ subscriber'[b].bus = subscriber[b].bus
        /\ \/ subscriber'[b].seen = subscriber[b].seen
           \/ subscriber[b].id = id /\ subscriber'[b].seen = state
  BY <1>0, <1>1, <1>a, AttachedSubscribers
<1>7. \A o \in Streamer, i \in TaskId :
        (Names(o, i)' <=> Names(o, i)) /\ (Runs(o, i)' <=> Runs(o, i))
  BY <1>0, <1>3, <1>5 DEF Names, Runs, Live
<1>8. QueueSound' /\ Entries' = Entries
  BY <1>0, SameQueueEntries DEF Inv, QueueSound
<1>9. Filed' /\ EntriesSound' /\ Owned'
  <2>1. /\ TRUE \in BOOLEAN /\ UNCHANGED home /\ Minted(next.id)
        /\ next.state \in {"INPUT_REQUIRED"} \cup TERMINAL_STATES
        /\ next.state # "INPUT_REQUIRED"
    BY <1>0, <1>2, <1>3, <1>5 DEF TERMINAL_STATES
  <2> QED  BY <1>4, <1>7, <1>8, <2>1, SettlingKeeps
<1>10. StreamsSound'
  <2> SUFFICES ASSUME NEW o \in Streamer PROVE StreamSound(o)'
    BY DEF StreamsSound
  <2>0. \A i \in TaskId : /\ getTask(i)' = IF i = id THEN next ELSE getTask(i)
                          /\ isActive(i)' <=> isActive(i)
                          /\ controllers'[i] = controllers[i]
                          /\ Minted(i)' <=> Minted(i)
    BY <1>0, <1>2, <1>4, <1>5 DEF Stores, registryVars, Minted
  <2>1. CASE o # s
    <3>1. StreamSound(o) /\ Untouched(o)
      BY <1>5, <2>1 DEF Inv, TasksSound, StreamsSound, Untouched, Live
    <3>2. ~Runs(o, id)
      BY <1>0, <1>5, <2>1, LiveStreams DEF Runs
    <3>3. \A i \in TaskId : Runs(o, i) => i # id
      BY <3>2
    <3> QED  BY <1>8, <2>0, <3>1, <3>3, StreamUntouched
  <2>2. CASE o = s
    <3>1. next \notin Entries'
      BY <1>3, <1>5, <1>8 DEF Inv, TasksSound, EntriesSound, TERMINAL_STATES
    <3>2. HoldsTask(s, id)'
      BY <1>2, <1>3, <1>5, <2>0, <3>1 DEF HoldsTask
    <3>3. \A i \in TaskId : Names(s, i)' \/ Runs(s, i)' => i = id
      BY <1>5 DEF Names, Runs
    <3> QED  BY <1>2, <1>5, <2>0, <2>2, <3>2, <3>3 DEF StreamSound
  <2> QED  BY <2>1, <2>2
<1>11. RegistriesSound'
  <2>1. \A o \in Streamer : /\ stream'[o].bus = stream[o].bus
                            /\ stream[o].phase = "done" => stream'[o].phase = "done"
    BY <1>0, <1>2, <1>5
  <2> QED  BY <1>0, <1>7, <2>1, RegistriesUntouched DEF Inv, registryVars
<1>12. TasksAdvance
  <2>1. state \in Reachable["IN_PROGRESS"]
    BY <1>3, ReachableStates DEF TERMINAL_STATES
  <2>2. \A i \in TaskId : Minted(i) => Minted(i)'
    BY <1>0 DEF Minted
  <2>3. /\ Known(next.id) /\ next.state \in Reachable[StateOf(next.id)]
        /\ getTask(next.id).messages \subseteq next.messages
    <3>1. next.messages = stream[s].task.messages
      BY <1>a
    <3> QED  BY <1>2, <1>5, <2>1, <3>1 DEF StateOf
  <2> QED  BY <1>0, <1>4, <2>2, <2>3, StoringAdvances
<1>13. ClientsSound'
  <2>1. \A i \in TaskId : Minted(i)' <=> Minted(i)
    BY <1>0 DEF Minted
  <2>2. SubscribersSound'
    BY <1>6, <1>7, <2>1, SubscribersUntouched DEF Inv, ClientsSound
  <2>3. /\ SendersSound'
        /\ \A r \in Sender, i \in TaskId :
             Answered(r, i)' => Answered(r, i) /\ sender'[r].latest = sender[r].latest
    BY <1>0, <2>1 DEF Inv, ClientsSound, SendersSound, Answered
  <2>4. StandsNext(id, state)
    BY <1>4, <1>5 DEF StandsNext, Stores, StateOf
  <2>5. \A o \in Streamer, i \in TaskId :
          Names(o, i)' => \/ Names(o, i) /\ stream'[o].shown = stream[o].shown
                          \/ StandsNext(i, stream'[o].shown)
    BY <1>5, <1>7, <2>4 DEF Names
  <2>6. AnswersStand'
    BY <1>5, <1>6, <1>12, <2>3, <2>4, <2>5, AnswersUntouched
  <2> QED  BY <2>2, <2>3, <2>6 DEF ClientsSound
<1> QED  BY <1>5, <1>8, <1>9, <1>10, <1>11, <1>12, <1>13 DEF Inv, TasksSound

(* Once a stream has ended, its task is nobody's, its bus is closed and    *)
(* nobody waits on it.                                                     *)
LEMMA EndsKeep ==
  ASSUME Inv, NEW s \in Streamer, Live(s), NEW final \in Task, NEW tells \in BOOLEAN,
         Ends(s, final, tells), NEW id \in TaskId, id = stream[s].task.id, final.id = id,
         Typed', TasksAdvance, UNCHANGED sender, Entries' = Entries,
         tells => getTask(id)' = final,
         \A i \in TaskId :
           i # id => getTask(i)' = getTask(i) /\ (isActive(i)' <=> isActive(i))
  PROVE  StreamsSound' /\ RegistriesSound' /\ ClientsSound'
<1>0. /\ Typed /\ stream[s].task \in Task /\ stream[s].task # NoTask /\ final # NoTask
      /\ stream[s].bus = s /\ stream[s].bus \in Bus
  BY LiveStreams, NoTaskAssumption DEF Inv, Bus
<1>a. /\ \A o \in Streamer \ {s} : stream'[o] = stream[o]
      /\ stream'[s].phase = "done" /\ stream'[s].task = final
      /\ stream'[s].shown = IF tells THEN final.state ELSE stream[s].shown
      /\ \A b \in Subscriber :
           /\ subscriber'[b].phase =
                IF subscriber[b].phase = "attached" /\ subscriber[b].bus = stream[s].bus
                THEN "closed" ELSE subscriber[b].phase
           /\ subscriber'[b].id = subscriber[b].id
           /\ subscriber'[b].bus = subscriber[b].bus
           /\ \/ subscriber'[b].seen = subscriber[b].seen
              \/ /\ tells /\ subscriber[b].phase = "attached"
                 /\ subscriber[b].bus = stream[s].bus
                 /\ subscriber'[b].seen = final.state
      /\ \A i \in TaskId :
           /\ controllers'[i] = IF i = stream[s].task.id THEN NoStream ELSE controllers[i]
           /\ buses'[i] = IF i = stream[s].task.id THEN NoStream ELSE buses[i]
      /\ closedBuses' = closedBuses \cup {stream[s].bus}
  BY <1>0, EndsEffect DEF Typed
<1>1. /\ \A o \in Streamer \ {s} : stream'[o] = stream[o]
      /\ stream'[s].phase = "done" /\ stream'[s].task = final
      /\ stream'[s].shown = IF tells THEN final.state ELSE stream[s].shown
  BY <1>a
<1>2. /\ \A i \in TaskId : /\ controllers'[i] = IF i = id THEN NoStream ELSE controllers[i]
                           /\ buses'[i] = IF i = id THEN NoStream ELSE buses[i]
      /\ closedBuses' = closedBuses \cup {s}
  BY <1>0, <1>a
<1>3. \A b \in Subscriber :
        /\ subscriber'[b].phase = "attached" =>
             subscriber[b].phase = "attached" /\ subscriber[b].bus # s
        /\ subscriber'[b].id = subscriber[b].id
        /\ subscriber'[b].bus = subscriber[b].bus
        /\ \/ subscriber'[b].seen = subscriber[b].seen
           \/ tells /\ subscriber[b].id = id /\ subscriber'[b].seen = final.state
  BY <1>0, <1>a, AttachedSubscribers
<1>4. /\ \A o \in Streamer, i \in TaskId :
           /\ Names(o, i)' <=> Names(o, i)
           /\ Runs(o, i)' <=> Runs(o, i) /\ o # s
      /\ \A o \in Streamer, i \in TaskId : Runs(o, i) /\ o # s => i # id
  <2>1. \A o \in Streamer, i \in TaskId : Runs(o, i) /\ o # s => i # id
    BY LiveStreams DEF Runs
  <2>2. ~Live(s)'
    BY <1>1 DEF Live
  <2>3. \A i \in TaskId : (Names(s, i)' <=> Names(s, i)) /\ ~Runs(s, i)'
    BY <1>0, <1>1, <2>2 DEF Names, Runs
  <2>4. \A o \in Streamer \ {s}, i \in TaskId :
          (Names(o, i)' <=> Names(o, i)) /\ (Runs(o, i)' <=> Runs(o, i))
    BY <1>1 DEF Names, Runs, Live
  <2> QED  BY <2>1, <2>3, <2>4
<1>5. \A i \in TaskId : Minted(i) => Minted(i)'
  BY DEF TasksAdvance
<1>6. StreamsSound'
  <2> SUFFICES ASSUME NEW o \in Streamer PROVE StreamSound(o)'
    BY DEF StreamsSound
  <2>1. CASE o # s
    <3>1. StreamSound(o) /\ Untouched(o)
      BY <1>1, <2>1 DEF Inv, TasksSound, StreamsSound, Untouched, Live
    <3>2. \A i \in TaskId : Runs(o, i) =>
            /\ getTask(i)' = getTask(i) /\ (isActive(i)' <=> isActive(i))
            /\ controllers'[i] = controllers[i]
      BY <1>2, <1>4, <2>1
    <3> QED  BY <1>5, <3>1, <3>2, StreamUntouched
  <2>2. CASE o = s
    BY <1>1, <1>4, <1>5, <2>2 DEF StreamSound, Inv, TasksSound, StreamsSound
  <2> QED  BY <2>1, <2>2
<1>7. RegistriesSound'
  <2>1. ASSUME NEW i \in TaskId, NEW o \in Streamer, controllers'[i] = o \/ buses'[i] = o
        PROVE  Runs(o, i)'
    <3>1. i # id /\ (controllers[i] = o \/ buses[i] = o)
      BY <1>2, <2>1, RequestAssumption
    <3>2. Runs(o, i)
      BY <3>1 DEF Inv, RegistriesSound
    <3>3. o # s
      BY <3>1, <3>2 DEF Runs
    <3> QED  BY <1>4, <3>2, <3>3
  <2>2. ASSUME NEW i \in TaskId, NEW o \in Streamer, Runs(o, i)'
        PROVE  stream'[o].bus = o /\ buses'[i] = o
    <3>1. Runs(o, i) /\ o # s /\ i # id
      BY <1>4, <2>2
    <3> QED  BY <1>1, <1>2, <3>1 DEF Inv, RegistriesSound
  <2>3. ASSUME NEW o \in closedBuses' PROVE stream'[o].phase = "done"
    BY <1>0, <1>1, <1>2, <2>3 DEF Inv, RegistriesSound, Typed, RegistriesTyped, Bus
  <2> QED  BY <2>1, <2>2, <2>3 DEF RegistriesSound
<1>8. SubscribersSound'
  <2>1. \A b \in Subscriber, o \in Streamer, i \in TaskId :
          subscriber'[b].phase = "attached" /\ subscriber[b].bus = o /\ Runs(o, i) => Runs(o, i)'
    BY <1>3, <1>4
  <2> QED  BY <1>3, <1>5, <2>1, SubscribersUntouched DEF Inv, ClientsSound
<1>9. /\ SendersSound'
      /\ \A r \in Sender, i \in TaskId :
           Answered(r, i)' => Answered(r, i) /\ sender'[r].latest = sender[r].latest
  BY <1>5 DEF Inv, ClientsSound, SendersSound, Answered
<1>10. AnswersStand'
  <2>1. tells => StandsNext(id, final.state)
    BY DEF StandsNext, StateOf
  <2>2. \A o \in Streamer, i \in TaskId :
          Names(o, i)' => \/ Names(o, i) /\ stream'[o].shown = stream[o].shown
                          \/ StandsNext(i, stream'[o].shown)
    <3>1. \A i \in TaskId : Names(s, i)' => i = id
      BY <1>1 DEF Names
    <3> QED  BY <1>1, <1>4, <2>1, <3>1
  <2>3. \A b \in Subscriber, i \in TaskId :
          subscriber'[b].id = i =>
            \/ subscriber[b].id = i /\ subscriber'[b].seen = subscriber[b].seen
            \/ StandsNext(i, subscriber'[b].seen)
    BY <1>3, <2>1
  <2> QED  BY <1>9, <2>2, <2>3, AnswersUntouched
<1> QED  BY <1>6, <1>7, <1>8, <1>9, <1>10 DEF ClientsSound

(* The last transition of a stream, terminal or a pause.                   *)
LEMMA SettlingEndKeeps ==
  ASSUME Inv, NEW s \in Streamer, Live(s), NEW final \in Task, NEW tells \in BOOLEAN,
         Ends(s, final, tells), NEW id \in TaskId, id = stream[s].task.id, final.id = id,
         final.messages = stream[s].task.messages,
         isActive(id), stream[s].task.state = "IN_PROGRESS",
         final.state \in {"INPUT_REQUIRED"} \cup TERMINAL_STATES,
         setActive(final), UNCHANGED <<queueVars, home, sender>>, Typed'
  PROVE  Inv' /\ TasksAdvance
<1>0. Typed
  BY DEF Inv
<1>1. /\ Known(id) /\ Minted(id) /\ getTask(id) = stream[s].task
      /\ \A e \in Entries : e.id = id => e.state # "IN_PROGRESS"
  BY RunningTask
<1>2. Stores(final, TRUE)
  BY <1>0, StoringStores
<1>3. QueueSound' /\ Entries' = Entries
  BY SameQueueEntries DEF Inv, QueueSound
<1>4. TasksAdvance
  <2>1. \A i \in TaskId : Minted(i) => Minted(i)'
    BY DEF Minted
  <2>2. final.state \in Reachable["IN_PROGRESS"]
    BY ReachableStates DEF TERMINAL_STATES, TASK_STATE
  <2>3. /\ Known(final.id) /\ final.state \in Reachable[StateOf(final.id)]
        /\ getTask(final.id).messages \subseteq final.messages
    BY <1>1, <2>2 DEF StateOf
  <2> QED  BY <1>0, <1>2, <2>1, <2>3, StoringAdvances
<1>5. StreamsSound' /\ RegistriesSound' /\ ClientsSound'
  BY <1>2, <1>3, <1>4, EndsKeep DEF Stores
<1>6. \A o \in Streamer, i \in TaskId :
        /\ Names(o, i)' => Names(o, i)
        /\ i # id /\ Runs(o, i) => Runs(o, i)'
  <2>1. \A o \in Streamer \ {s} : stream'[o] = stream[o]
    BY <1>0, EndsEffect, LiveStreams DEF Typed, Bus
  <2>2. stream'[s].task = final
    BY <1>0, EndsEffect, LiveStreams DEF Typed, Bus
  <2>3. stream[s].task # NoTask
    BY LiveStreams
  <2> QED  BY <2>1, <2>2, <2>3 DEF Names, Runs, Live
<1>7. Filed' /\ EntriesSound' /\ Owned'
  <2>1. TRUE \in BOOLEAN /\ UNCHANGED home /\ Minted(final.id)
    BY <1>1
  <2> QED  BY <1>1, <1>2, <1>3, <1>6, <2>1, SettlingKeeps
<1> QED  BY <1>3, <1>4, <1>5, <1>7 DEF Inv, TasksSound

LEMMA StreamPausesKeeps ==
  ASSUME Inv, NEW s \in Streamer, StreamPauses(s)
  PROVE  Inv' /\ TasksAdvance
<1>0. /\ Typed /\ Live(s) /\ stream[s].phase = "running" /\ isActive(stream[s].task.id)
      /\ UNCHANGED <<queueVars, home, sender>>
  BY DEF Inv, StreamPauses, Live, CanPersist
<1>1. PICK next \in Task :
           /\ next.id = stream[s].task.id /\ next.state = "INPUT_REQUIRED"
           /\ next.messages = stream[s].task.messages
           /\ setActive(next)
           /\ \E tells \in BOOLEAN : Ends(s, next, tells)
           /\ Typed'
  BY <1>0, StreamPausesEffect
<1>2. PICK tells \in BOOLEAN : Ends(s, next, tells)
  BY <1>1
<1>3. PICK id \in TaskId : id = next.id
  BY DEF Task
<1>4. stream[s].task.state = "IN_PROGRESS"
  BY <1>0, <1>1, <1>3, RunningTask
<1> QED  BY <1>0, <1>1, <1>2, <1>3, <1>4, SettlingEndKeeps

(* The last transition is tried and made, or the task has been settled by  *)
(* somebody else; nothing is left to file.                                 *)
LEMMA EndStreamKeeps ==
  ASSUME Inv, NEW s \in Streamer, Live(s), NEW threw \in BOOLEAN, EndStream(s, threw)
  PROVE  Inv' /\ TasksAdvance
<1>0. Typed /\ stream[s].task \in Task /\ HoldsTask(s, stream[s].task.id)
  BY LiveStreams DEF Inv
<1>a. PICK final \in Task, tells \in BOOLEAN :
           LET id == stream[s].task.id
           IN  /\ final.id = id /\ final.messages = stream[s].task.messages
               /\ Ends(s, final, tells)
               /\ \/ /\ ~isTerminal(stream[s].task.state) /\ isActive(id)
                     /\ canTransition(stream[s].task.state, final.state)
                     /\ isTerminal(final.state)
                     /\ setActive(final)
                  \/ /\ ~tells /\ final = stream[s].task
                     /\ isTerminal(final.state)
                     /\ ~(Known(id) /\ isTerminal(StateOf(id)))
                     /\ storeDeadLetter(final)
                  \/ /\ ~tells /\ final = stream[s].task
                     /\ isTerminal(final.state)
                          \/ \E goal \in TERMINAL_STATES : ~CanPersist(final, goal)
                     /\ UNCHANGED mapVars
               /\ UNCHANGED <<queueVars, home, sender>>
               /\ Typed'
  BY <1>0, EndStreamEffect
<1>1. PICK id \in TaskId : id = stream[s].task.id
  BY <1>0 DEF Task
<1>2. CASE ~isTerminal(stream[s].task.state) /\ isActive(id) /\ isTerminal(final.state)
             /\ setActive(final)
  <2>1. stream[s].task.state = "IN_PROGRESS"
    BY <1>1, <1>2, RunningTask DEF isTerminal
  <2> QED  BY <1>1, <1>2, <1>a, <2>1, SettlingEndKeeps DEF isTerminal
<1>3. CASE isTerminal(stream[s].task.state) /\ ~(Known(id) /\ isTerminal(StateOf(id)))
  <2>1. isActive(id)
    BY <1>0, <1>1, <1>3 DEF HoldsTask, isTerminal, TERMINAL_STATES
  <2>2. Known(id) /\ getTask(id) = stream[s].task
    BY <1>1, <2>1, RunningTask
  <2> QED  BY <1>3, <2>2 DEF StateOf
<1>4. CASE /\ ~tells /\ final = stream[s].task
           /\ isTerminal(final.state) \/ \E goal \in TERMINAL_STATES : ~CanPersist(final, goal)
           /\ UNCHANGED mapVars
  <2>1. SameReads /\ UNCHANGED home
    BY <1>4, <1>a, SameMapsReads DEF SameReads
  <2>2. QueueSound' /\ Entries' = Entries
    BY <1>a, SameQueueEntries DEF Inv, QueueSound
  <2>3. TasksAdvance
    BY <1>0, <2>1, SameTasksAdvance
  <2>4. StreamsSound' /\ RegistriesSound' /\ ClientsSound'
    BY <1>1, <1>4, <1>a, <2>1, <2>2, <2>3, EndsKeep DEF SameReads
  <2>5. ~(Known(id) /\ StateOf(id) = "IN_PROGRESS")
    <3> SUFFICES ASSUME Known(id), StateOf(id) = "IN_PROGRESS" PROVE FALSE
      OBVIOUS
    <3>1. isActive(id)
      BY DEF Inv, TasksSound, Filed, isTerminal, TERMINAL_STATES
    <3>2. getTask(id) = final
      BY <1>1, <1>4, <3>1, RunningTask
    <3> QED  BY <1>1, <1>4, <3>1, <3>2, FromInProgress
             DEF StateOf, CanPersist, isTerminal, TERMINAL_STATES
  <2>6. \A o \in Streamer, i \in TaskId :
          /\ Names(o, i)' => Names(o, i)
          /\ Runs(o, i) /\ Known(i) /\ StateOf(i) = "IN_PROGRESS" => Runs(o, i)'
    <3>1. \A o \in Streamer \ {s} : stream'[o] = stream[o]
      BY <1>0, <1>a, EndsEffect, LiveStreams DEF Typed, Bus
    <3>2. stream'[s].task = final
      BY <1>0, <1>a, EndsEffect, LiveStreams DEF Typed, Bus
    <3>3. \A i \in TaskId : Runs(s, i) => i = id
      BY <1>1 DEF Runs
    <3> QED  BY <1>4, <2>5, <3>1, <3>2, <3>3 DEF Names, Runs, Live
  <2>7. Filed' /\ EntriesSound' /\ Owned'
    BY <2>1, <2>2, <2>6, SameTasksKeep
  <2> QED  BY <1>a, <2>2, <2>3, <2>4, <2>7 DEF Inv, TasksSound
<1> QED  BY <1>1, <1>2, <1>3, <1>4, <1>a

(* A cancelled task leaves the active map; its stream has been told.       *)
LEMMA CancelTaskKeeps ==
  ASSUME Inv, NEW id \in TaskId, CancelTask(id)
  PROVE  Inv' /\ TasksAdvance
<1>0. Typed
  BY DEF Inv
<1>a. PICK task \in Task :
           /\ Open(id)
           /\ task.id = getTask(id).id /\ task.state = "CANCELLED"
           /\ task.messages = getTask(id).messages
           /\ storeDeadLetter(task)
           /\ IF StateOf(id) = "PENDING" THEN removeFromQueue(id) ELSE UNCHANGED queueVars
           /\ \A i \in TaskId : controllers'[i] = IF i = id THEN NoStream ELSE controllers[i]
           /\ \A s \in Streamer :
                /\ stream'[s].phase = stream[s].phase /\ stream'[s].task = stream[s].task
                /\ stream'[s].bus = stream[s].bus /\ stream'[s].shown = stream[s].shown
                /\ stream[s].aborted => stream'[s].aborted
                /\ s = controllers[id] => stream'[s].aborted
           /\ UNCHANGED <<pushConfigs, home, sender, subscriber, buses, closedBuses>>
           /\ Typed'
  BY <1>0, CancelTaskEffect
<1>1. /\ Known(id) /\ ~isTerminal(StateOf(id)) /\ isActive(id) /\ Minted(id)
      /\ task.id = id /\ task.state = "CANCELLED" /\ task.messages = getTask(id).messages
  BY <1>a DEF Open, Inv, TasksSound, Filed
<1>2. Stores(task, FALSE)
  BY <1>0, <1>a, StoringStores
<1>3. /\ \A i \in TaskId : controllers'[i] = IF i = id THEN NoStream ELSE controllers[i]
      /\ \A s \in Streamer :
           /\ stream'[s].phase = stream[s].phase /\ stream'[s].task = stream[s].task
           /\ stream'[s].bus = stream[s].bus /\ stream'[s].shown = stream[s].shown
           /\ stream[s].aborted => stream'[s].aborted
           /\ s = controllers[id] => stream'[s].aborted
      /\ UNCHANGED <<home, sender, subscriber, buses, closedBuses>>
      /\ Typed'
  BY <1>a
<1>4. \A s \in Streamer, i \in TaskId :
        (Names(s, i)' <=> Names(s, i)) /\ (Runs(s, i)' <=> Runs(s, i))
  BY <1>3 DEF Names, Runs, Live
<1>5. /\ QueueSound' /\ Entries' \subseteq Entries
      /\ \A e \in Entries : e.id # id => e \in Entries'
  <2>1. CASE removeFromQueue(id)
    BY <1>0, <2>1, RemoveFromQueueEntries, RemoveFromQueueHandoff DEF Inv, QueueSound, Typed
  <2>2. CASE UNCHANGED queueVars
    BY <2>2, SameQueueEntries DEF Inv, QueueSound
  <2> QED  BY <1>a, <2>1, <2>2
<1>6. Filed' /\ EntriesSound' /\ Owned'
  <2>1. /\ FALSE \in BOOLEAN /\ Minted(task.id) /\ isTerminal(task.state)
        /\ task.state \in {"INPUT_REQUIRED"} \cup TERMINAL_STATES
        /\ task.state # "INPUT_REQUIRED"
    BY <1>1 DEF isTerminal, TERMINAL_STATES
  <2> QED  BY <1>1, <1>2, <1>3, <1>4, <1>5, <2>1, SettlingKeeps
<1>7. \A i \in TaskId : /\ getTask(i)' = IF i = id THEN task ELSE getTask(i)
                        /\ isActive(i)' <=> i # id /\ isActive(i)
                        /\ Minted(i)' <=> Minted(i)
  BY <1>1, <1>2, <1>3 DEF Stores, Minted
<1>8. StreamsSound'
  <2> SUFFICES ASSUME NEW s \in Streamer PROVE StreamSound(s)'
    BY DEF StreamsSound
  <2>0. StreamSound(s)
    BY DEF Inv, TasksSound, StreamsSound
  <2>1. CASE Runs(s, id)
    <3>1. HoldsTask(s, id)
      BY <2>0, <2>1 DEF StreamSound
    <3>2. /\ getTask(id) = stream[s].task /\ controllers[id] = s
          /\ stream[s].task.state = "IN_PROGRESS"
      BY <1>1, <3>1 DEF HoldsTask, isTerminal, StateOf
    <3>3. task \notin Entries'
      BY <1>1, <1>5 DEF Inv, TasksSound, EntriesSound
    <3>4. HoldsTask(s, id)'
      BY <1>3, <1>7, <3>1, <3>2, <3>3 DEF HoldsTask
    <3>5. \A i \in TaskId : Runs(s, i) => i = id
      BY <2>1 DEF Runs
    <3> QED  BY <1>3, <1>4, <1>7, <2>0, <3>4, <3>5 DEF StreamSound
  <2>2. CASE ~Runs(s, id)
    <3>1. Untouched(s)
      BY <1>3 DEF Untouched, Live
    <3>2. \A i \in TaskId : Runs(s, i) => i # id
      BY <2>2
    <3> QED  BY <1>3, <1>5, <1>7, <2>0, <3>1, <3>2, StreamUntouched
  <2> QED  BY <2>1, <2>2
<1>9. RegistriesSound'
  <2>1. \A i \in TaskId : controllers'[i] \in {controllers[i], NoStream}
    BY <1>3
  <2> QED  BY <1>0, <1>3, <1>4, <2>1, RegistriesUntouched DEF Inv
<1>10. TasksAdvance
  <2>1. \A i \in TaskId : Minted(i) => Minted(i)'
    BY <1>7
  <2>2. StateOf(id) \in TASK_STATE
    BY <1>0, <1>1, StoredTasks DEF Typed, StateOf, Task
  <2>3. "CANCELLED" \in Reachable[StateOf(id)]
    BY <1>1, <2>2, ReachableStates DEF TASK_STATE, TERMINAL_STATES, isTerminal
  <2> QED  BY <1>0, <1>1, <1>2, <2>1, <2>3, StoringAdvances
<1>11. ClientsSound'
  BY <1>3, <1>4, <1>10, ClientsUntouched
<1> QED  BY <1>3, <1>5, <1>6, <1>8, <1>9, <1>10, <1>11 DEF Inv, TasksSound

(* The sweep forgets dead letters; nobody works on one.                    *)
LEMMA RetentionSweepKeeps ==
  ASSUME Inv, RetentionSweep
  PROVE  Inv' /\ TasksAdvance
<1>0. Typed
  BY DEF Inv
<1>1. /\ UNCHANGED <<queueVars, home, requestVars, registryVars>>
      /\ Typed'
  BY <1>0, RetentionSweepEffect
<1>2. \A id \in TaskId :
        /\ getTask(id)' = getTask(id) \/ (~isActive(id) /\ getTask(id)' = NoTask)
        /\ isActive(id)' <=> isActive(id)
        /\ Minted(id)' <=> Minted(id)
  <2>1. PICK ids \in SUBSET TaskId : evict(ids)
    BY <1>0, RetentionSweepEffect
  <2> QED  BY <1>0, <1>1, <2>1, EvictReads DEF Typed, Minted
<1>3. QueueSound' /\ Entries' = Entries
  BY <1>1, SameQueueEntries DEF Inv, QueueSound
<1>4. \A s \in Streamer, id \in TaskId :
        (Names(s, id)' <=> Names(s, id)) /\ (Runs(s, id)' <=> Runs(s, id))
  BY <1>1 DEF requestVars, Names, Runs, Live
<1>5. \A id \in TaskId : Known(id)' => /\ Known(id) /\ getTask(id)' = getTask(id)
                                       /\ StateOf(id)' = StateOf(id)
  BY <1>2 DEF Known, StateOf
<1>6. Filed'
  BY <1>2, <1>5 DEF Inv, TasksSound, Filed
<1>7. EntriesSound'
  <2>1. \A e \in Entries : e.id \in TaskId
    BY <1>0, EntriesAreTasks DEF Typed, Task
  <2> QED  BY <1>2, <1>3, <1>5, <2>1 DEF Inv, TasksSound, EntriesSound, Runnable
<1>8. Owned'
  BY <1>3, <1>4, <1>5 DEF Inv, TasksSound, Owned
<1>9. StreamsSound'
  <2> SUFFICES ASSUME NEW s \in Streamer PROVE StreamSound(s)'
    BY DEF StreamsSound
  <2>1. StreamSound(s) /\ Untouched(s)
    BY <1>1 DEF requestVars, Inv, TasksSound, StreamsSound, Untouched, Live
  <2>2. \A id \in TaskId : controllers'[id] = controllers[id]
    BY <1>1 DEF registryVars
  <2>3. NoTask \notin Entries'
    BY DEF Entries
  <2> QED  BY <1>2, <1>3, <2>1, <2>2, <2>3, StreamUntouched
<1>10. RegistriesSound'
  BY <1>0, <1>1, <1>4, RegistriesUntouched DEF Inv, registryVars, requestVars
<1>11. TasksAdvance
  <2>1. \A id \in TaskId : Known(id) => StateOf(id) \in TASK_STATE
    BY <1>0, StoredTasks DEF Typed, StateOf, Task
  <2> QED  BY <1>2, <1>5, <2>1, ReachableStates DEF TasksAdvance
<1>12. ClientsSound'
  BY <1>1, <1>4, <1>11, ClientsUntouched DEF requestVars, Names
<1> QED  BY <1>1, <1>3, <1>6, <1>7, <1>8, <1>9, <1>10, <1>11, <1>12 DEF Inv, TasksSound

(* A worker gives up an entry that nobody would run, or settles its task,  *)
(* on which no stream works.                                               *)
LEMMA WorkerStepKeeps ==
  ASSUME Inv, NEW w \in Worker, WorkerStep(w)
  PROVE  Inv' /\ TasksAdvance
<1>0. Typed /\ QueueTyped
  BY DEF Inv, Typed
<1>1. /\ dequeue(w)
      /\ \/ UNCHANGED mapVars /\ (resolved[w] = NoTask \/ ~Runnable(resolved[w]))
         \/ /\ resolved[w] \in Task /\ Runnable(resolved[w]) /\ isActive(resolved[w].id)
            /\ \E result \in Task :
                 /\ result.id = resolved[w].id
                 /\ result.state \in {"COMPLETED", "FAILED", "INPUT_REQUIRED"}
                 /\ result.messages = resolved[w].messages
                 /\ IF isTerminal(result.state) THEN storeDeadLetter(result)
                    ELSE setActive(result)
      /\ UNCHANGED <<pushConfigs, home, requestVars, registryVars>>
      /\ Typed'
  BY <1>0, WorkerStepEffect
<1>2. QueueSound' /\ Entries' = Entries \ {resolved[w]}
  BY <1>0, <1>1, DequeueEntries, DequeueHandoff DEF Inv, QueueSound
<1>3. \A s \in Streamer, id \in TaskId :
        (Names(s, id)' <=> Names(s, id)) /\ (Runs(s, id)' <=> Runs(s, id))
  BY <1>1 DEF requestVars, Names, Runs, Live
<1>4. \A s \in Streamer : StreamSound(s) /\ Untouched(s)
  BY <1>1 DEF requestVars, Inv, TasksSound, StreamsSound, Untouched, Live
<1>5. \A id \in TaskId : controllers'[id] = controllers[id] /\ (Minted(id)' <=> Minted(id))
  BY <1>1 DEF registryVars, Minted
<1>6. RegistriesSound'
  BY <1>0, <1>1, <1>3, RegistriesUntouched DEF Inv, registryVars, requestVars
<1>7. TasksAdvance => ClientsSound'
  BY <1>1, <1>3, ClientsUntouched DEF requestVars, Names
<1>8. CASE UNCHANGED mapVars /\ (resolved[w] = NoTask \/ ~Runnable(resolved[w]))
  <2>1. SameReads /\ UNCHANGED home
    BY <1>1, <1>8, SameMapsReads DEF SameReads
  <2>2. \A e \in Entries : Runnable(e) => e \in Entries'
    BY <1>2, <1>8 DEF Entries
  <2>3. Filed' /\ EntriesSound' /\ Owned'
    BY <1>2, <1>3, <2>1, <2>2, SameTasksKeep
  <2>4. ASSUME NEW s \in Streamer PROVE StreamSound(s)'
    BY <1>2, <1>4, <1>5, <2>1, StreamUntouched DEF SameReads
  <2>5. TasksAdvance
    BY <1>0, <2>1, SameTasksAdvance
  <2> QED  BY <1>1, <1>2, <1>6, <1>7, <2>3, <2>4, <2>5 DEF Inv, TasksSound, StreamsSound
<1>9. ASSUME resolved[w] \in Task, Runnable(resolved[w]), isActive(resolved[w].id),
             NEW result \in Task,
             result.id = resolved[w].id,
             result.state \in {"COMPLETED", "FAILED", "INPUT_REQUIRED"},
             result.messages = resolved[w].messages,
             IF isTerminal(result.state) THEN storeDeadLetter(result) ELSE setActive(result)
      PROVE  Inv' /\ TasksAdvance
  <2>0. PICK e \in Entries : e = resolved[w] /\ e.id \in TaskId
    BY <1>0, <1>9, EntryPlaces, NoTaskAssumption DEF Task
  <2>1. PICK id \in TaskId : id = e.id
    BY <2>0
  <2>2. /\ getTask(id) = e /\ isActive(id) /\ Known(id) /\ Minted(id)
        /\ e.state \in {"PENDING", "IN_PROGRESS"}
    BY <1>9, <2>0, <2>1 DEF Inv, TasksSound, EntriesSound, Runnable
  <2>3. result.id = id /\ result.messages = e.messages
    BY <1>9, <2>0, <2>1
  <2>4. Stores(result, ~isTerminal(result.state))
    BY <1>0, <1>9, StoringStores
  <2>5. \A s \in Streamer : ~Runs(s, id)
    BY <2>2 DEF Inv, TasksSound, StreamsSound, StreamSound, HoldsTask
  <2>6. /\ result.state \in {"INPUT_REQUIRED"} \cup TERMINAL_STATES
        /\ result.state \in TASK_STATE /\ result.state # "PENDING"
    BY <1>9 DEF TERMINAL_STATES, TASK_STATE
  <2>7. \A f \in Entries' : f.id = id => f.state # "IN_PROGRESS"
    <3> SUFFICES ASSUME NEW f \in Entries', f.id = id, f.state = "IN_PROGRESS" PROVE FALSE
      OBVIOUS
    <3>1. f \in Entries /\ f # e
      BY <1>2, <2>0
    <3>2. StateOf(id) \in {"IN_PROGRESS"} \cup TERMINAL_STATES
      BY <2>2, <3>1 DEF Inv, TasksSound, EntriesSound
    <3>3. StateOf(id) = "IN_PROGRESS"
      BY <2>2, <3>2 DEF StateOf, TERMINAL_STATES
    <3>4. getTask(id) = f
      BY <2>2, <3>1, <3>3 DEF Inv, TasksSound, EntriesSound, Runnable
    <3> QED  BY <2>2, <3>1, <3>4
  <2>8. Filed' /\ EntriesSound' /\ Owned'
    <3>1. /\ UNCHANGED home /\ Minted(result.id)
          /\ Entries' \subseteq Entries
          /\ \A f \in Entries : f.id # result.id => f \in Entries'
          /\ \A f \in Entries' : f.id = result.id => f.state # "IN_PROGRESS"
      BY <1>1, <1>2, <2>0, <2>1, <2>2, <2>3, <2>7
    <3> DEFINE active == ~isTerminal(result.state)
    <3>2. active \in BOOLEAN /\ Stores(result, active) /\ (active \/ isTerminal(result.state))
      BY <2>4 DEF isTerminal
    <3> HIDE DEF active
    <3> QED  BY <1>3, <2>6, <3>1, <3>2, SettlingKeeps
  <2>9. ASSUME NEW s \in Streamer PROVE StreamSound(s)'
    <3>1. ASSUME NEW i \in TaskId, Runs(s, i)
          PROVE  /\ getTask(i)' = getTask(i) /\ (isActive(i)' <=> isActive(i))
                 /\ getTask(i) \notin Entries => getTask(i)' \notin Entries'
      <4>1. i # id
        BY <2>5, <3>1
      <4> QED  BY <1>2, <2>3, <2>4, <4>1 DEF Stores
    <3> QED  BY <1>4, <1>5, <3>1, StreamUntouched
  <2>10. TasksAdvance
    <3>1. result.state \in Reachable[e.state]
      BY <2>2, <2>6, ReachableStates
    <3>2. /\ Known(result.id) /\ result.state \in Reachable[StateOf(result.id)]
          /\ getTask(result.id).messages \subseteq result.messages
      BY <2>2, <2>3, <3>1 DEF StateOf
    <3> DEFINE active == ~isTerminal(result.state)
    <3>3. active \in BOOLEAN /\ Stores(result, active)
      BY <2>4 DEF isTerminal
    <3> HIDE DEF active
    <3> QED  BY <1>0, <1>5, <3>2, <3>3, StoringAdvances
  <2> QED  BY <1>1, <1>2, <1>6, <1>7, <2>8, <2>9, <2>10 DEF Inv, TasksSound, StreamsSound
<1> QED  BY <1>1, <1>8, <1>9

-----------------------------------------------------------------------------
(* The invariant holds                                                     *)

LEMMA InitInv == Init => Inv
<1> SUFFICES ASSUME Init PROVE Inv
  OBVIOUS
<1>1. Typed
  BY InitTyped
<1>2. /\ \A id \in TaskId : ~Known(id)
      /\ Entries = {}
      /\ queue = <<>> /\ waiters = <<>> /\ \A w \in Worker : resolved[w] = NoTask
  BY EmptySeq, LenProperties
     DEF Init, ServerInit, StorageInit, Known, getTask, isActive, Entries
<1>3. QueueSound
  BY <1>2, EmptySeq DEF QueueSound, HandoffDiscipline, EntriesOnce
<1>4. \A s \in Streamer : /\ stream[s].phase = "idle" /\ stream[s].task = NoTask
                          /\ stream[s].shown = NotShown
                          /\ ~Live(s) /\ \A id \in TaskId : ~Names(s, id) /\ ~Runs(s, id)
  BY DEF Init, ServerInit, Live, Names, Runs
<1>5. TasksSound
  BY <1>2, <1>4 DEF TasksSound, Filed, EntriesSound, Owned, StreamsSound, StreamSound
<1>6. RegistriesSound
  <2>1. /\ \A id \in TaskId : controllers[id] = NoStream /\ buses[id] = NoStream
        /\ closedBuses = {}
    BY DEF Init, ServerInit
  <2> QED  BY <1>4, <2>1, RequestAssumption DEF RegistriesSound
<1>7. ClientsSound
  <2>1. /\ \A b \in Subscriber : subscriber[b].phase = "idle" /\ subscriber[b].id = NoId
        /\ \A r \in Sender : sender[r].latest = NoTask
    BY DEF Init, ServerInit
  <2> QED  BY <1>4, <2>1, RequestAssumption
           DEF ClientsSound, SubscribersSound, SendersSound, AnswersStand, Answered
<1> QED  BY <1>1, <1>3, <1>5, <1>6, <1>7 DEF Inv

LEMMA NextInv ==
  ASSUME ExecutorStopsAtPause, Inv, [Next]_vars
  PROVE  Inv' /\ TasksAdvance
<1>1. Typed'
  BY NextTyped DEF Inv
<1>2. ASSUME NEW r \in Sender, SenderStep(r) PROVE Inv' /\ TasksAdvance
  BY <1>1, <1>2, SendMessageKeeps, SenderQuietKeeps DEF SenderStep
<1>3. ASSUME NEW s \in Streamer, StreamStep(s) PROVE Inv' /\ TasksAdvance
  <2>1. CASE StreamQuiet(s)
    BY <2>1, StreamQuietKeeps
  <2>2. CASE StartStream(s)
    BY <2>2, StartStreamKeeps
  <2>3. ASSUME NEW state \in TASK_STATE, StreamStatus(s, state) PROVE Inv' /\ TasksAdvance
    BY <2>3, StreamStatusKeeps
  <2>4. CASE StreamPauses(s)
    BY <2>4, StreamPausesKeeps
  <2>5. CASE StreamArtifact(s)
    BY <2>5, StreamArtifactKeeps
  <2>6. CASE StreamReturns(s) \/ StreamThrows(s)
    <3>1. Live(s) /\ \E threw \in BOOLEAN : EndStream(s, threw)
      BY <2>6 DEF StreamReturns, StreamThrows, Live
    <3> QED  BY <3>1, EndStreamKeeps
  <2> QED  BY <1>3, <2>1, <2>2, <2>3, <2>4, <2>5, <2>6 DEF StreamStep, StreamQuiet
<1>4. CASE UNCHANGED vars
  <2>1. UNCHANGED <<storageVars, home, requestVars, registryVars>>
    BY <1>4 DEF vars, serverVars
  <2>2. SameReads
    BY <2>1, SameMapsReads DEF SameReads, storageVars
  <2>3. QueueSound' /\ TasksSound' /\ RegistriesSound' /\ TasksAdvance
    BY <2>1, <2>2, IdleKeeps DEF requestVars, storageVars
  <2>4. ClientsSound'
    BY <1>1, <2>1, <2>3, ClientsUntouched DEF requestVars, Names, Runs, Live
  <2> QED  BY <1>1, <2>3, <2>4 DEF Inv
<1> QED
  BY <1>1, <1>2, <1>3, <1>4, CancelTaskKeeps, SubscriberStepKeeps, RetentionSweepKeeps,
     WorkerStepKeeps DEF Next, ServerNext

-----------------------------------------------------------------------------
(* What the invariant says of the properties the runs check                *)

(* A runnable entry is the stored task, in one place.                      *)
LEMMA EntryOwners ==
  ASSUME Inv, NEW id \in TaskId, Known(id)
  PROVE  /\ QueueOwners(id) = {i \in DOMAIN queue : queue[i] = getTask(id)}
         /\ HandedOwners(id) = {w \in Worker : resolved[w] = getTask(id)}
         /\ getTask(id) \notin Entries => QueueOwners(id) = {} /\ HandedOwners(id) = {}
         /\ getTask(id) \in Entries =>
              \/ HandedOwners(id) = {} /\ \E i \in DOMAIN queue : QueueOwners(id) = {i}
              \/ QueueOwners(id) = {} /\ \E w \in Worker : HandedOwners(id) = {w}
<1>0. QueueTyped /\ EntriesOnce
  BY DEF Inv, Typed, QueueSound
<1>1. getTask(id).id = id /\ getTask(id) # NoTask
  BY DEF Inv, TasksSound, Filed, Known
<1>2. /\ \A i \in DOMAIN queue : queue[i] \in Entries
      /\ \A w \in Worker : resolved[w] # NoTask => resolved[w] \in Entries
  BY <1>0, EntryPlaces
<1>3. \A e \in Entries : e.id = id /\ Runnable(e) <=> e = getTask(id)
  BY <1>1 DEF Inv, TasksSound, EntriesSound, Runnable, StateOf
<1>4. /\ QueueOwners(id) = {i \in DOMAIN queue : queue[i] = getTask(id)}
      /\ HandedOwners(id) = {w \in Worker : resolved[w] = getTask(id)}
  BY <1>1, <1>2, <1>3 DEF QueueOwners, HandedOwners
<1>5. /\ \A i, j \in DOMAIN queue : queue[i] = queue[j] => i = j
      /\ \A v, w \in Worker : resolved[v] = resolved[w] /\ resolved[w] # NoTask => v = w
      /\ \A i \in DOMAIN queue, w \in Worker : resolved[w] # NoTask => queue[i] # resolved[w]
  BY <1>0 DEF EntriesOnce, SameEntry
<1>6. \/ getTask(id) \notin Entries
      \/ \E i \in DOMAIN queue : getTask(id) = queue[i]
      \/ \E w \in Worker : getTask(id) = resolved[w]
  BY <1>0, EntryPlaces
<1>7. CASE getTask(id) \notin Entries
  BY <1>1, <1>2, <1>4, <1>7
<1>8. ASSUME NEW i \in DOMAIN queue, getTask(id) = queue[i]
      PROVE  QueueOwners(id) = {i} /\ HandedOwners(id) = {}
  BY <1>1, <1>4, <1>5, <1>8
<1>9. ASSUME NEW w \in Worker, getTask(id) = resolved[w]
      PROVE  QueueOwners(id) = {} /\ HandedOwners(id) = {w}
  BY <1>1, <1>4, <1>5, <1>9
<1> QED  BY <1>4, <1>6, <1>7, <1>8, <1>9

LEMMA InvOwner == Inv => ExactlyOneOwner
<1> SUFFICES ASSUME Inv, NEW id \in TaskId
             PROVE  IF Unsettled(id)
                    THEN Cardinality(QueueOwners(id)) + Cardinality(HandedOwners(id))
                           + Cardinality(StreamOwners(id)) = 1
                    ELSE \A s \in StreamOwners(id) : stream[s].aborted
  BY DEF ExactlyOneOwner
<1>1. \A s \in StreamOwners(id) :
        /\ Runs(s, id) /\ HoldsTask(s, id) /\ stream[s].task.state = "IN_PROGRESS"
        /\ stream[s].task # NoTask
  BY LiveStreams DEF StreamOwners, Runs, Inv, TasksSound, StreamsSound, StreamSound
<1>2. CASE ~Unsettled(id)
  BY <1>1, <1>2 DEF HoldsTask, Unsettled, Known, StateOf
<1>3. CASE Unsettled(id)
  <2>0. /\ Known(id) /\ StateOf(id) \in {"PENDING", "IN_PROGRESS"} /\ isActive(id)
    BY <1>3 DEF Unsettled, Inv, TasksSound, Filed, isTerminal, TERMINAL_STATES
  <2>1. CASE getTask(id) \in Entries
    <3>1. StreamOwners(id) = {}
      BY <1>1, <2>1 DEF HoldsTask
    <3>2. \/ HandedOwners(id) = {} /\ \E i \in DOMAIN queue : QueueOwners(id) = {i}
          \/ QueueOwners(id) = {} /\ \E w \in Worker : HandedOwners(id) = {w}
      BY <2>0, <2>1, EntryOwners
    <3>3. \/ Cardinality(HandedOwners(id)) = 0 /\ Cardinality(QueueOwners(id)) = 1
          \/ Cardinality(QueueOwners(id)) = 0 /\ Cardinality(HandedOwners(id)) = 1
      BY <3>2, FS_EmptySet, FS_Singleton
    <3>4. Cardinality(StreamOwners(id)) = 0
      BY <3>1, FS_EmptySet
    <3> QED  BY <1>3, <3>3, <3>4
  <2>2. CASE getTask(id) \notin Entries
    <3>1. PICK s \in Streamer : Runs(s, id)
      BY <2>0, <2>2 DEF Inv, TasksSound, Owned
    <3>2. s \in StreamOwners(id)
      <4>1. HoldsTask(s, id)
        BY <3>1 DEF Inv, TasksSound, StreamsSound, StreamSound
      <4>2. stream[s].task.state = "IN_PROGRESS"
        BY <2>0, <4>1 DEF HoldsTask, StateOf, TERMINAL_STATES
      <4> QED  BY <3>1, <4>2 DEF StreamOwners, Runs
    <3>3. StreamOwners(id) = {s}
      <4>1. \A o \in StreamOwners(id) : o \in Streamer /\ Runs(o, id)
        BY <1>1 DEF StreamOwners
      <4> QED  BY <3>1, <3>2, <4>1, LiveStreams
    <3>4. QueueOwners(id) = {} /\ HandedOwners(id) = {}
      BY <2>0, <2>2, EntryOwners
    <3>5. /\ Cardinality(QueueOwners(id)) = 0 /\ Cardinality(HandedOwners(id)) = 0
          /\ Cardinality(StreamOwners(id)) = 1
      BY <3>3, <3>4, FS_EmptySet, FS_Singleton
    <3> QED  BY <1>3, <3>5
  <2> QED  BY <2>1, <2>2
<1> QED  BY <1>2, <1>3

LEMMA InvCancellation == Inv => CancellationReaches
<1> SUFFICES ASSUME Inv PROVE CancellationReaches
  OBVIOUS
<1>1. ASSUME NEW id \in TaskId, NEW s \in StreamOwners(id)
      PROVE  stream[s].aborted \/ controllers[id] = s
  <2>1. s \in Streamer /\ Runs(s, id)
    BY <1>1 DEF StreamOwners, Runs
  <2> QED  BY <2>1 DEF Inv, TasksSound, StreamsSound, StreamSound, HoldsTask
<1>2. ASSUME NEW id \in TaskId, controllers[id] # NoStream
      PROVE  Live(controllers[id]) /\ stream[controllers[id]].task.id = id
  BY <1>2 DEF Inv, Typed, RegistriesTyped, RegistriesSound, Runs
<1> QED  BY <1>1, <1>2 DEF CancellationReaches

LEMMA InvAnswers == Inv => TerminalAnswersStand
<1> SUFFICES ASSUME Inv PROVE TerminalAnswersStand
  OBVIOUS
<1>0. Typed
  BY DEF Inv
<1>1. ASSUME NEW s \in Streamer, stream[s].task # NoTask
      PROVE  Stands(stream[s].task.id, stream[s].shown)
  <2>1. PICK id \in TaskId : stream[s].task.id = id
    BY <1>0, <1>1 DEF Typed, StreamsTyped, StreamState, Task
  <2>2. Names(s, id)
    BY <1>1, <2>1 DEF Names
  <2> QED  BY <2>1, <2>2 DEF Inv, ClientsSound, AnswersStand
<1>2. ASSUME NEW b \in Subscriber, subscriber[b].id # NoId
      PROVE  Stands(subscriber[b].id, subscriber[b].seen)
  <2>1. PICK id \in TaskId : subscriber[b].id = id
    BY <1>0, <1>2 DEF Typed, SubscribersTyped, SubscriberState
  <2> QED  BY <2>1 DEF Inv, ClientsSound, AnswersStand
<1>3. ASSUME NEW r \in Sender, sender[r].latest # NoTask
      PROVE  Stands(sender[r].latest.id, sender[r].latest.state)
  <2>1. PICK id \in TaskId : sender[r].latest.id = id
    BY <1>0, <1>3 DEF Typed, SendersTyped, SenderState, Task
  <2>2. Answered(r, id)
    BY <1>3, <2>1 DEF Answered
  <2> QED  BY <2>1, <2>2 DEF Inv, ClientsSound, AnswersStand
<1> QED  BY <1>1, <1>2, <1>3 DEF TerminalAnswersStand, Stands

(* One step keeps a known task on its lifecycle, and its messages.         *)
LEMMA InvSteps ==
  ASSUME Inv, TasksAdvance, NEW id \in TaskId, Known(id), Known(id)'
  PROVE  /\ StateOf(id)' \in Reachable[StateOf(id)]
         /\ getTask(id).messages \subseteq getTask(id)'.messages
BY DEF Inv, TasksSound, Filed, TasksAdvance

-----------------------------------------------------------------------------
(* The theorems.  They need an executor that returns at a pause: one that  *)
(* goes on writes its old snapshot over the task another request has       *)
(* resumed.                                                                *)

LEMMA Invariance ==
  ASSUME ExecutorStopsAtPause
  PROVE  Spec => []Inv
<1>1. Inv /\ [Next]_vars => Inv'
  BY NextInv
<1> QED  BY <1>1, InitInv, PTL DEF Spec

(* However requests, streams, cancels and workers interleave, a pending or *)
(* running task is in exactly one pair of hands: a queue entry, a worker,  *)
(* or a stream (runWorker's guard, startTask, CancelTask, handleStreaming).*)
THEOREM OwnerCorrect ==
  ASSUME ExecutorStopsAtPause
  PROVE  Spec => []ExactlyOneOwner
BY Invariance, InvOwner, PTL

(* The cancellation registry always holds the controller of the stream     *)
(* that works on the task, so CancelTask and tasks/cancel reach it.        *)
THEOREM CancellationCorrect ==
  ASSUME ExecutorStopsAtPause
  PROVE  Spec => []CancellationReaches
BY Invariance, InvCancellation, PTL

(* A terminal state that any client was told is never taken back.          *)
THEOREM AnswersCorrect ==
  ASSUME ExecutorStopsAtPause
  PROVE  Spec => []TerminalAnswersStand
BY Invariance, InvAnswers, PTL

(* No interleaving of stored snapshots moves a task against its lifecycle. *)
THEOREM LifecycleCorrect ==
  ASSUME ExecutorStopsAtPause
  PROVE  Spec => LifecycleRespected
<1>1. Inv /\ [Next]_vars =>
        [\A id \in TaskId :
           Known(id) /\ Known(id)' => StateOf(id)' \in Reachable[StateOf(id)]]_vars
  BY NextInv, InvSteps
<1> QED  BY <1>1, Invariance, PTL DEF Spec, LifecycleRespected

(* No interleaving of stored snapshots loses a message that was accepted   *)
(* for a task.                                                             *)
THEOREM MessagesCorrect ==
  ASSUME ExecutorStopsAtPause
  PROVE  Spec => AcceptedMessagesKept
<1>1. Inv /\ [Next]_vars =>
        [\A id \in TaskId :
           Known(id) /\ Known(id)' => getTask(id).messages \subseteq getTask(id)'.messages]_vars
  BY NextInv, InvSteps
<1> QED  BY <1>1, Invariance, PTL DEF Spec, AcceptedMessagesKept

-----------------------------------------------------------------------------
(* Whatever the executors do: what follows does not rest on the invariant  *)
(* above, nor on executors that return at a pause.                         *)

(* A stored task stands under its own id, and is terminal once it is not   *)
(* active; only work is queued.                                            *)
Shelved ==
  /\ \A id \in TaskId :
       Known(id) => getTask(id).id = id /\ (isActive(id) \/ isTerminal(StateOf(id)))
  /\ \A e \in Entries : e.state \in {"PENDING", "IN_PROGRESS"}

Follows(s, id, bus) == Live(s) /\ stream[s].task.id = id /\ stream[s].bus = bus

(* A registered bus is open and a live stream on the task publishes on it. *)
(* Streams that share a bus work on one task, and a bus is named by a      *)
(* stream that has started, so that the name of a new one is free.         *)
BusesSound ==
  /\ \A id \in TaskId, bus \in Bus :
       buses[id] = bus => bus \notin closedBuses /\ \E s \in Streamer : Follows(s, id, bus)
  /\ \A s \in Streamer : Live(s) => stream[stream[s].bus].phase # "idle"
  /\ \A bus \in closedBuses : stream[bus].phase # "idle"
  /\ \A s, o \in Streamer :
       Live(s) /\ Live(o) /\ stream[s].bus = stream[o].bus => stream[s].task.id = stream[o].task.id

Wired == Typed /\ Shelved /\ BusesSound /\ SubscribersFed

LEMMA QueueSubset ==
  ASSUME QueueTyped
  PROVE  /\ \A task \in Task : offer(task) => Entries' \subseteq Entries \cup {task}
         /\ \A w \in Worker : dequeue(w) => Entries' \subseteq Entries
         /\ \A id \in TaskId : removeFromQueue(id) => Entries' \subseteq Entries
         /\ UNCHANGED queueVars => Entries' = Entries
<1>0. /\ DOMAIN queue = 1..Len(queue) /\ Len(queue) \in Nat
      /\ resolved \in [Worker -> Task \cup {NoTask}]
  BY LenProperties DEF QueueTyped
<1>1. ASSUME NEW task \in Task, offer(task)
      PROVE  Entries' \subseteq Entries \cup {task}
  <2>1. CASE /\ waiters # <<>>
             /\ resolved' = [resolved EXCEPT ![Head(waiters)] = task]
             /\ UNCHANGED queue
    BY <1>0, <2>1 DEF Entries
  <2>2. CASE queue' = Append(queue, task) /\ UNCHANGED resolved
    <3>1. /\ DOMAIN queue' = 1..(Len(queue) + 1)
          /\ \A i \in 1..(Len(queue) + 1) :
               queue'[i] = IF i <= Len(queue) THEN queue[i] ELSE task
      BY <2>2, AppendProperties, LenProperties DEF QueueTyped
    <3>2. \A i \in DOMAIN queue' : queue'[i] = task \/ \E j \in DOMAIN queue : queue'[i] = queue[j]
      BY <1>0, <3>1
    <3> QED  BY <2>2, <3>2 DEF Entries
  <2> QED  BY <1>1, <2>1, <2>2 DEF offer
<1>2. ASSUME NEW w \in Worker, dequeue(w)
      PROVE  Entries' \subseteq Entries
  <2>1. CASE queue # <<>> /\ resolved' = [resolved EXCEPT ![w] = Head(queue)] /\ queue' = Tail(queue)
    <3>1. /\ Head(queue) = queue[1] /\ 1 \in DOMAIN queue
          /\ DOMAIN queue' = 1..(Len(queue) - 1)
          /\ \A i \in 1..(Len(queue) - 1) : queue'[i] = queue[i + 1]
      BY <1>0, <2>1, HeadTailProperties, LenProperties, EmptySeq DEF QueueTyped
    <3>2. \A i \in DOMAIN queue' : \E j \in DOMAIN queue : queue'[i] = queue[j]
      BY <1>0, <3>1
    <3>3. \A v \in Worker : resolved'[v] = resolved[v] \/ resolved'[v] = queue[1]
      BY <1>0, <2>1, <3>1
    <3> QED  BY <3>1, <3>2, <3>3 DEF Entries
  <2>2. CASE resolved' = [resolved EXCEPT ![w] = NoTask] /\ UNCHANGED queue
    BY <1>0, <2>2 DEF Entries
  <2> QED  BY <1>2, <2>1, <2>2 DEF dequeue
<1>3. ASSUME NEW id \in TaskId, removeFromQueue(id)
      PROVE  Entries' \subseteq Entries
  <2>1. ASSUME NEW i \in DOMAIN queue, queue' = RemoveAt(queue, i), UNCHANGED resolved
        PROVE  Entries' \subseteq Entries
    <3>1. /\ DOMAIN queue' = 1..(Len(queue) - 1)
          /\ \A j \in 1..(Len(queue) - 1) :
               queue'[j] = IF j < i THEN queue[j] ELSE queue[j + 1]
      BY <1>0, <2>1, RemoveAtProperties, LenProperties DEF QueueTyped
    <3>2. \A j \in DOMAIN queue' : \E k \in DOMAIN queue : queue'[j] = queue[k]
      BY <1>0, <3>1
    <3> QED  BY <2>1, <3>2 DEF Entries
  <2> QED  BY <1>3, <2>1 DEF removeFromQueue, queueVars, Entries
<1> QED  BY <1>1, <1>2, <1>3 DEF queueVars, Entries

LEMMA ShelvedKept ==
  ASSUME Shelved,
         \A e \in Entries' \ Entries : e.state \in {"PENDING", "IN_PROGRESS"},
         \/ SameReads
         \/ \A id \in TaskId :
              getTask(id)' \in {getTask(id), NoTask} /\ (isActive(id)' <=> isActive(id))
         \/ \E task \in Task, active \in BOOLEAN :
              Stores(task, active) /\ (active \/ isTerminal(task.state))
  PROVE  Shelved'
<1>1. ASSUME NEW id \in TaskId, Known(id)'
      PROVE  getTask(id)'.id = id /\ (isActive(id)' \/ isTerminal(StateOf(id)'))
  <2>1. CASE getTask(id)' = getTask(id) /\ (isActive(id)' <=> isActive(id))
    BY <1>1, <2>1 DEF Shelved, Known, StateOf
  <2>2. CASE \E task \in Task, active \in BOOLEAN :
               Stores(task, active) /\ (active \/ isTerminal(task.state))
    <3>1. PICK task \in Task, active \in BOOLEAN :
            Stores(task, active) /\ (active \/ isTerminal(task.state))
      BY <2>2
    <3>2. CASE id = task.id
      BY <3>1, <3>2 DEF Stores, StateOf
    <3>3. CASE id # task.id
      BY <2>1, <3>1, <3>3 DEF Stores
    <3> QED  BY <3>2, <3>3
  <2> QED  BY <1>1, <2>1, <2>2 DEF SameReads, Known
<1> QED  BY <1>1 DEF Shelved

(* No stream starts or ends, and nobody attaches.                          *)
LEMMA BusesKept ==
  ASSUME Typed, BusesSound, SubscribersFed, UNCHANGED <<buses, closedBuses>>,
         \A s \in Streamer :
           /\ stream'[s].phase = "idle" => stream[s].phase = "idle"
           /\ Live(s)' <=> Live(s)
           /\ Live(s) => stream'[s].bus = stream[s].bus /\ stream'[s].task.id = stream[s].task.id,
         \A b \in Subscriber :
           subscriber'[b].phase = "attached" =>
             /\ subscriber[b].phase = "attached"
             /\ subscriber'[b].bus = subscriber[b].bus /\ subscriber'[b].id = subscriber[b].id
  PROVE  BusesSound' /\ SubscribersFed'
<1>1. \A s \in Streamer, id \in TaskId, bus \in Bus : Follows(s, id, bus) => Follows(s, id, bus)'
  BY DEF Follows
<1>2. closedBuses \subseteq Streamer /\ \A s \in Streamer : Live(s) => stream[s].bus \in Streamer
  BY DEF Typed, RegistriesTyped, LocalsBound, Bus
<1>3. BusesSound'
  BY <1>1, <1>2 DEF BusesSound, Bus
<1>4. SubscribersFed'
  BY DEF SubscribersFed
<1> QED  BY <1>3, <1>4

(* A stream opens a bus under its own name or joins the one of its task.   *)
LEMMA StartWired ==
  ASSUME Wired, NEW s \in Streamer, StartStream(s)
  PROVE  Wired'
<1>0. Typed /\ stream[s].phase = "idle" /\ ~Live(s)
  BY DEF Wired, StartStream, Live
<1>a. PICK task \in Task, working \in Task :
           /\ StartsNew(task) \/ Resumes(task)
           /\ working.id = task.id /\ working.state = "IN_PROGRESS"
           /\ setActive(working)
           /\ \/ task.state = "PENDING" /\ offer(task)
              \/ task.state = "IN_PROGRESS" /\ isActive(task.id) /\ UNCHANGED queueVars
           /\ \A id \in TaskId :
                buses'[id] = IF id = task.id /\ buses[id] = NoStream THEN s ELSE buses[id]
           /\ UNCHANGED <<sender, closedBuses>>
           /\ \A o \in Streamer \ {s} : stream'[o] = stream[o]
           /\ stream'[s].phase = "running" /\ stream'[s].task = working
           /\ stream'[s].bus = buses'[task.id]
           /\ \A b \in Subscriber :
                /\ subscriber'[b].phase = subscriber[b].phase
                /\ subscriber'[b].id = subscriber[b].id
                /\ subscriber'[b].bus = subscriber[b].bus
           /\ Typed'
  BY <1>0, StartStreamEffect
<1>1. PICK id \in TaskId : id = task.id
  BY DEF Task
<1>2. Shelved'
  <2>1. Stores(working, TRUE)
    BY <1>0, <1>a, StoringStores
  <2>2. \A e \in Entries' \ Entries : e.state \in {"PENDING", "IN_PROGRESS"}
    BY <1>0, <1>a, QueueSubset DEF Typed
  <2> QED  BY <2>1, <2>2, ShelvedKept DEF Wired
<1>3. /\ stream'[s].phase # "idle" /\ Live(s)'
      /\ stream'[s].task.id = id /\ buses'[id] = stream'[s].bus
      /\ \A o \in Streamer \ {s} : /\ stream'[o] = stream[o]
                                   /\ Live(o)' <=> Live(o)
      /\ \A i \in TaskId : i # id => buses'[i] = buses[i]
      /\ \/ buses[id] = NoStream /\ stream'[s].bus = s
         \/ buses[id] = stream'[s].bus /\ stream'[s].bus \in Bus
      /\ closedBuses' = closedBuses
  <2>1. buses[id] \in Bus \cup {NoStream}
    BY <1>0 DEF Typed, RegistriesTyped
  <2>2. Live(s)' /\ \A o \in Streamer \ {s} : Live(o)' <=> Live(o)
    BY <1>a DEF Live
  <2> QED  BY <1>1, <1>a, <2>1, <2>2
<1>4. \A o \in Streamer : Live(o) => o # s /\ stream[o].bus # s /\ stream[o].bus \in Bus
  BY <1>0 DEF Wired, BusesSound, Typed, LocalsBound
<1>5. \A o \in Streamer, i \in TaskId, bus \in Bus : Follows(o, i, bus) => Follows(o, i, bus)'
  BY <1>3, <1>4 DEF Follows
<1>6. /\ stream'[s].bus \in Bus /\ stream'[s].bus \notin closedBuses
      /\ \A o \in Streamer : Live(o) /\ stream[o].bus = stream'[s].bus => stream[o].task.id = id
  <2>1. CASE buses[id] = NoStream /\ stream'[s].bus = s
    BY <1>0, <1>4, <2>1 DEF Wired, BusesSound, Bus
  <2>2. CASE buses[id] = stream'[s].bus /\ stream'[s].bus \in Bus
    <3>1. /\ stream'[s].bus \notin closedBuses
          /\ \E o \in Streamer : Follows(o, id, stream'[s].bus)
      BY <2>2 DEF Wired, BusesSound
    <3> QED  BY <2>2, <3>1 DEF Wired, BusesSound, Follows
  <2> QED  BY <1>3, <2>1, <2>2
<1>7. BusesSound'
  <2>1. ASSUME NEW i \in TaskId, NEW bus \in Bus, buses'[i] = bus
        PROVE  bus \notin closedBuses' /\ \E o \in Streamer : Follows(o, i, bus)'
    <3>1. CASE i = id
      <4>1. Follows(s, i, bus)'
        BY <1>3, <2>1, <3>1 DEF Follows
      <4> QED  BY <1>3, <1>6, <2>1, <3>1, <4>1
    <3>2. CASE i # id
      BY <1>3, <1>5, <2>1, <3>2 DEF Wired, BusesSound
    <3> QED  BY <3>1, <3>2
  <2>2. \A o \in Streamer : stream[o].phase # "idle" => stream'[o].phase # "idle"
    BY <1>3
  <2>3. ASSUME NEW o \in Streamer, Live(o)' PROVE stream'[stream'[o].bus].phase # "idle"
    <3>1. CASE o = s
      <4>1. CASE stream'[s].bus = s
        BY <1>3, <3>1, <4>1
      <4>2. CASE buses[id] = stream'[s].bus
        <5>1. \E q \in Streamer : Follows(q, id, stream'[s].bus)
          BY <1>6, <4>2 DEF Wired, BusesSound
        <5> QED  BY <1>6, <2>2, <3>1, <5>1 DEF Wired, BusesSound, Follows, Bus
      <4> QED  BY <1>3, <4>1, <4>2
    <3>2. CASE o # s
      BY <1>3, <1>4, <2>2, <2>3, <3>2 DEF Wired, BusesSound, Bus
    <3> QED  BY <3>1, <3>2
  <2>4. \A bus \in closedBuses' : stream'[bus].phase # "idle"
    BY <1>0, <1>3, <2>2 DEF Wired, BusesSound, Typed, RegistriesTyped, Bus
  <2>5. ASSUME NEW q \in Streamer, NEW o \in Streamer, Live(q)', Live(o)',
               stream'[q].bus = stream'[o].bus
        PROVE  stream'[q].task.id = stream'[o].task.id
    BY <1>3, <1>6, <2>5 DEF Wired, BusesSound
  <2> QED  BY <2>1, <2>3, <2>4, <2>5 DEF BusesSound
<1>8. SubscribersFed'
  <2> SUFFICES ASSUME NEW b \in Subscriber, subscriber'[b].phase = "attached"
               PROVE  /\ subscriber'[b].bus \notin closedBuses'
                      /\ \E o \in Streamer : /\ Live(o)'
                                             /\ stream'[o].bus = subscriber'[b].bus
                                             /\ stream'[o].task.id = subscriber'[b].id
    BY DEF SubscribersFed
  <2> QED  BY <1>3, <1>4, <1>a DEF Wired, SubscribersFed
<1> QED  BY <1>2, <1>7, <1>8, <1>a DEF Wired

(* A stream that ends lets go of everybody on its bus, and of nobody else. *)
LEMMA EndsWired ==
  ASSUME Wired, NEW s \in Streamer, Live(s), NEW final \in Task, NEW tells \in BOOLEAN,
         Ends(s, final, tells), Shelved', Typed'
  PROVE  Wired'
<1>0. Typed /\ stream[s].task \in Task /\ stream[s].bus \in Bus
  BY DEF Wired, Typed, LocalsBound
<1>1. PICK id \in TaskId : id = stream[s].task.id
  BY <1>0 DEF Task
<1>2. /\ \A o \in Streamer \ {s} : stream'[o] = stream[o]
      /\ stream'[s].phase = "done"
      /\ \A b \in Subscriber :
           /\ subscriber'[b].phase =
                IF subscriber[b].phase = "attached" /\ subscriber[b].bus = stream[s].bus
                THEN "closed" ELSE subscriber[b].phase
           /\ subscriber'[b].id = subscriber[b].id
           /\ subscriber'[b].bus = subscriber[b].bus
      /\ \A i \in TaskId : buses'[i] = IF i = id THEN NoStream ELSE buses[i]
      /\ closedBuses' = closedBuses \cup {stream[s].bus}
  BY <1>0, <1>1, EndsEffect DEF Typed
<1>3. \A o \in Streamer : /\ Live(o)' <=> Live(o) /\ o # s
                          /\ stream[o].phase # "idle" => stream'[o].phase # "idle"
  BY <1>2 DEF Live
<1>4. \A o \in Streamer, i \in TaskId, bus \in Bus :
        Follows(o, i, bus) /\ o # s => Follows(o, i, bus)'
  BY <1>2, <1>3 DEF Follows
<1>5. \A o \in Streamer : Live(o) => stream[o].bus \in Streamer
  BY <1>0 DEF Typed, LocalsBound, Bus
<1>6. BusesSound'
  <2>1. ASSUME NEW i \in TaskId, NEW bus \in Bus, buses'[i] = bus
        PROVE  bus \notin closedBuses' /\ \E o \in Streamer : Follows(o, i, bus)'
    <3>1. i # id /\ buses[i] = bus
      BY <1>2, <2>1, RequestAssumption DEF Bus
    <3>2. PICK o \in Streamer : Follows(o, i, bus) /\ bus \notin closedBuses
      BY <3>1 DEF Wired, BusesSound
    <3>3. o # s /\ bus # stream[s].bus
      BY <1>1, <3>1, <3>2 DEF Wired, BusesSound, Follows
    <3> QED  BY <1>2, <1>4, <3>2, <3>3
  <2>2. \A o \in Streamer : Live(o)' => stream'[stream'[o].bus].phase # "idle"
    BY <1>2, <1>3, <1>5 DEF Wired, BusesSound
  <2>3. \A bus \in closedBuses' : stream'[bus].phase # "idle"
    <3>1. closedBuses \subseteq Streamer /\ stream[s].bus \in Streamer
      BY <1>0 DEF Typed, RegistriesTyped, Bus
    <3>2. stream[stream[s].bus].phase # "idle"
      BY DEF Wired, BusesSound
    <3> QED  BY <1>2, <1>3, <3>1, <3>2 DEF Wired, BusesSound
  <2>4. \A q, o \in Streamer :
          Live(q)' /\ Live(o)' /\ stream'[q].bus = stream'[o].bus =>
            stream'[q].task.id = stream'[o].task.id
    BY <1>2, <1>3 DEF Wired, BusesSound
  <2> QED  BY <2>1, <2>2, <2>3, <2>4 DEF BusesSound
<1>7. SubscribersFed'
  <2> SUFFICES ASSUME NEW b \in Subscriber, subscriber'[b].phase = "attached"
               PROVE  /\ subscriber'[b].bus \notin closedBuses'
                      /\ \E o \in Streamer : /\ Live(o)'
                                             /\ stream'[o].bus = subscriber'[b].bus
                                             /\ stream'[o].task.id = subscriber'[b].id
    BY DEF SubscribersFed
  <2>1. subscriber[b].phase = "attached" /\ subscriber[b].bus # stream[s].bus
    BY <1>2
  <2>2. PICK o \in Streamer : /\ Live(o)
                              /\ stream[o].bus = subscriber[b].bus
                              /\ stream[o].task.id = subscriber[b].id
    BY <2>1 DEF Wired, SubscribersFed
  <2>3. subscriber[b].bus \notin closedBuses
    BY <2>1 DEF Wired, SubscribersFed
  <2>4. o # s
    BY <2>1, <2>2
  <2> QED  BY <1>2, <1>3, <2>1, <2>2, <2>3, <2>4
<1> QED  BY <1>6, <1>7 DEF Wired

LEMMA RequestsWired ==
  ASSUME Wired, Typed',
         (\E r \in Sender : SenderStep(r)) \/ (\E b \in Subscriber : SubscriberStep(b))
  PROVE  Wired'
<1>0. Typed /\ QueueTyped
  BY DEF Wired, Typed
<1>1. ASSUME NEW r \in Sender, SendMessage(r)
      PROVE  Wired'
  <2>0. r \in Request
    BY RequestAssumption
  <2>1. PICK ref \in MessageRef : \E task \in startTask(ref, r) : enqueue(task)
    BY <1>1 DEF SendMessage
  <2>2. PICK task \in startTask(ref, r) : enqueue(task)
    BY <2>1
  <2>3. task \in Task /\ task.state \in {"PENDING", "IN_PROGRESS"}
    BY <1>0, <2>0, StartedTasks DEF Typed, StartsNew, Resumes
  <2>4. Stores(task, TRUE) /\ Entries' \subseteq Entries \cup {task}
    BY <1>0, <2>2, <2>3, StoringStores, QueueSubset DEF enqueue
  <2>5. Shelved'
    BY <2>3, <2>4, ShelvedKept DEF Wired
  <2>6. UNCHANGED <<stream, subscriber, buses, closedBuses>>
    BY <1>1 DEF SendMessage, registryVars
  <2>7. BusesSound' /\ SubscribersFed'
    BY <1>0, <2>6, BusesKept DEF Wired, Live
  <2> QED  BY <2>5, <2>7 DEF Wired
<1>2. ASSUME UNCHANGED <<storageVars, stream, registryVars>>
      PROVE  Shelved' /\ BusesSound'
  <2>1. SameReads /\ Entries' = Entries
    BY <1>0, <1>2, SameMapsReads, SameQueueEntries DEF SameReads, storageVars
  <2>2. Shelved'
    BY <2>1, ShelvedKept DEF Wired
  <2>3. BusesSound'
    BY <1>2 DEF Wired, BusesSound, Follows, Live, registryVars
  <2> QED  BY <2>2, <2>3
<1>3. ASSUME NEW r \in Sender, RejectSend(r) \/ Poll(r) \/ SenderDisconnects(r)
      PROVE  Wired'
  <2>1. UNCHANGED <<storageVars, stream, subscriber, registryVars>>
    BY <1>3 DEF RejectSend, Poll, SenderDisconnects
  <2>2. SubscribersFed'
    BY <2>1 DEF Wired, SubscribersFed, Live, registryVars
  <2> QED  BY <1>2, <2>1, <2>2 DEF Wired
<1>4. ASSUME NEW b \in Subscriber, SubscriberStep(b)
      PROVE  Wired'
  <2>0. UNCHANGED <<storageVars, stream, registryVars>>
    BY <1>4 DEF SubscriberStep, RejectSubscription, Subscribe, PollSubscription,
                SubscriberDisconnects
  <2>1. subscriber \in [Subscriber -> SubscriberState]
    BY <1>0 DEF Typed, SubscribersTyped
  <2>2. \A o \in Subscriber \ {b} : subscriber'[o] = subscriber[o]
    BY <1>4, <2>1 DEF SubscriberStep, RejectSubscription, Subscribe, PollSubscription,
                      SubscriberDisconnects
  <2>3. subscriber'[b].phase = "attached" =>
          \E id \in TaskId : /\ buses[id] \in Bus /\ buses[id] \notin closedBuses
                             /\ subscriber'[b].bus = buses[id] /\ subscriber'[b].id = id
    <3>1. CASE RejectSubscription(b) \/ SubscriberDisconnects(b) \/ PollSubscription(b)
      BY <2>1, <3>1 DEF RejectSubscription, SubscriberDisconnects, PollSubscription, SubscriberState
    <3>2. ASSUME NEW id \in TaskId, Subscribe(b, id), subscriber'[b].phase = "attached"
          PROVE  /\ buses[id] \in Bus /\ buses[id] \notin closedBuses
                 /\ subscriber'[b].bus = buses[id] /\ subscriber'[b].id = id
      BY <1>0, <2>1, <3>2 DEF Subscribe, Typed, RegistriesTyped
    <3> QED  BY <1>4, <3>1, <3>2 DEF SubscriberStep
  <2>4. SubscribersFed'
    <3> SUFFICES ASSUME NEW o \in Subscriber, subscriber'[o].phase = "attached"
                 PROVE  /\ subscriber'[o].bus \notin closedBuses
                        /\ \E s \in Streamer : /\ Live(s)
                                               /\ stream[s].bus = subscriber'[o].bus
                                               /\ stream[s].task.id = subscriber'[o].id
      BY <2>0 DEF SubscribersFed, Live, registryVars
    <3>1. CASE o = b
      BY <2>3, <3>1 DEF Wired, BusesSound, Follows
    <3>2. CASE o # b
      BY <2>2, <3>2 DEF Wired, SubscribersFed
    <3> QED  BY <3>1, <3>2
  <2> QED  BY <1>2, <2>0, <2>4 DEF Wired
<1> QED  BY <1>1, <1>3, <1>4 DEF SenderStep

LEMMA StreamsWired ==
  ASSUME Wired, Typed', NEW s \in Streamer, StreamStep(s)
  PROVE  Wired'
<1>0. Typed /\ QueueTyped /\ (Live(s) => stream[s].task \in Task)
  BY DEF Wired, Typed, LocalsBound
<1>1. CASE StreamQuiet(s)
  <2>1. /\ UNCHANGED <<storageVars, subscriber, registryVars>>
        /\ \A o \in Streamer \ {s} : stream'[o] = stream[o]
        /\ stream'[s].task = stream[s].task /\ stream'[s].bus = stream[s].bus
        /\ Live(s)' <=> Live(s)
        /\ stream'[s].phase # "idle"
    BY <1>0, <1>1, StreamQuietEffect
  <2>2. SameReads /\ Entries' = Entries
    BY <2>1, SameMapsReads, SameQueueEntries DEF SameReads, storageVars
  <2>3. \A o \in Streamer :
          /\ stream'[o].phase = "idle" => stream[o].phase = "idle"
          /\ Live(o)' <=> Live(o)
          /\ Live(o) => stream'[o].bus = stream[o].bus /\ stream'[o].task.id = stream[o].task.id
    BY <2>1 DEF Live
  <2>4. BusesSound' /\ SubscribersFed'
    BY <1>0, <2>1, <2>3, BusesKept DEF Wired, registryVars
  <2> QED  BY <2>2, <2>4, ShelvedKept DEF Wired
<1>2. ASSUME NEW state \in TASK_STATE, StreamStatus(s, state)
      PROVE  Wired'
  <2>1. PICK next \in Task :
           /\ next.id = stream[s].task.id
           /\ setActive(next)
           /\ \A o \in Streamer \ {s} : stream'[o] = stream[o]
           /\ stream'[s].phase = IF isTerminal(state) THEN "leaving" ELSE "running"
           /\ stream'[s].task = next
           /\ stream'[s].bus = stream[s].bus
           /\ \A b \in Subscriber :
                /\ subscriber'[b].phase = subscriber[b].phase
                /\ subscriber'[b].id = subscriber[b].id
                /\ subscriber'[b].bus = subscriber[b].bus
    BY <1>0, <1>2, StreamStatusEffect
  <2>2. Live(s) /\ UNCHANGED <<queueVars, buses, closedBuses>>
    BY <1>2 DEF StreamStatus, Live, registryVars
  <2>3. Stores(next, TRUE) /\ Entries' = Entries
    BY <1>0, <2>1, <2>2, StoringStores, SameQueueEntries
  <2>4. \A o \in Streamer :
          /\ stream'[o].phase = "idle" => stream[o].phase = "idle"
          /\ Live(o)' <=> Live(o)
          /\ Live(o) => stream'[o].bus = stream[o].bus /\ stream'[o].task.id = stream[o].task.id
    BY <2>1, <2>2 DEF Live
  <2>5. BusesSound' /\ SubscribersFed'
    BY <1>0, <2>1, <2>2, <2>4, BusesKept DEF Wired
  <2> QED  BY <2>3, <2>5, ShelvedKept DEF Wired
<1>3. CASE StreamArtifact(s)
  <2>1. stream[s].task \in Task /\ setActive(stream[s].task)
    BY <1>0, <1>3, StreamArtifactType
  <2>2. UNCHANGED <<queueVars, stream, subscriber, buses, closedBuses>>
    BY <1>3 DEF StreamArtifact, requestVars, registryVars
  <2>3. Stores(stream[s].task, TRUE) /\ Entries' = Entries
    BY <1>0, <2>1, <2>2, StoringStores, SameQueueEntries
  <2>4. BusesSound' /\ SubscribersFed'
    BY <1>0, <2>2, BusesKept DEF Wired, Live
  <2> QED  BY <2>1, <2>3, <2>4, ShelvedKept DEF Wired
<1>4. CASE StreamPauses(s)
  <2>1. PICK next \in Task : setActive(next) /\ \E tells \in BOOLEAN : Ends(s, next, tells)
    BY <1>0, <1>4, StreamPausesEffect
  <2>2. Live(s) /\ UNCHANGED queueVars
    BY <1>4 DEF StreamPauses, Live
  <2>3. Stores(next, TRUE) /\ Entries' = Entries
    BY <1>0, <2>1, <2>2, StoringStores, SameQueueEntries
  <2>4. Shelved'
    BY <2>3, ShelvedKept DEF Wired
  <2> QED  BY <2>1, <2>2, <2>4, EndsWired
<1>5. CASE StreamReturns(s) \/ StreamThrows(s)
  <2>1. Live(s) /\ \E threw \in BOOLEAN : EndStream(s, threw)
    BY <1>5 DEF StreamReturns, StreamThrows, Live
  <2>2. PICK final \in Task, tells \in BOOLEAN :
           /\ Ends(s, final, tells)
           /\ \/ setActive(final)
              \/ isTerminal(final.state) /\ storeDeadLetter(final)
              \/ UNCHANGED mapVars
           /\ UNCHANGED queueVars
    BY <1>0, <2>1, EndStreamEffect
  <2>3. Entries' = Entries
    BY <2>2, SameQueueEntries
  <2>4. \/ Stores(final, TRUE)
        \/ isTerminal(final.state) /\ Stores(final, FALSE)
        \/ SameReads
    BY <1>0, <2>2, StoringStores, SameMapsReads DEF SameReads
  <2>5. Shelved'
    BY <2>3, <2>4, ShelvedKept DEF Wired
  <2> QED  BY <2>1, <2>2, <2>5, EndsWired
<1> QED  BY <1>1, <1>2, <1>3, <1>4, <1>5, StartWired DEF StreamStep, StreamQuiet

LEMMA NextWired == Wired /\ [Next]_vars => Wired'
<1> SUFFICES ASSUME Wired, [Next]_vars PROVE Wired'
  OBVIOUS
<1>0. Typed /\ QueueTyped /\ Typed'
  BY NextTyped DEF Wired, Typed
<1>1. ASSUME NEW id \in TaskId, CancelTask(id)
      PROVE  Wired'
  <2>1. PICK task \in Task :
           /\ task.state = "CANCELLED" /\ storeDeadLetter(task)
           /\ removeFromQueue(id) \/ UNCHANGED queueVars
           /\ \A s \in Streamer :
                /\ stream'[s].phase = stream[s].phase /\ stream'[s].task = stream[s].task
                /\ stream'[s].bus = stream[s].bus
           /\ UNCHANGED <<subscriber, buses, closedBuses>>
    BY <1>0, <1>1, CancelTaskEffect
  <2>2. Stores(task, FALSE) /\ isTerminal(task.state) /\ Entries' \subseteq Entries
    BY <1>0, <2>1, StoringStores, QueueSubset DEF isTerminal, TERMINAL_STATES
  <2>3. BusesSound' /\ SubscribersFed'
    BY <1>0, <2>1, BusesKept DEF Wired, Live
  <2> QED  BY <1>0, <2>2, <2>3, ShelvedKept DEF Wired
<1>2. CASE RetentionSweep
  <2>1. /\ \E ids \in SUBSET TaskId : evict(ids)
        /\ UNCHANGED <<queueVars, stream, subscriber, buses, closedBuses>>
    BY <1>0, <1>2, RetentionSweepEffect DEF requestVars, registryVars
  <2>2. \A id \in TaskId :
          getTask(id)' \in {getTask(id), NoTask} /\ (isActive(id)' <=> isActive(id))
    BY <1>0, <2>1, EvictReads DEF Typed
  <2>3. BusesSound' /\ SubscribersFed'
    BY <1>0, <2>1, BusesKept DEF Wired, Live
  <2>4. Entries' = Entries
    BY <2>1, SameQueueEntries
  <2> QED  BY <1>0, <2>2, <2>3, <2>4, ShelvedKept DEF Wired
<1>3. ASSUME NEW w \in Worker, WorkerStep(w)
      PROVE  Wired'
  <2>1. /\ dequeue(w)
        /\ \/ UNCHANGED mapVars
           \/ \E result \in Task :
                IF isTerminal(result.state) THEN storeDeadLetter(result) ELSE setActive(result)
        /\ UNCHANGED <<stream, subscriber, buses, closedBuses>>
    BY <1>0, <1>3, WorkerStepEffect DEF requestVars, registryVars
  <2>2. Entries' \subseteq Entries
    BY <1>0, <2>1, QueueSubset
  <2>3. BusesSound' /\ SubscribersFed'
    BY <1>0, <2>1, BusesKept DEF Wired, Live
  <2>4. \/ SameReads
        \/ \E task \in Task, active \in BOOLEAN :
             Stores(task, active) /\ (active \/ isTerminal(task.state))
    BY <1>0, <2>1, StoringStores, SameMapsReads DEF SameReads
  <2> QED  BY <1>0, <2>2, <2>3, <2>4, ShelvedKept DEF Wired
<1>4. CASE UNCHANGED vars
  <2>1. UNCHANGED <<mapVars, queueVars, stream, subscriber, buses, closedBuses>>
    BY <1>4 DEF vars, serverVars, storageVars, requestVars, registryVars
  <2>2. SameReads /\ Entries' = Entries
    BY <2>1, SameMapsReads, SameQueueEntries DEF SameReads
  <2>3. BusesSound' /\ SubscribersFed'
    BY <1>0, <2>1, BusesKept DEF Wired, Live
  <2> QED  BY <1>0, <2>2, <2>3, ShelvedKept DEF Wired
<1> QED  BY <1>0, <1>1, <1>2, <1>3, <1>4, RequestsWired, StreamsWired DEF Next, ServerNext

LEMMA InitWired == Init => Wired
<1> SUFFICES ASSUME Init PROVE Wired
  OBVIOUS
<1>1. /\ Typed
      /\ \A id \in TaskId : ~Known(id)
      /\ Entries = {}
  BY InitTyped, EmptySeq, LenProperties
     DEF Init, ServerInit, StorageInit, Known, getTask, isActive, Entries
<1>2. /\ \A s \in Streamer : ~Live(s)
      /\ \A id \in TaskId : buses[id] = NoStream
      /\ closedBuses = {}
      /\ \A b \in Subscriber : subscriber[b].phase = "idle"
  BY DEF Init, ServerInit, Live
<1> QED  BY <1>1, <1>2, RequestAssumption DEF Wired, Shelved, BusesSound, SubscribersFed, Bus

LEMMA WiredWorkers == Wired => WorkersSurvive
<1> SUFFICES ASSUME Wired, NEW w \in Worker, resolved[w] # NoTask, Runnable(resolved[w])
             PROVE  isActive(resolved[w].id)
  BY DEF WorkersSurvive
<1>1. QueueTyped /\ resolved[w] \in Entries
  BY EntryPlaces DEF Wired, Typed
<1>2. PICK id \in TaskId : resolved[w].id = id
  BY <1>1, EntriesAreTasks DEF Task
<1> QED  BY <1>1, <1>2 DEF Wired, Shelved, Runnable, isTerminal, TERMINAL_STATES

(* A subscriber is attached only to an open bus that a live stream on its  *)
(* task will close (handleSubscribeToTask, TaskEventBusRegistry): none     *)
(* waits on a bus nobody publishes on, also when several streams share it. *)
THEOREM SubscribersFedCorrect == Spec => []SubscribersFed
<1>1. Wired => SubscribersFed
  BY DEF Wired
<1> QED  BY <1>1, InitWired, NextWired, PTL DEF Spec

(* updateActive never throws in a worker: its guard implies that the task  *)
(* is active (runWorker, in-memory.ts updateActive).                       *)
THEOREM WorkersCorrect == Spec => []WorkersSurvive
BY InitWired, NextWired, WiredWorkers, PTL DEF Spec
=============================================================================
