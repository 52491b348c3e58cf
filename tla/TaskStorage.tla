---------------------------- MODULE TaskStorage ----------------------------
(***************************************************************************)
(* InMemoryTaskStorage (src/src/storage/in-memory.ts): the state it keeps  *)
(* and its operations.  JavaScript runs each of them to completion, so     *)
(* each is one action.  The state falls into three groups, and every       *)
(* operator below constrains the whole of its group and nothing else, so   *)
(* that a handler that calls several operations in one synchronous run is  *)
(* the conjunction of their operators:                                     *)
(*   the maps    activeTasks, deadLetterTasks, contextIndex                *)
(*   the queue   queue, waiters, resolved                                  *)
(*   pushConfigs                                                           *)
(* A task handed to dequeue is a snapshot: the queue and the maps hold the *)
(* same object when it is enqueued and drift apart afterwards.             *)
(***************************************************************************)
EXTENDS TaskLifecycle, Integers, Sequences, FiniteSets, SequencesExt

CONSTANTS TaskId,    \* task ids the id generator may mint
          Context,   \* conversation ids
          Worker,    \* callers of dequeue
          Request,   \* message-carrying requests
          ConfigId,  \* push notification config ids
          NoTask     \* JavaScript's undefined where a task may stand

Task == [id: TaskId, context: Context, state: TASK_STATE, messages: SUBSET Request]

ASSUME NoTaskAssumption == NoTask \notin Task

VARIABLES activeTasks,      \* Map: id -> enqueued or in-flight task
          deadLetterTasks,  \* Map: id -> task stored by storeDeadLetter
          contextIndex,     \* Map: context -> Set of ids
          queue,            \* the FIFO array
          waiters,          \* dequeue callers waiting, oldest first
          resolved,         \* task a dequeue promise resolved to, not yet used
          pushConfigs       \* Map: id -> Map of push configs

mapVars == <<activeTasks, deadLetterTasks, contextIndex>>
queueVars == <<queue, waiters, resolved>>
storageVars == <<mapVars, queueVars, pushConfigs>>

StorageTypeOK ==
  /\ activeTasks \in [TaskId -> Task \cup {NoTask}]
  /\ deadLetterTasks \in [TaskId -> Task \cup {NoTask}]
  /\ contextIndex \in [Context -> SUBSET TaskId]
  /\ queue \in Seq(Task)
  /\ waiters \in Seq(Worker)
  /\ resolved \in [Worker -> Task \cup {NoTask}]
  /\ pushConfigs \in [TaskId -> SUBSET ConfigId]

StorageInit ==
  /\ activeTasks = [id \in TaskId |-> NoTask]
  /\ deadLetterTasks = [id \in TaskId |-> NoTask]
  /\ contextIndex = [c \in Context |-> {}]
  /\ queue = <<>>
  /\ waiters = <<>>
  /\ resolved = [w \in Worker |-> NoTask]
  /\ pushConfigs = [id \in TaskId |-> {}]

-----------------------------------------------------------------------------
(* Reads                                                                   *)

isActive(id) == activeTasks[id] # NoTask

getTask(id) == IF isActive(id) THEN activeTasks[id] ELSE deadLetterTasks[id]

Known(id) == getTask(id) # NoTask

-----------------------------------------------------------------------------
(* The maps                                                                *)

indexContext(task) ==
  contextIndex' = [contextIndex EXCEPT ![task.context] = @ \cup {task.id}]

unindexContext(ids) ==
  contextIndex' = [c \in Context |->
                     contextIndex[c] \ {id \in ids : deadLetterTasks[id].context = c}]

(* activeTasks.set + indexContext: the shared part of enqueue, createActive *)
(* and updateActive.                                                       *)
setActive(task) ==
  /\ activeTasks' = [activeTasks EXCEPT ![task.id] = task]
  /\ indexContext(task)
  /\ UNCHANGED deadLetterTasks

createActive(task) == ~isActive(task.id) /\ setActive(task)

updateActive(task) == isActive(task.id) /\ setActive(task)

(* Faulty variant: the task stays in the active map too.                   *)
storeDeadLetterCopies(task) ==
  /\ deadLetterTasks' = [deadLetterTasks EXCEPT ![task.id] = task]
  /\ indexContext(task)
  /\ UNCHANGED activeTasks

storeDeadLetter(task) ==
  /\ deadLetterTasks' = [deadLetterTasks EXCEPT ![task.id] = task]
  /\ activeTasks' = [activeTasks EXCEPT ![task.id] = NoTask]
  /\ indexContext(task)

(* Faulty variant: the ids stay in the context index.                      *)
evictIndexed(ids) ==
  /\ deadLetterTasks' = [id \in TaskId |->
                           IF id \in ids THEN NoTask ELSE deadLetterTasks[id]]
  /\ UNCHANGED <<activeTasks, contextIndex>>

evict(ids) ==
  /\ deadLetterTasks' = [id \in TaskId |->
                           IF id \in ids THEN NoTask ELSE deadLetterTasks[id]]
  /\ unindexContext(ids)
  /\ UNCHANGED activeTasks

DeadIn(states) ==
  {id \in TaskId : deadLetterTasks[id] # NoTask /\ deadLetterTasks[id].state \in states}

cleanupCompleted == evict(DeadIn(TERMINAL_STATES))

(* How many tasks a retention cap leaves of a bucket of n; a negative cap  *)
(* is no cap.                                                              *)
Retained(n, cap) == IF cap < 0 \/ n <= cap THEN n ELSE cap

(* selectTasksForEviction removes the oldest of each bucket.  Timestamps   *)
(* are abstracted, so which tasks of an overfull bucket go is left open.   *)
cleanupTasksWithRetention(completedCap, failedCap) ==
  LET completed == DeadIn({"COMPLETED"})
      failed    == DeadIn({"FAILED", "CANCELLED"})
  IN  \E keepC \in SUBSET completed, keepF \in SUBSET failed :
        /\ Cardinality(keepC) = Retained(Cardinality(completed), completedCap)
        /\ Cardinality(keepF) = Retained(Cardinality(failed), failedCap)
        /\ evict((completed \ keepC) \cup (failed \ keepF))

-----------------------------------------------------------------------------
(* The queue                                                               *)

(* Faulty variant: the youngest waiter is served.                          *)
offerYoungest(task) ==
  \/ /\ waiters # <<>>
     /\ resolved' = [resolved EXCEPT ![Last(waiters)] = task]
     /\ waiters' = Front(waiters)
     /\ UNCHANGED queue
  \/ /\ waiters = <<>>
     /\ queue' = Append(queue, task)
     /\ UNCHANGED <<waiters, resolved>>

(* The queue half of enqueue: hand the task to the oldest waiter, or queue *)
(* it when nobody waits.                                                   *)
offer(task) ==
  \/ /\ waiters # <<>>
     /\ resolved' = [resolved EXCEPT ![Head(waiters)] = task]
     /\ waiters' = Tail(waiters)
     /\ UNCHANGED queue
  \/ /\ waiters = <<>>
     /\ queue' = Append(queue, task)
     /\ UNCHANGED <<waiters, resolved>>

enqueue(task) == setActive(task) /\ offer(task)

isWaiting(w) == \E i \in DOMAIN waiters : waiters[i] = w

(* Faulty variant: the caller waits without looking at the queue.          *)
dequeueBlindly(w) ==
  /\ ~isWaiting(w)
  /\ resolved' = [resolved EXCEPT ![w] = NoTask]
  /\ waiters' = Append(waiters, w)
  /\ UNCHANGED queue

(* A worker awaits one dequeue at a time: when it calls again, it is done  *)
(* with the task of the call before.                                       *)
dequeue(w) ==
  /\ ~isWaiting(w)
  /\ \/ /\ queue # <<>>
        /\ resolved' = [resolved EXCEPT ![w] = Head(queue)]
        /\ queue' = Tail(queue)
        /\ UNCHANGED waiters
     \/ /\ queue = <<>>
        /\ resolved' = [resolved EXCEPT ![w] = NoTask]
        /\ waiters' = Append(waiters, w)
        /\ UNCHANGED queue

(* The abort listener of a waiting dequeue.                                *)
abortDequeue(w) ==
  \E i \in DOMAIN waiters :
    /\ waiters[i] = w
    /\ waiters' = RemoveAt(waiters, i)
    /\ UNCHANGED <<queue, resolved>>

(* The caller is done with its task and does not come back for another yet.*)
useResolved(w) ==
  /\ resolved[w] # NoTask
  /\ resolved' = [resolved EXCEPT ![w] = NoTask]
  /\ UNCHANGED <<queue, waiters>>

(* The queue keeps the entries at these positions, in their order.         *)
keepInQueue(keep) ==
  /\ \E pos \in [1..Cardinality(keep) -> keep] :
       /\ \A i, j \in DOMAIN pos : i < j => pos[i] < pos[j]
       /\ queue' = [i \in DOMAIN pos |-> queue[pos[i]]]
  /\ UNCHANGED <<waiters, resolved>>

(* Drops the first entry with that id, if there is one.                    *)
removeFromQueue(id) ==
  \/ \E i \in DOMAIN queue :
       /\ queue[i].id = id
       /\ \A j \in 1..(i - 1) : queue[j].id # id
       /\ queue' = RemoveAt(queue, i)
       /\ UNCHANGED <<waiters, resolved>>
  \/ /\ \A i \in DOMAIN queue : queue[i].id # id
     /\ UNCHANGED queueVars

(* Cascade over the maps, the queue and the push configs; an unknown       *)
(* context is a no-op.                                                     *)
deleteContext(c) ==
  LET ids == contextIndex[c]
  IN  /\ ids # {}
      /\ activeTasks' = [id \in TaskId |-> IF id \in ids THEN NoTask ELSE activeTasks[id]]
      /\ deadLetterTasks' = [id \in TaskId |->
                               IF id \in ids THEN NoTask ELSE deadLetterTasks[id]]
      /\ contextIndex' = [contextIndex EXCEPT ![c] = {}]
      /\ pushConfigs' = [id \in TaskId |-> IF id \in ids THEN {} ELSE pushConfigs[id]]
      /\ keepInQueue({i \in DOMAIN queue : queue[i].context # c})

-----------------------------------------------------------------------------
(* Push notification configs                                               *)

setPushConfig(id, config) ==
  pushConfigs' = [pushConfigs EXCEPT ![id] = @ \cup {config}]

deletePushConfig(id, config) ==
  /\ config \in pushConfigs[id]
  /\ pushConfigs' = [pushConfigs EXCEPT ![id] = @ \ {config}]

-----------------------------------------------------------------------------
(* Safety of the storage, whoever calls it legally                        *)

(* A task is never handed past the line: while a worker waits the queue is *)
(* empty, a worker stands in the line once, and one that has been handed a *)
(* task has left it (in-memory.ts enqueue, dequeue, onAbort).              *)
HandoffDiscipline ==
  /\ waiters # <<>> => queue = <<>>
  /\ \A i, j \in DOMAIN waiters : waiters[i] = waiters[j] => i = j
  /\ \A i \in DOMAIN waiters : resolved[waiters[i]] = NoTask

(* No id is both active and dead, so getTask, listTasks and getStats count *)
(* each task once.                                                         *)
OneLocation == \A id \in TaskId : ~isActive(id) \/ deadLetterTasks[id] = NoTask
=============================================================================
