---------------------------- MODULE RedisStorage ----------------------------
(***************************************************************************)
(* RedisTaskStorage (src/src/storage/redis.ts) on one instance: the maps   *)
(* of TaskStorage as an in-memory mirror in front of a Redis server.  A    *)
(* write changes the mirror at once and sends a transaction that Redis     *)
(* executes later; waiting dequeues are served by a loop of BRPOP, HGET    *)
(* and HDEL.  Commands may fail, and the process may disconnect, die and   *)
(* come back with a mirror hydrated from Redis.                            *)
(*                                                                         *)
(* Every enqueue brings a message of its own: <<id, n>> is the nth one of  *)
(* task id.  A task may be enqueued again while its entry is still queued: *)
(* a stream leaves the entry behind (message-stream.ts), moves the task on *)
(* and pauses it, and SendMessage resumes it.  Redis then lists the id     *)
(* twice, and keeps the later payload.                                     *)
(*                                                                         *)
(* The order list is kept oldest first: LPUSH appends, BRPOP takes the     *)
(* head.  The context sets, which are written but never read, and the push *)
(* configs, hashes beside the rest that a mirror of theirs writes through  *)
(* in the same way, are left out: pushConfigs stays empty here.            *)
(***************************************************************************)
EXTENDS TaskStorage

CONSTANTS MaxQueued,   \* bound: entries in the local queue and in Redis
          MaxWire,     \* bound: commands under way when a write is made
          MaxFaults,   \* bound: failures and crashes
          States       \* bound: lifecycle states the callers use

ASSUME BoundAssumption ==
  /\ {MaxQueued, MaxWire, MaxFaults} \subseteq Nat
  /\ States \subseteq TASK_STATE

ASSUME UndefinedAssumption == NoTask \notin TaskId

ASSUME RequestAssumption == Request \subseteq TaskId \X Nat

VARIABLES redis,    \* the keys under the prefix
          wire,     \* sent on commandClient and not executed, oldest first
          loop,     \* runDequeueLoop: where it is, and what it has popped
          mode,     \* open, closed by disconnect, or down
          faulty,   \* a write has failed since the mirror was hydrated
          faults,   \* failures and crashes so far
          due,      \* what has become of each message
          handed    \* the snapshots that workers have got

ledger == <<due, handed>>
remoteVars == <<redis, wire>>
statusVars == <<mode, faulty, faults>>
vars == <<storageVars, remoteVars, statusVars, loop, ledger>>

RedisState ==
  [active: [TaskId -> Task \cup {NoTask}], dead: [TaskId -> Task \cup {NoTask}],
   order: Seq(TaskId), items: [TaskId -> Task \cup {NoTask}]]

Command ==
       [op: {"store", "queue", "retire", "restore"}, task: Task]
  \cup [op: {"unqueue", "hget", "hdel"}, id: TaskId]
  \cup [op: {"evict", "drop"}, ids: SUBSET TaskId]

(* What the loop awaits: the answer to a BRPOP (popping), a hget, a hdel,  *)
(* a restore; and, in the past form, that the answer has come.             *)
LoopPC == {"off", "popping", "popped", "fetching", "fetched",
           "deleting", "deleted", "restoring", "restored"}

(* The loop has read a payload, which it hands over or gives back.         *)
Holding == {"fetched", "deleting", "deleted"}

(* "none": registered, not enqueued.  "owed": enqueued, and a worker is to *)
(* get it.  "raced": enqueued while the loop was taking the payload of an  *)
(* older entry of its task, which may cost this one its own.  "dropped":   *)
(* the task was enqueued again without it.  "revoked": cancelled or deleted*)
(* with its task.  "lost": it was under way when something failed.  "done":*)
(* a worker has got it.                                                    *)
Due == {"unissued", "none", "owed", "raced", "dropped", "revoked", "lost", "done"}

Pending == {"owed", "raced"}

RedisTypeOK ==
  /\ StorageTypeOK
  /\ redis \in RedisState
  /\ wire \in Seq(Command)
  /\ loop \in [pc: LoopPC, id: TaskId \cup {NoTask}, task: Task \cup {NoTask}]
  /\ mode \in {"open", "closed", "down"}
  /\ faulty \in BOOLEAN
  /\ faults \in 0..MaxFaults
  /\ due \in [Request -> Due]
  /\ handed \in SUBSET Task

Off == [pc |-> "off", id |-> NoTask, task |-> NoTask]
Popping == [Off EXCEPT !.pc = "popping"]

Init ==
  /\ StorageInit
  /\ redis = [active |-> activeTasks, dead |-> deadLetterTasks, order |-> <<>>, items |-> activeTasks]
  /\ wire = <<>>
  /\ loop = Off
  /\ mode = "open"
  /\ faulty = FALSE
  /\ faults = 0
  /\ due = [r \in Request |-> "unissued"]
  /\ handed = {}

-----------------------------------------------------------------------------
(* What Redis does with a command                                          *)

Without(map, ids) == [id \in TaskId |-> IF id \in ids THEN NoTask ELSE map[id]]

(* LREM: the order list without these ids.                                 *)
Unlisted(order, ids) ==
  FoldLeft(LAMBDA rest, id : IF id \in ids THEN rest ELSE Append(rest, id), <<>>, order)

(* Faulty variant: the active key of the retired task stays.               *)
RetireKeeping(r, task) == [r EXCEPT !.dead[task.id] = task]

RetireKeys(r, task) ==
  [r EXCEPT !.dead[task.id] = task, !.active[task.id] = NoTask]

Apply(r, t) ==
  CASE t.op = "store"   -> [r EXCEPT !.active[t.task.id] = t.task]
    [] t.op = "queue"   -> [r EXCEPT !.active[t.task.id] = t.task,
                                       !.items[t.task.id] = t.task,
                                       !.order = Append(@, t.task.id)]
    [] t.op = "restore" -> [r EXCEPT !.items[t.task.id] = t.task,
                                       !.order = Append(@, t.task.id)]
    [] t.op = "retire"  -> RetireKeys(r, t.task)
    [] t.op = "unqueue" -> [r EXCEPT !.order = Unlisted(@, {t.id}),
                                       !.items[t.id] = NoTask]
    [] t.op = "hget"    -> r
    [] t.op = "hdel"    -> [r EXCEPT !.items[t.id] = NoTask]
    [] t.op = "evict"   -> [r EXCEPT !.dead = Without(@, t.ids)]
    [] t.op = "drop"    ->
         [active |-> Without(r.active, t.ids), dead |-> Without(r.dead, t.ids),
          items |-> Without(r.items, t.ids),
          order |-> Unlisted(r.order, t.ids)]

(* Redis once it has executed all that is under way.                       *)
Settled == FoldLeft(Apply, redis, wire)

(* The queue entry that is gone if the command does not get through.       *)
Carried(t) ==
  CASE t.op \in {"queue", "restore"} -> {t.task.id}
    [] t.op \in {"hget", "hdel"}     -> {t.id}
    [] OTHER                         -> {}

UnderWay == (UNION {Carried(wire[i]) : i \in DOMAIN wire}) \cup ({loop.id} \ {NoTask})

Becomes(ids, fate) ==
  [r \in Request |-> IF r[1] \in ids /\ due[r] \in Pending THEN fate ELSE due[r]]

Lost(ids) == due' = Becomes(ids, "lost") /\ UNCHANGED handed

Revoked(ids) == due' = Becomes(ids, "revoked") /\ UNCHANGED handed

-----------------------------------------------------------------------------
(* Writes, made while the storage is open                                  *)

(* execAsync: nobody waits for the answers.                                *)
execAsync(commands) ==
  /\ mode = "open"
  /\ Len(wire) + Len(commands) <= MaxWire
  /\ wire' = wire \o commands
  /\ UNCHANGED <<redis, loop, statusVars>>

Issued(id) == \E r \in Request : r[1] = id /\ due[r] # "unissued"

(* A new message; those of a task come in the order of their numbers.      *)
Fresh(r) ==
  /\ due[r] = "unissued"
  /\ \A q \in Request : q[1] = r[1] /\ q[2] < r[2] => due[q] # "unissued"

(* The loop is taking a payload of this task, or has taken it.             *)
Taking(id) == loop.id = id /\ loop.pc \in {"fetching"} \cup Holding

Queued(task, r) ==
  /\ due' = [q \in Request |->
               IF q = r THEN IF Taking(task.id) THEN "raced" ELSE "owed"
               ELSE IF q[1] = task.id /\ due[q] \in Pending /\ q \notin task.messages THEN "dropped"
               ELSE due[q]]
  /\ UNCHANGED handed

Carries(task, r) == task # NoTask /\ r \in task.messages

(* A worker gets the task with all its messages.                           *)
Handed(task) ==
  /\ due' = [q \in Request |-> IF Carries(task, q) THEN "done" ELSE due[q]]
  /\ handed' = handed \cup {task}

(* Faulty variant: a task given to a waiter is queued in Redis as well.    *)
EnqueueTwice(task, r) ==
  /\ Len(queue) < MaxQueued
  /\ enqueue(task)
  /\ IF waiters = <<>> THEN Queued(task, r) ELSE Handed(task)
  /\ execAsync(<<[op |-> "queue", task |-> task]>>)
  /\ UNCHANGED pushConfigs

(* enqueue: a waiting worker gets the task and Redis only learns that it   *)
(* is active; otherwise it joins the queue there as well.                  *)
Enqueue(task, r) ==
  /\ Len(queue) < MaxQueued
  /\ enqueue(task)
  /\ \/ /\ waiters # <<>>
        /\ execAsync(<<[op |-> "store", task |-> task]>>)
        /\ Handed(task)
     \/ /\ waiters = <<>>
        /\ execAsync(<<[op |-> "queue", task |-> task]>>)
        /\ Queued(task, r)
  /\ UNCHANGED pushConfigs

(* SendMessage and SendStreamingMessage.                                   *)
EnqueueNew(r, c) == Fresh(r) /\ ~Issued(r[1]) /\ Enqueue(createTask(r[1], c, {r}), r)

(* SendMessage resumes a paused task, whether its last entry has been      *)
(* handed over or not.                                                     *)
EnqueueResumed(r) ==
  LET task == activeTasks[r[1]]
  IN  /\ Fresh(r)
      /\ isActive(r[1])
      /\ isPaused(task.state)
      /\ Enqueue(transitionTask([task EXCEPT !.messages = @ \cup {r}], "IN_PROGRESS"), r)

(* createActive, an operation of the interface: a task comes without being *)
(* enqueued, from a checkpoint say.                                        *)
Create(r, c) ==
  LET task == createTask(r[1], c, {r})
  IN  /\ Fresh(r) /\ ~Issued(r[1])
      /\ createActive(task)
      /\ execAsync(<<[op |-> "store", task |-> task]>>)
      /\ due' = [due EXCEPT ![r] = "none"]
      /\ UNCHANGED <<queueVars, pushConfigs, handed>>

(* A worker or a stream stores its own snapshot, whether the task is queued*)
(* or not; it may be from before the latest messages came.                 *)
Update(id, state, last) ==
  /\ isActive(id)
  /\ last \in activeTasks[id].messages
  /\ canTransition(activeTasks[id].state, state)
  /\ LET known == {r \in activeTasks[id].messages : r[2] <= last[2]}
         task  == transitionTask([activeTasks[id] EXCEPT !.messages = known], state)
     IN  /\ updateActive(task)
         /\ execAsync(<<[op |-> "store", task |-> task]>>)
  /\ UNCHANGED <<queueVars, pushConfigs, ledger>>

(* What a worker stores may come after a cancellation, and then again.     *)
Retire(id, state) ==
  /\ Known(id)
  /\ isTerminal(state)
  /\ LET task == [getTask(id) EXCEPT !.state = state]
     IN  /\ storeDeadLetter(task)
         /\ execAsync(<<[op |-> "retire", task |-> task]>>)
  /\ UNCHANGED <<queueVars, pushConfigs, ledger>>

InQueue(id) == \E i \in DOMAIN queue : queue[i].id = id

(* removeFromQueue reaches Redis only if the local queue has the entry.    *)
CancelPending(id) ==
  /\ isActive(id)
  /\ activeTasks[id].state = "PENDING"
  /\ removeFromQueue(id)
  /\ LET task == transitionTask(activeTasks[id], "CANCELLED")
         retire == <<[op |-> "retire", task |-> task]>>
     IN  /\ storeDeadLetter(task)
         /\ IF InQueue(id)
            THEN execAsync(<<[op |-> "unqueue", id |-> id]>> \o retire)
            ELSE execAsync(retire)
  /\ Revoked({id})
  /\ UNCHANGED pushConfigs

(* cleanupCompleted evicts every terminal task, the retention sweep those  *)
(* over the caps, whatever these are.                                      *)
CleanUp ==
  /\ \E ids \in SUBSET DeadIn(TERMINAL_STATES) :
       /\ ids # {}
       /\ evict(ids)
       /\ execAsync(<<[op |-> "evict", ids |-> ids]>>)
  /\ UNCHANGED <<queueVars, pushConfigs, ledger>>

DropContext(c) ==
  /\ deleteContext(c)
  /\ execAsync(<<[op |-> "drop", ids |-> contextIndex[c]]>>)
  /\ Revoked(contextIndex[c])

Write ==
  \/ \E r \in Request, c \in Context : EnqueueNew(r, c) \/ Create(r, c)
  \/ \E r \in Request : EnqueueResumed(r)
  \/ \E id \in TaskId, state \in States, last \in Request : Update(id, state, last)
  \/ \E id \in TaskId, state \in States : Retire(id, state)
  \/ \E id \in TaskId : CancelPending(id)
  \/ CleanUp
  \/ \E c \in Context : DropContext(c)

-----------------------------------------------------------------------------
(* Workers                                                                 *)

(* dequeue: the local queue is not looked at; the caller waits, and the    *)
(* loop is started unless it runs.                                         *)
Dequeue(w) ==
  /\ mode = "open"
  /\ ~isWaiting(w)
  /\ waiters' = Append(waiters, w)
  /\ resolved' = [resolved EXCEPT ![w] = NoTask]
  /\ loop' = IF loop.pc = "off" THEN Popping ELSE loop
  /\ UNCHANGED <<mapVars, queue, pushConfigs, remoteVars, statusVars, ledger>>

Abort(w) ==
  /\ abortDequeue(w)
  /\ UNCHANGED <<mapVars, pushConfigs, remoteVars, statusVars, loop, ledger>>

Use(w) ==
  /\ useResolved(w)
  /\ UNCHANGED <<mapVars, pushConfigs, remoteVars, statusVars, loop, ledger>>

Work == \E w \in Worker : Dequeue(w) \/ Abort(w) \/ Use(w)

-----------------------------------------------------------------------------
(* runDequeueLoop                                                          *)

localVars == <<mapVars, pushConfigs, statusVars>>

(* At the end of an iteration, and in finally: the loop goes on, or is     *)
(* started again, while somebody waits.                                    *)
LoopAgain(waiting) == loop' = IF waiting = <<>> THEN Off ELSE Popping

(* The loop sends a command it awaits, holding what it has popped.         *)
LoopSends(command, pc) ==
  /\ mode = "open"
  /\ wire' = Append(wire, command)
  /\ loop' = [loop EXCEPT !.pc = pc]

(* BRPOP takes the oldest entry.                                           *)
RedisPops ==
  /\ loop.pc = "popping"
  /\ redis.order # <<>>
  /\ redis' = [redis EXCEPT !.order = Tail(@)]
  /\ loop' = [loop EXCEPT !.pc = "popped", !.id = Head(redis.order)]
  /\ UNCHANGED <<localVars, queueVars, wire, ledger>>

(* BRPOP times out or fails, and nobody waits any more.                    *)
LoopStops ==
  /\ loop.pc = "popping"
  /\ waiters = <<>>
  /\ loop' = Off
  /\ UNCHANGED <<localVars, queueVars, remoteVars, ledger>>

LoopFetches ==
  /\ loop.pc = "popped"
  /\ LoopSends([op |-> "hget", id |-> loop.id], "fetching")
  /\ UNCHANGED <<localVars, queueVars, redis, ledger>>

(* Faulty variant: a missing payload is not noticed.                       *)
LoopDeletesAnyway ==
  /\ loop.pc = "fetched"
  /\ LoopSends([op |-> "hdel", id |-> loop.id], "deleting")
  /\ UNCHANGED <<localVars, queueVars, redis, ledger>>

LoopDeletes ==
  /\ loop.pc = "fetched"
  /\ \/ /\ loop.task # NoTask
        /\ LoopSends([op |-> "hdel", id |-> loop.id], "deleting")
     \/ /\ loop.task = NoTask
        /\ LoopAgain(waiters)
        /\ UNCHANGED wire
  /\ UNCHANGED <<localVars, queueVars, redis, ledger>>

dropFromLocalQueue(id) ==
  \/ \E i \in DOMAIN queue :
       /\ queue[i].id = id
       /\ \A j \in 1..(i - 1) : queue[j].id # id
       /\ queue' = RemoveAt(queue, i)
  \/ ~InQueue(id) /\ UNCHANGED queue

LoopDelivers ==
  /\ loop.pc = "deleted"
  /\ mode = "open"
  /\ waiters # <<>>
  /\ dropFromLocalQueue(loop.id)
  /\ resolved' = [resolved EXCEPT ![Head(waiters)] = loop.task]
  /\ waiters' = Tail(waiters)
  /\ Handed(loop.task)
  /\ LoopAgain(Tail(waiters))
  /\ UNCHANGED <<localVars, remoteVars>>

(* Faulty variant: the loop ends without giving the entry back.            *)
LoopForgets ==
  /\ loop.pc = "deleted"
  /\ waiters = <<>>
  /\ dropFromLocalQueue(loop.id)
  /\ loop' = Off
  /\ UNCHANGED <<localVars, waiters, resolved, remoteVars, ledger>>

(* Every waiter has aborted or been served by enqueue meanwhile: the entry *)
(* goes back, at the newest end, and only in Redis.                        *)
LoopRestores ==
  /\ loop.pc = "deleted"
  /\ waiters = <<>>
  /\ dropFromLocalQueue(loop.id)
  /\ LoopSends([op |-> "restore", task |-> loop.task], "restoring")
  /\ UNCHANGED <<localVars, waiters, resolved, redis, ledger>>

(* Faulty variant: whoever has come meanwhile is not noticed.              *)
LoopEndsForGood ==
  /\ loop.pc = "restored"
  /\ loop' = Off
  /\ UNCHANGED <<localVars, queueVars, remoteVars, ledger>>

LoopEnds ==
  /\ loop.pc = "restored"
  /\ mode = "open"
  /\ LoopAgain(waiters)
  /\ UNCHANGED <<localVars, queueVars, remoteVars, ledger>>

(* After disconnect the loop stops at whatever it comes to next: the check *)
(* of closed after BRPOP, or a command the quit client rejects.  What it   *)
(* held is gone.                                                           *)
LoopCloses ==
  /\ mode = "closed"
  /\ loop.pc \in {"popped", "fetched", "deleted", "restored"}
  /\ loop' = Off
  /\ Lost(IF loop.pc = "restored" THEN {} ELSE {loop.id})
  /\ UNCHANGED <<localVars, queueVars, remoteVars>>

Loop ==
  \/ LoopStops \/ LoopFetches \/ LoopDeletes \/ LoopDelivers \/ LoopRestores
  \/ LoopEnds \/ LoopCloses

-----------------------------------------------------------------------------
(* Redis executes commands in the order sent; an answer the loop awaits    *)
(* reaches it.                                                             *)

Answered(command) ==
  CASE command.op = "hget"    -> [loop EXCEPT !.pc = "fetched",
                                              !.task = redis.items[command.id]]
    [] command.op = "hdel"    -> [loop EXCEPT !.pc = "deleted"]
    [] command.op = "restore" -> [loop EXCEPT !.pc = "restored"]
    [] OTHER                  -> loop

RedisExecutes ==
  /\ wire # <<>>
  /\ redis' = Apply(redis, Head(wire))
  /\ wire' = Tail(wire)
  /\ loop' = Answered(Head(wire))
  /\ UNCHANGED <<localVars, queueVars, ledger>>

-----------------------------------------------------------------------------
(* Failures                                                                *)

(* A command fails, executed or not.  A write only reports it to onError;  *)
(* the loop ends, and is started again while somebody waits.               *)
CommandFails ==
  /\ wire # <<>>
  /\ faults < MaxFaults
  /\ faults' = faults + 1
  /\ redis' \in {redis, Apply(redis, Head(wire))}
  /\ wire' = Tail(wire)
  /\ Lost(Carried(Head(wire)))
  /\ \/ /\ Head(wire).op \in {"hget", "hdel", "restore"}
        /\ LoopAgain(waiters)
        /\ UNCHANGED faulty
     \/ /\ Head(wire).op \notin {"hget", "hdel", "restore"}
        /\ faulty' = TRUE
        /\ UNCHANGED loop
  /\ UNCHANGED <<mapVars, queueVars, pushConfigs, mode>>

(* disconnect rejects the waiters; what has been sent is still executed.   *)
Disconnect ==
  /\ mode = "open"
  /\ mode' = "closed"
  /\ waiters' = <<>>
  /\ UNCHANGED <<mapVars, queue, resolved, pushConfigs, remoteVars, faulty, faults, loop,
                 ledger>>

(* The process dies, with its memory and what it has not sent yet.         *)
Crash ==
  /\ mode # "down"
  /\ faults < MaxFaults
  /\ faults' = faults + 1
  /\ mode' = "down"
  /\ activeTasks' = Without(activeTasks, TaskId)
  /\ deadLetterTasks' = Without(deadLetterTasks, TaskId)
  /\ contextIndex' = [c \in Context |-> {}]
  /\ queue' = <<>>
  /\ waiters' = <<>>
  /\ resolved' = [w \in Worker |-> NoTask]
  /\ Lost(UnderWay)
  /\ wire' = <<>>
  /\ loop' = Off
  /\ UNCHANGED <<pushConfigs, redis, faulty>>

(* hydrate; an order entry without payload is skipped.                     *)
Restart ==
  /\ mode = "down"
  /\ mode' = "open"
  /\ faulty' = FALSE
  /\ activeTasks' = redis.active
  /\ deadLetterTasks' = redis.dead
  /\ contextIndex' = [c \in Context |->
                        {id \in TaskId : \E task \in {redis.active[id], redis.dead[id]} :
                                           task # NoTask /\ task.context = c}]
  /\ queue' = LET ids == Unlisted(redis.order, {id \in TaskId : redis.items[id] = NoTask})
              IN  [i \in DOMAIN ids |-> redis.items[ids[i]]]
  /\ UNCHANGED <<pushConfigs, waiters, resolved, remoteVars, faults, loop, ledger>>

Fail == CommandFails \/ Disconnect \/ Crash \/ Restart

Next == Write \/ Work \/ Loop \/ RedisPops \/ RedisExecutes \/ Fail

(* The event loop runs the continuations, and Redis is up.                 *)
Fairness == WF_vars(Loop) /\ WF_vars(RedisPops) /\ WF_vars(RedisExecutes)

Spec == Init /\ [][Next]_vars

FairSpec == Spec /\ Fairness

-----------------------------------------------------------------------------

(* While no write has failed, Redis is about to hold what the mirror holds:*)
(* write-through of every operation, in the order of the calls.            *)
MirrorFaithful ==
  mode = "open" /\ ~faulty =>
    /\ Settled.active = activeTasks
    /\ Settled.dead = deadLetterTasks

(* The payload in Redis, with an entry that is still listed or was popped  *)
(* by the loop; or what the loop has read.                                 *)
StillThere(r) ==
  \/ /\ Carries(Settled.items[r[1]], r)
     /\ Contains(Settled.order, r[1]) \/ (loop.id = r[1] /\ loop.pc \in {"popped", "fetching"})
  \/ loop.id = r[1] /\ loop.pc \in Holding /\ Carries(loop.task, r)

(* An enqueued message that no failure, crash, disconnect or cancellation  *)
(* touched, and that did not come while the loop was taking an older       *)
(* payload of its task, is in Redis or held by the loop: aborted dequeues, *)
(* the fast path of enqueue, a second entry of the same task and restarts  *)
(* lose nothing (enqueue, runDequeueLoop, hydrate).                        *)
OwedIsQueued == \A r \in Request : due[r] = "owed" => StillThere(r)

(* The same of every message enqueued, as it is in the storage in memory.  *)
(* "For a single-instance deployment this is functionally indistinguishable*)
(* from InMemoryTaskStorage" (redis.ts).                                   *)
PendingIsQueued == \A r \in Request : due[r] \in Pending => StillThere(r)

(* No worker waits beside a loop that has stopped (brpopActive, finally).  *)
WaitersAreServed == mode = "open" /\ waiters # <<>> => loop.pc # "off"

(* One enqueue, one hand-over, over second entries, crashes and restarts   *)
(* too: the snapshot the loop hands over has not been handed over before,  *)
(* by the loop or by the fast path of enqueue.  A message may be, since an *)
(* older entry of a resumed task still comes with the older snapshot.      *)
HandedOnce == [][LoopDelivers => loop.task \notin handed]_vars

(* A task taken off the queue before any worker picked it up is not handed *)
(* to one ("to drop a PENDING task before any worker picks it up",         *)
(* task-storage.ts).                                                       *)
RevokedStaysOff ==
  [][LoopDelivers => \A r \in loop.task.messages : due[r] # "revoked"]_vars

(* While a worker waits, entries are popped: each owed message is handed   *)
(* over, unless all waiters are served or give up, or something fails.     *)
OwedIsHandedOver ==
  \A r \in Request :
    due[r] = "owed" /\ waiters # <<>> ~> due[r] # "owed" \/ waiters = <<>>
=============================================================================
