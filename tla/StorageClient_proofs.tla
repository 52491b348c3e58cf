------------------------ MODULE StorageClient_proofs ------------------------
(***************************************************************************)
(* Proofs about StorageClient, for every value of its constants: its type  *)
(* invariant, the hand-off discipline of the queue, the agreement of the   *)
(* two maps and the context index, and that the queue is a WorkQueue.      *)
(***************************************************************************)
EXTENDS StorageClient, TaskStorage_proofs

-----------------------------------------------------------------------------
(* The type invariant                                                      *)

LEMMA TypeOKParts ==
  /\ TypeOK => MapsTyped /\ QueueTyped /\ ConfigsTyped /\ home \in [TaskId -> Context \cup {NoContext}]
  /\ MapsTyped' /\ QueueTyped' /\ ConfigsTyped' /\ (home \in [TaskId -> Context \cup {NoContext}])'
       => TypeOK'
BY DEF TypeOK, StorageTypeOK, MapsTyped, QueueTyped, ConfigsTyped

(* Dead letters are evicted a set of ids at a time.                        *)
LEMMA CleanUpEvicts ==
  ASSUME CleanUp
  PROVE  \E ids \in SUBSET TaskId : evict(ids) /\ \A id \in ids : deadLetterTasks[id] # NoTask
<1>1. CASE cleanupCompleted
  BY <1>1 DEF cleanupCompleted, DeadIn
<1>2. CASE \E completedCap, failedCap \in RetentionCaps :
             cleanupTasksWithRetention(completedCap, failedCap)
  BY <1>2, RetentionEvicts
<1> QED  BY <1>1, <1>2 DEF CleanUp

(* The tasks the client stores.                                            *)
LEMMA ClientTasks ==
  ASSUME TypeOK, NEW id \in TaskId
  PROVE  /\ \A c \in Context, state \in TASK_STATE :
              /\ createTask(id, c, {}) \in Task
              /\ [createTask(id, c, {}) EXCEPT !.state = state] \in Task
         /\ \A state \in TASK_STATE : isActive(id) =>
              transitionTask(activeTasks[id], state) \in Task
         /\ \A state \in TASK_STATE : Issued(id) => Snapshot(id, state) \in Task
BY DEF TypeOK, StorageTypeOK, createTask, transitionTask, isActive, Issued, Snapshot, Task, TASK_STATE

LEMMA InitType == Init => TypeOK
BY EmptySeq DEF Init, StorageInit, TypeOK, StorageTypeOK

LEMMA NextType == TypeOK /\ [Next]_clientVars => TypeOK'
<1> SUFFICES ASSUME TypeOK, [Next]_clientVars
             PROVE  TypeOK'
  OBVIOUS
<1>0. /\ MapsTyped
      /\ QueueTyped
      /\ ConfigsTyped
      /\ home \in [TaskId -> Context \cup {NoContext}]
  BY TypeOKParts
<1>1. ASSUME NEW id \in TaskId, NEW c \in Context, EnqueueNew(id, c)
      PROVE  TypeOK'
  <2>1. createTask(id, c, {}) \in Task
    BY ClientTasks DEF createTask, Task, TASK_STATE
  <2>2. MapsTyped' /\ QueueTyped'
    BY <1>0, <1>1, <2>1, SetActiveType, OfferType DEF EnqueueNew, enqueue
  <2> QED  BY <1>0, <1>1, <2>2, TypeOKParts DEF EnqueueNew, Issue, ConfigsTyped
<1>2. ASSUME NEW id \in TaskId, NEW c \in Context, NEW state \in TASK_STATE,
             Recreate(id, c, state)
      PROVE  TypeOK'
  <2>1. MapsTyped'
    BY <1>0, <1>2, ClientTasks, SetActiveType DEF Recreate, createActive
  <2> QED
    BY <1>0, <1>2, <2>1, TypeOKParts DEF Recreate, Issue, QueueTyped, ConfigsTyped, queueVars
<1>3. ASSUME NEW id \in TaskId, EnqueueResumed(id)
      PROVE  TypeOK'
  <2>1. transitionTask(activeTasks[id], "IN_PROGRESS") \in Task
    BY <1>3, ClientTasks DEF EnqueueResumed, TASK_STATE
  <2>2. MapsTyped' /\ QueueTyped'
    BY <1>0, <1>3, <2>1, SetActiveType, OfferType DEF EnqueueResumed, enqueue
  <2> QED  BY <1>0, <1>3, <2>2, TypeOKParts DEF EnqueueResumed, ConfigsTyped
<1>4. ASSUME NEW id \in TaskId, Unqueue(id)
      PROVE  TypeOK'
  <2>1. QueueTyped'
    BY <1>0, <1>4, RemoveFromQueueType DEF Unqueue
  <2> QED  BY <1>0, <1>4, <2>1, TypeOKParts DEF Unqueue, mapVars, MapsTyped, ConfigsTyped
<1>5. ASSUME NEW id \in TaskId, NEW state \in TASK_STATE, Update(id, state)
      PROVE  TypeOK'
  <2>1. transitionTask(activeTasks[id], state) \in Task
    BY <1>5, ClientTasks DEF Update
  <2>2. MapsTyped'
    BY <1>0, <1>5, <2>1, SetActiveType DEF Update, updateActive
  <2> QED
    BY <1>0, <1>5, <2>2, TypeOKParts DEF Update, QueueTyped, ConfigsTyped, queueVars
<1>6. ASSUME NEW id \in TaskId, NEW state \in TASK_STATE, Retire(id, state)
      PROVE  TypeOK'
  <2>1. MapsTyped'
    BY <1>0, <1>6, ClientTasks, StoreDeadLetterType DEF Retire
  <2> QED
    BY <1>0, <1>6, <2>1, TypeOKParts DEF Retire, QueueTyped, ConfigsTyped, queueVars
<1>7. ASSUME NEW w \in Worker, WorkerStep(w)
      PROVE  TypeOK'
  <2>1. QueueTyped'
    <3>1. CASE dequeue(w)
      BY <1>0, <3>1, DequeueType
    <3>2. CASE abortDequeue(w)
      BY <1>0, <3>2, AbortDequeueType
    <3>3. CASE useResolved(w)
      BY <1>0, <3>3 DEF useResolved, QueueTyped
    <3> QED  BY <1>7, <3>1, <3>2, <3>3 DEF WorkerStep
  <2> QED  BY <1>0, <1>7, <2>1, TypeOKParts DEF WorkerStep, mapVars, MapsTyped, ConfigsTyped
<1>8. ASSUME CleanUp
      PROVE  TypeOK'
  <2>1. MapsTyped'
    BY <1>0, <1>8, CleanUpEvicts, EvictType
  <2> QED
    BY <1>0, <1>8, <2>1, TypeOKParts DEF CleanUp, QueueTyped, ConfigsTyped, queueVars
<1>9. ASSUME NEW c \in Context, DropContext(c)
      PROVE  TypeOK'
  <2>1. QueueTyped'
    BY <1>0, <1>9, KeepInQueueType DEF DropContext, deleteContext
  <2>2. MapsTyped' /\ ConfigsTyped'
    BY <1>0, <1>9 DEF DropContext, deleteContext, MapsTyped, ConfigsTyped
  <2> QED  BY <1>0, <1>9, <2>1, <2>2, TypeOKParts DEF DropContext
<1>10. ASSUME NEW id \in TaskId, NEW config \in ConfigId, Configure(id, config)
       PROVE  TypeOK'
  <2>1. ConfigsTyped'
    BY <1>0, <1>10 DEF Configure, setPushConfig, deletePushConfig, ConfigsTyped
  <2> QED
    BY <1>0, <1>10, <2>1, TypeOKParts DEF Configure, MapsTyped, QueueTyped, mapVars, queueVars
<1>11. CASE UNCHANGED clientVars
  BY <1>11 DEF clientVars, storageVars, mapVars, queueVars, TypeOK, StorageTypeOK
<1>12. \A s \in TASK_STATE \ TERMINAL_STATES : s \in TASK_STATE
  OBVIOUS
<1> QED
  BY <1>1, <1>2, <1>3, <1>4, <1>5, <1>6, <1>7, <1>8, <1>9, <1>10, <1>11, <1>12 DEF Next

(* The storage keeps its shape under every legal sequence of calls.        *)
THEOREM TypeCorrect == Spec => []TypeOK
BY InitType, NextType, PTL DEF Spec

-----------------------------------------------------------------------------
(* The hand-off discipline                                                 *)

LEMMA NextHandoff ==
  TypeOK /\ HandoffDiscipline /\ [Next]_clientVars => HandoffDiscipline'
<1> SUFFICES ASSUME TypeOK, HandoffDiscipline, [Next]_clientVars
             PROVE  HandoffDiscipline'
  OBVIOUS
<1>0. QueueTyped
  BY TypeOKParts
<1>1. ASSUME UNCHANGED queueVars
      PROVE  HandoffDiscipline'
  BY <1>1 DEF queueVars, HandoffDiscipline
<1>2. ASSUME NEW id \in TaskId, NEW c \in Context, EnqueueNew(id, c)
      PROVE  HandoffDiscipline'
  <2>1. createTask(id, c, {}) \in Task
    BY DEF createTask, Task, TASK_STATE
  <2> QED  BY <1>0, <1>2, <2>1, OfferHandoff DEF EnqueueNew, enqueue
<1>3. ASSUME NEW id \in TaskId, EnqueueResumed(id)
      PROVE  HandoffDiscipline'
  <2>1. transitionTask(activeTasks[id], "IN_PROGRESS") \in Task
    BY <1>3, ClientTasks DEF EnqueueResumed, TASK_STATE
  <2> QED  BY <1>0, <1>3, <2>1, OfferHandoff DEF EnqueueResumed, enqueue
<1>4. ASSUME NEW id \in TaskId, Unqueue(id)
      PROVE  HandoffDiscipline'
  BY <1>0, <1>4, RemoveFromQueueHandoff DEF Unqueue
<1>5. ASSUME NEW w \in Worker, WorkerStep(w)
      PROVE  HandoffDiscipline'
  <2>1. CASE dequeue(w)
    BY <1>0, <2>1, DequeueHandoff
  <2>2. CASE abortDequeue(w)
    BY <1>0, <2>2, AbortDequeueHandoff
  <2>3. CASE useResolved(w)
    BY <1>0, <2>3 DEF useResolved, HandoffDiscipline, QueueTyped
  <2> QED  BY <1>5, <2>1, <2>2, <2>3 DEF WorkerStep
<1>6. ASSUME NEW c \in Context, DropContext(c)
      PROVE  HandoffDiscipline'
  <2>1. UNCHANGED <<waiters, resolved>> /\ (queue = <<>> => queue' = <<>>)
    BY <1>0, <1>6, KeepInQueueType DEF DropContext, deleteContext, keepInQueue
  <2> QED  BY <2>1 DEF HandoffDiscipline
<1>7. CASE UNCHANGED clientVars
  BY <1>1, <1>7 DEF clientVars, storageVars
<1> QED
  BY <1>1, <1>2, <1>3, <1>4, <1>5, <1>6, <1>7
     DEF Next, Recreate, Update, Retire, CleanUp, Configure

(* While a worker waits nothing is queued, nobody stands in the line twice,*)
(* and who has been handed a task has left it: whatever the numbers of     *)
(* tasks and workers.                                                      *)
THEOREM HandoffCorrect == Spec => []HandoffDiscipline
<1>1. Init => HandoffDiscipline
  BY DEF Init, StorageInit, HandoffDiscipline
<1> QED  BY <1>1, NextHandoff, TypeCorrect, PTL DEF Spec

-----------------------------------------------------------------------------
(* The maps and the index                                                  *)

(* Inductive: a stored task stands under its own id, in the context its id *)
(* was issued with.  Neither OneLocation nor IndexExact is inductive       *)
(* without it: a fresh id could be a dead letter already, and evicting a   *)
(* task would unindex it from another context than the one it is under.    *)
Filed ==
  \A id \in TaskId :
    /\ activeTasks[id] # NoTask => activeTasks[id].id = id /\ activeTasks[id].context = home[id]
    /\ deadLetterTasks[id] # NoTask =>
         deadLetterTasks[id].id = id /\ deadLetterTasks[id].context = home[id]

StoreInvariant == Filed /\ OneLocation /\ IndexExact

LEMMA StoredIsIssued ==
  ASSUME TypeOK, Filed, NEW id \in TaskId, Known(id)
  PROVE  Issued(id)
BY NoContextAssumption DEF TypeOK, StorageTypeOK, Filed, Known, getTask, isActive, Issued, Task

(* Storing a task under its id, where no dead letter is, files it.         *)
LEMMA SetActiveFiles ==
  ASSUME TypeOK, StoreInvariant, NEW task \in Task, setActive(task),
         deadLetterTasks[task.id] = NoTask,
         home'[task.id] = task.context,
         \A id \in TaskId \ {task.id} : home'[id] = home[id],
         Known(task.id) => home[task.id] = task.context
  PROVE  StoreInvariant'
<1> USE NoTaskAssumption
<1>0. /\ task.id \in TaskId /\ task.context \in Context
      /\ activeTasks \in [TaskId -> Task \cup {NoTask}]
      /\ deadLetterTasks \in [TaskId -> Task \cup {NoTask}]
      /\ contextIndex \in [Context -> SUBSET TaskId]
  BY DEF TypeOK, StorageTypeOK, Task
<1>1. /\ activeTasks' = [activeTasks EXCEPT ![task.id] = task]
      /\ contextIndex' = [contextIndex EXCEPT ![task.context] = @ \cup {task.id}]
      /\ deadLetterTasks' = deadLetterTasks
  BY DEF setActive, indexContext
<1>2. Filed'
  BY <1>0, <1>1 DEF Filed, StoreInvariant
<1>3. OneLocation'
  BY <1>0, <1>1 DEF OneLocation, StoreInvariant, isActive
<1>4. IndexExact'
  BY <1>0, <1>1 DEF IndexExact, StoreInvariant, Known, getTask, isActive
<1> QED  BY <1>2, <1>3, <1>4 DEF StoreInvariant

LEMMA StoreDeadLetterFiles ==
  ASSUME TypeOK, StoreInvariant, NEW task \in Task, storeDeadLetter(task),
         home[task.id] = task.context, home' = home
  PROVE  StoreInvariant'
<1> USE NoTaskAssumption
<1>0. /\ task.id \in TaskId /\ task.context \in Context
      /\ activeTasks \in [TaskId -> Task \cup {NoTask}]
      /\ deadLetterTasks \in [TaskId -> Task \cup {NoTask}]
      /\ contextIndex \in [Context -> SUBSET TaskId]
  BY DEF TypeOK, StorageTypeOK, Task
<1>1. /\ activeTasks' = [activeTasks EXCEPT ![task.id] = NoTask]
      /\ contextIndex' = [contextIndex EXCEPT ![task.context] = @ \cup {task.id}]
      /\ deadLetterTasks' = [deadLetterTasks EXCEPT ![task.id] = task]
  BY DEF storeDeadLetter, indexContext
<1>2. Filed'
  BY <1>0, <1>1 DEF Filed, StoreInvariant
<1>3. OneLocation'
  BY <1>0, <1>1 DEF OneLocation, StoreInvariant, isActive
<1>4. IndexExact'
  BY <1>0, <1>1 DEF IndexExact, StoreInvariant, Known, getTask, isActive
<1> QED  BY <1>2, <1>3, <1>4 DEF StoreInvariant

LEMMA EvictFiles ==
  ASSUME TypeOK, StoreInvariant, NEW ids \in SUBSET TaskId, evict(ids), home' = home,
         \A id \in ids : deadLetterTasks[id] # NoTask
  PROVE  StoreInvariant'
<1> USE NoTaskAssumption
<1>0. /\ activeTasks \in [TaskId -> Task \cup {NoTask}]
      /\ deadLetterTasks \in [TaskId -> Task \cup {NoTask}]
      /\ contextIndex \in [Context -> SUBSET TaskId]
  BY DEF TypeOK, StorageTypeOK
<1>1. /\ activeTasks' = activeTasks
      /\ deadLetterTasks' = [id \in TaskId |-> IF id \in ids THEN NoTask ELSE deadLetterTasks[id]]
      /\ contextIndex' = [c \in Context |->
                            contextIndex[c] \ {id \in ids : deadLetterTasks[id].context = c}]
  BY DEF evict, unindexContext
<1>2. Filed'
  BY <1>0, <1>1 DEF Filed, StoreInvariant
<1>3. OneLocation'
  BY <1>0, <1>1 DEF OneLocation, StoreInvariant, isActive
<1>4. \A id \in ids : activeTasks[id] = NoTask /\ deadLetterTasks[id].context = home[id]
  BY DEF Filed, OneLocation, StoreInvariant, isActive
<1>5. IndexExact'
  BY <1>0, <1>1, <1>4 DEF IndexExact, StoreInvariant, Known, getTask, isActive
<1> QED  BY <1>2, <1>3, <1>5 DEF StoreInvariant

LEMMA DeleteContextFiles ==
  ASSUME TypeOK, StoreInvariant, NEW c \in Context, deleteContext(c), home' = home
  PROVE  StoreInvariant'
<1> USE NoTaskAssumption
<1>0. /\ activeTasks \in [TaskId -> Task \cup {NoTask}]
      /\ deadLetterTasks \in [TaskId -> Task \cup {NoTask}]
      /\ contextIndex \in [Context -> SUBSET TaskId]
  BY DEF TypeOK, StorageTypeOK
<1> DEFINE ids == contextIndex[c]
<1>1. /\ activeTasks' = [id \in TaskId |-> IF id \in ids THEN NoTask ELSE activeTasks[id]]
      /\ deadLetterTasks' = [id \in TaskId |-> IF id \in ids THEN NoTask ELSE deadLetterTasks[id]]
      /\ contextIndex' = [contextIndex EXCEPT ![c] = {}]
  BY DEF deleteContext
<1>2. Filed'
  BY <1>0, <1>1 DEF Filed, StoreInvariant
<1>3. OneLocation'
  BY <1>0, <1>1 DEF OneLocation, StoreInvariant, isActive
<1>4. \A id \in TaskId : id \in ids <=> Known(id) /\ home[id] = c
  BY DEF IndexExact, StoreInvariant
<1> HIDE DEF ids
<1>5. IndexExact'
  BY <1>0, <1>1, <1>4 DEF IndexExact, StoreInvariant, Known, getTask, isActive
<1> QED  BY <1>2, <1>3, <1>5 DEF StoreInvariant

LEMMA NextFiles == TypeOK /\ StoreInvariant /\ [Next]_clientVars => StoreInvariant'
<1> USE NoTaskAssumption
<1> SUFFICES ASSUME TypeOK, StoreInvariant, [Next]_clientVars
             PROVE  StoreInvariant'
  OBVIOUS
<1>1. ASSUME UNCHANGED <<mapVars, home>>
      PROVE  StoreInvariant'
  BY <1>1 DEF mapVars, StoreInvariant, Filed, OneLocation, IndexExact, Known, getTask, isActive
<1>2. ASSUME NEW id \in TaskId, NEW c \in Context, NEW state \in TASK_STATE, Issue(id, c),
             setActive([createTask(id, c, {}) EXCEPT !.state = state])
      PROVE  StoreInvariant'
  <2> DEFINE task == [createTask(id, c, {}) EXCEPT !.state = state]
  <2>1. task \in Task /\ task.id = id /\ task.context = c
    BY DEF createTask, Task
  <2>2. ~Known(id)
    BY <1>2, StoredIsIssued DEF Issue, StoreInvariant
  <2>3. deadLetterTasks[id] = NoTask
    BY <2>2 DEF Known, getTask, isActive
  <2>4. home'[id] = c /\ \A other \in TaskId \ {id} : home'[other] = home[other]
    BY <1>2 DEF Issue, TypeOK
  <2> HIDE DEF task
  <2> QED  BY <1>2, <2>1, <2>2, <2>3, <2>4, SetActiveFiles DEF task
<1>3. ASSUME NEW id \in TaskId, NEW state \in TASK_STATE, isActive(id),
             setActive(transitionTask(activeTasks[id], state)), UNCHANGED home
      PROVE  StoreInvariant'
  <2> DEFINE task == transitionTask(activeTasks[id], state)
  <2>1. task \in Task
    BY <1>3, ClientTasks
  <2>2. task.id = id /\ task.context = home[id]
    BY <1>3 DEF Filed, StoreInvariant, isActive, transitionTask, TypeOK, StorageTypeOK, Task
  <2>3. deadLetterTasks[id] = NoTask
    BY <1>3 DEF OneLocation, StoreInvariant
  <2> HIDE DEF task
  <2> QED  BY <1>3, <2>1, <2>2, <2>3, SetActiveFiles DEF task
<1>4. ASSUME NEW id \in TaskId, NEW c \in Context, EnqueueNew(id, c)
      PROVE  StoreInvariant'
  <2>1. createTask(id, c, {}) = [createTask(id, c, {}) EXCEPT !.state = "PENDING"]
    BY DEF createTask
  <2> QED  BY <1>2, <1>4, <2>1 DEF EnqueueNew, enqueue, TASK_STATE
<1>5. ASSUME NEW id \in TaskId, NEW state \in TASK_STATE, Retire(id, state)
      PROVE  StoreInvariant'
  <2>1. Snapshot(id, state) \in Task
    BY <1>5, ClientTasks DEF Retire
  <2>2. Snapshot(id, state).id = id /\ Snapshot(id, state).context = home[id]
    BY DEF Snapshot
  <2> QED  BY <1>5, <2>1, <2>2, StoreDeadLetterFiles DEF Retire
<1>6. ASSUME CleanUp
      PROVE  StoreInvariant'
  <2>1. \E ids \in SUBSET TaskId : evict(ids) /\ \A id \in ids : deadLetterTasks[id] # NoTask
    BY <1>6, CleanUpEvicts
  <2> QED  BY <1>6, <2>1, EvictFiles DEF CleanUp
<1>7. ASSUME NEW c \in Context, DropContext(c)
      PROVE  StoreInvariant'
  BY <1>7, DeleteContextFiles DEF DropContext
<1>8. CASE UNCHANGED clientVars
  BY <1>1, <1>8 DEF clientVars, storageVars
<1>9. ASSUME NEW id \in TaskId, NEW c \in Context,
             NEW state \in TASK_STATE \ TERMINAL_STATES, Recreate(id, c, state)
      PROVE  StoreInvariant'
  BY <1>2, <1>9 DEF Recreate, createActive
<1>10. ASSUME NEW id \in TaskId, EnqueueResumed(id)
       PROVE  StoreInvariant'
  BY <1>3, <1>10 DEF EnqueueResumed, enqueue, TASK_STATE
<1>11. ASSUME NEW id \in TaskId, NEW state \in TASK_STATE, Update(id, state)
       PROVE  StoreInvariant'
  BY <1>3, <1>11 DEF Update, updateActive
<1> QED
  BY <1>1, <1>4, <1>5, <1>6, <1>7, <1>8, <1>9, <1>10, <1>11
     DEF Next, Unqueue, WorkerStep, Configure

(* The maps are disjoint and the context index is exact under every legal  *)
(* sequence of calls.                                                      *)
THEOREM StoreCorrect == Spec => [](OneLocation /\ IndexExact)
<1>1. Init => StoreInvariant
  BY DEF Init, StorageInit, StoreInvariant, Filed, OneLocation, IndexExact, Known, getTask, isActive
<1>2. StoreInvariant => OneLocation /\ IndexExact
  BY DEF StoreInvariant
<1> QED  BY <1>1, <1>2, NextFiles, TypeCorrect, PTL DEF Spec

-----------------------------------------------------------------------------
(* The queue implements WorkQueue                                          *)

(* Settling when one side holds a single element and the other is empty or *)
(* not: the pair is made, or nothing happens.                              *)
LEMMA SettleOne ==
  ASSUME NEW b \in Seq(Task), NEW d \in Seq(Worker), NEW held,
         b # <<>>, d # <<>>, Len(b) = 1 \/ Len(d) = 1,
         queue' = Tail(b), waiters' = Tail(d),
         resolved' = [w \in Worker |-> IF w = d[1] THEN b[1] ELSE held[w]]
  PROVE  Q!Settle(b, d, held)
<1>1. Len(b) \in Nat \ {0} /\ Len(d) \in Nat \ {0}
  BY EmptySeq
<1> DEFINE paired == IF Len(b) < Len(d) THEN Len(b) ELSE Len(d)
<1>2. paired = 1
  BY <1>1
<1>3. Tail(b) = SubSeq(b, 2, Len(b)) /\ Tail(d) = SubSeq(d, 2, Len(d))
  BY TailIsSubSeq
<1>4. \A w \in Worker :
        (IF \E i \in 1..paired : d[i] = w
         THEN b[CHOOSE i \in 1..paired : d[i] = w] ELSE held[w])
        = (IF w = d[1] THEN b[1] ELSE held[w])
  <2> SUFFICES ASSUME NEW w \in Worker
               PROVE  (IF \E i \in 1..1 : d[i] = w
                       THEN b[CHOOSE i \in 1..1 : d[i] = w] ELSE held[w])
                      = (IF w = d[1] THEN b[1] ELSE held[w])
    BY <1>2
  <2>1. CASE w = d[1]
    <3>1. \E i \in 1..1 : d[i] = w
      BY <2>1
    <3>2. (CHOOSE i \in 1..1 : d[i] = w) \in 1..1
      BY <3>1
    <3> QED  BY <2>1, <3>1, <3>2
  <2>2. CASE w # d[1]
    BY <2>2
  <2> QED  BY <2>1, <2>2
<1> HIDE DEF paired
<1>5. /\ queue' = SubSeq(b, paired + 1, Len(b))
      /\ waiters' = SubSeq(d, paired + 1, Len(d))
  BY <1>2, <1>3
<1> QED  BY <1>4, <1>5 DEF paired, Q!Settle

LEMMA SettleNone ==
  ASSUME NEW b \in Seq(Task), NEW d \in Seq(Worker), NEW held,
         b = <<>> \/ d = <<>>,
         queue' = b, waiters' = d, resolved' = [w \in Worker |-> held[w]]
  PROVE  Q!Settle(b, d, held)
<1> DEFINE paired == IF Len(b) < Len(d) THEN Len(b) ELSE Len(d)
<1>1. Len(b) \in Nat /\ Len(d) \in Nat
  BY LenProperties
<1>2. paired = 0
  BY <1>1, EmptySeq
<1>3. SubSeq(b, 1, Len(b)) = b /\ SubSeq(d, 1, Len(d)) = d
  BY SubSeqFull
<1> HIDE DEF paired
<1>4. ~\E i \in 1..paired : TRUE
  BY <1>2
<1>5. \A w \in Worker :
        (IF \E i \in 1..paired : d[i] = w
         THEN b[CHOOSE i \in 1..paired : d[i] = w] ELSE held[w]) = held[w]
  BY <1>4
<1>6. /\ queue' = SubSeq(b, paired + 1, Len(b))
      /\ waiters' = SubSeq(d, paired + 1, Len(d))
  BY <1>2, <1>3
<1> QED  BY <1>5, <1>6 DEF paired, Q!Settle

LEMMA OfferSubmits ==
  ASSUME QueueTyped, HandoffDiscipline, NEW task \in Task, offer(task)
  PROVE  Q!Submit(task)
<1>1. /\ Append(queue, task) \in Seq(Task)
      /\ Append(queue, task) # <<>>
  BY AppendProperties DEF QueueTyped
<1>2. CASE waiters # <<>>
  <2>1. queue = <<>>
    BY <1>2 DEF HandoffDiscipline
  <2>2. /\ Append(queue, task)[1] = task
        /\ Len(Append(queue, task)) = 1
        /\ Tail(Append(queue, task)) = <<>>
    BY <2>1
  <2>3. Head(waiters) = waiters[1]
    OBVIOUS
  <2>4. /\ queue' = Tail(Append(queue, task))
        /\ waiters' = Tail(waiters)
        /\ resolved' = [w \in Worker |-> IF w = waiters[1] THEN Append(queue, task)[1]
                                        ELSE resolved[w]]
    BY <1>2, <2>1, <2>2, <2>3 DEF offer, QueueTyped
  <2> QED  BY <1>1, <1>2, <2>2, <2>4, SettleOne DEF QueueTyped, Q!Submit
<1>3. CASE waiters = <<>>
  <2>1. /\ queue' = Append(queue, task)
        /\ waiters' = waiters
        /\ resolved' = [w \in Worker |-> resolved[w]]
    BY <1>3 DEF offer, QueueTyped
  <2> QED  BY <1>1, <1>3, <2>1, SettleNone DEF QueueTyped, Q!Submit
<1> QED  BY <1>2, <1>3

LEMMA DequeueRequests ==
  ASSUME QueueTyped, HandoffDiscipline, NEW w \in Worker, dequeue(w)
  PROVE  Q!Ask(w)
<1> DEFINE held == [resolved EXCEPT ![w] = NoTask]
<1>1. /\ Append(waiters, w) \in Seq(Worker)
      /\ Append(waiters, w) # <<>>
  BY AppendProperties DEF QueueTyped
<1>2. Q!Settle(queue, Append(waiters, w), held)
  <2>1. CASE queue # <<>>
    <3>1. waiters = <<>>
      BY <2>1 DEF HandoffDiscipline
    <3>2. /\ Append(waiters, w)[1] = w
          /\ Len(Append(waiters, w)) = 1
          /\ Tail(Append(waiters, w)) = <<>>
      BY <3>1
    <3>3. Head(queue) = queue[1]
      OBVIOUS
    <3>4. /\ queue' = Tail(queue)
          /\ waiters' = Tail(Append(waiters, w))
          /\ resolved' = [v \in Worker |-> IF v = Append(waiters, w)[1] THEN queue[1]
                                          ELSE held[v]]
      BY <2>1, <3>1, <3>2, <3>3 DEF dequeue, QueueTyped
    <3> HIDE DEF held
    <3> QED  BY <1>1, <2>1, <3>2, <3>4, SettleOne DEF QueueTyped
  <2>2. CASE queue = <<>>
    <3>1. /\ queue' = queue
          /\ waiters' = Append(waiters, w)
          /\ resolved' = [v \in Worker |-> held[v]]
      BY <2>2 DEF dequeue, QueueTyped
    <3> HIDE DEF held
    <3> QED  BY <1>1, <2>2, <3>1, SettleNone DEF QueueTyped
  <2> QED  BY <2>1, <2>2
<1> QED  BY <1>2 DEF dequeue, isWaiting, Q!Ask

LEMMA RemoveFromQueueWithdraws ==
  ASSUME QueueTyped, NEW id, removeFromQueue(id)
  PROVE  (\E n \in 0..Len(queue) : Q!Withdraw(n)) \/ UNCHANGED queueVars
<1> SUFFICES ASSUME NEW k \in DOMAIN queue, queue' = RemoveAt(queue, k),
                    UNCHANGED <<waiters, resolved>>
             PROVE  \E n \in 0..Len(queue) : Q!Withdraw(n)
  BY DEF removeFromQueue
<1>1. Len(queue) \in Nat /\ DOMAIN queue = 1..Len(queue)
  BY LenProperties DEF QueueTyped
<1> DEFINE n   == Len(queue) - 1
           pos == [j \in 1..n |-> IF j < k THEN j ELSE j + 1]
<1>2. n \in 0..Len(queue)
  BY <1>1
<1>3. pos \in [1..n -> DOMAIN queue]
  BY <1>1
<1>4. \A i, j \in 1..n : i < j => pos[i] < pos[j]
  BY <1>1
<1>5. queue' = [i \in 1..n |-> queue[pos[i]]]
  <2>1. /\ queue' \in Seq(Task)
        /\ Len(queue') = n
        /\ \A j \in 1..n : queue'[j] = IF j < k THEN queue[j] ELSE queue[j + 1]
    BY <1>1, RemoveAtProperties DEF QueueTyped
  <2>2. DOMAIN queue' = 1..n /\ queue' = [j \in 1..n |-> queue'[j]]
    <3> HIDE DEF n
    <3> QED  BY <2>1, LenProperties
  <2>3. \A j \in 1..n : queue'[j] = queue[pos[j]]
    BY <2>1
  <2> HIDE DEF n, pos
  <2> QED  BY <2>2, <2>3
<1> HIDE DEF n, pos
<1> QED  BY <1>2, <1>3, <1>4, <1>5 DEF Q!Withdraw

LEMMA KeepInQueueWithdraws ==
  ASSUME QueueTyped, NEW keep \in SUBSET DOMAIN queue, keepInQueue(keep)
  PROVE  \E n \in 0..Len(queue) : Q!Withdraw(n)
<1>1. Len(queue) \in Nat /\ DOMAIN queue = 1..Len(queue)
  BY LenProperties DEF QueueTyped
<1> DEFINE n == Cardinality(keep)
<1>2. n \in 0..Len(queue)
  <2>1. IsFiniteSet(1..Len(queue)) /\ Cardinality(1..Len(queue)) = Len(queue)
    BY <1>1, FS_Interval
  <2>2. IsFiniteSet(keep) /\ n <= Cardinality(1..Len(queue))
    BY <1>1, <2>1, FS_Subset
  <2>3. n \in Nat
    BY <2>2, FS_CardinalityType
  <2> HIDE DEF n
  <2> QED  BY <1>1, <2>1, <2>2, <2>3
<1> HIDE DEF n
<1>3. PICK pos \in [1..n -> keep] :
        /\ \A i, j \in DOMAIN pos : i < j => pos[i] < pos[j]
        /\ queue' = [i \in DOMAIN pos |-> queue[pos[i]]]
  BY DEF keepInQueue, n
<1>4. DOMAIN pos = 1..n /\ pos \in [1..n -> DOMAIN queue]
  BY <1>3
<1> QED  BY <1>2, <1>3, <1>4 DEF keepInQueue, Q!Withdraw

LEMMA StepRefines ==
  TypeOK /\ HandoffDiscipline /\ [Next]_clientVars => [Q!Next]_(Q!vars)
<1> SUFFICES ASSUME TypeOK, HandoffDiscipline, [Next]_clientVars
             PROVE  Q!Next \/ UNCHANGED queueVars
  BY DEF queueVars, Q!vars
<1>0. QueueTyped
  BY TypeOKParts
<1>1. ASSUME NEW id \in TaskId, NEW c \in Context, EnqueueNew(id, c)
      PROVE  Q!Next
  <2>1. createTask(id, c, {}) \in Task
    BY DEF createTask, Task, TASK_STATE
  <2> QED  BY <1>0, <1>1, <2>1, OfferSubmits DEF EnqueueNew, enqueue, Q!Next
<1>2. ASSUME NEW id \in TaskId, EnqueueResumed(id)
      PROVE  Q!Next
  <2>1. transitionTask(activeTasks[id], "IN_PROGRESS") \in Task
    BY <1>2, ClientTasks DEF EnqueueResumed, TASK_STATE
  <2> QED  BY <1>0, <1>2, <2>1, OfferSubmits DEF EnqueueResumed, enqueue, Q!Next
<1>3. ASSUME NEW id \in TaskId, Unqueue(id)
      PROVE  Q!Next \/ UNCHANGED queueVars
  BY <1>0, <1>3, RemoveFromQueueWithdraws DEF Unqueue, Q!Next
<1>4. ASSUME NEW w \in Worker, WorkerStep(w)
      PROVE  Q!Next
  <2>1. CASE dequeue(w)
    BY <1>0, <2>1, DequeueRequests DEF Q!Next
  <2>2. CASE abortDequeue(w)
    BY <2>2 DEF abortDequeue, RemoveAt, Q!GiveUp, Q!RemoveAt, Q!Next
  <2>3. CASE useResolved(w)
    BY <2>3 DEF useResolved, Q!Use, Q!Next
  <2> QED  BY <1>4, <2>1, <2>2, <2>3 DEF WorkerStep
<1>5. ASSUME NEW c \in Context, DropContext(c)
      PROVE  Q!Next
  BY <1>0, <1>5, KeepInQueueWithdraws DEF DropContext, deleteContext, Q!Next
<1>6. CASE UNCHANGED clientVars
  BY <1>6 DEF clientVars, storageVars
<1> QED
  BY <1>1, <1>2, <1>3, <1>4, <1>5, <1>6 DEF Next, Recreate, Update, Retire, CleanUp, Configure

(* The queue of the storage is a FIFO work queue: oldest item to oldest    *)
(* dequeuer, each item to one dequeuer, under every legal sequence of      *)
(* calls.                                                                  *)
THEOREM QueueRefines == Spec => WorkQueueSpec
<1>1. Init => Q!Init
  BY DEF Init, StorageInit, Q!Init
<1> QED  BY <1>1, StepRefines, TypeCorrect, HandoffCorrect, PTL DEF Spec, WorkQueueSpec, Q!Spec
=============================================================================
