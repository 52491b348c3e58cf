------------------------- MODULE TaskStorage_proofs -------------------------
(***************************************************************************)
(* Lemmas about the operations of TaskStorage, whoever calls them: what    *)
(* each of them does to the types of the maps and of the queue, and to the *)
(* hand-off discipline.  The proofs about StorageClient and GuardedSystem  *)
(* rest on them.                                                           *)
(***************************************************************************)
EXTENDS TaskStorage, SequenceTheorems, FiniteSetTheorems, TLAPS

-----------------------------------------------------------------------------
(* Sequences                                                               *)

(* RemoveAt drops the element at i and moves the later ones up.            *)
LEMMA RemoveAtProperties ==
  ASSUME NEW S, NEW s \in Seq(S), NEW i \in 1..Len(s)
  PROVE  /\ RemoveAt(s, i) \in Seq(S)
         /\ Len(RemoveAt(s, i)) = Len(s) - 1
         /\ \A j \in 1..(Len(s) - 1) :
              RemoveAt(s, i)[j] = IF j < i THEN s[j] ELSE s[j + 1]
<1> DEFINE front == SubSeq(s, 1, i - 1)
           back  == SubSeq(s, i + 1, Len(s))
<1>0. Len(s) \in Nat /\ i \in Int
  BY LenProperties
<1>1. \A j \in 1..Len(s) : s[j] \in S
  BY ElementOfSeq
<1>2. /\ front \in Seq(S)
      /\ Len(front) = i - 1
      /\ \A j \in 1..(i - 1) : front[j] = s[j]
  <2>1. \A j \in 1..(i - 1) : s[j] \in S
    BY <1>0, <1>1
  <2>2. 1 \in Int /\ i - 1 \in Int
    BY <1>0
  <2>3. /\ front \in Seq(S)
        /\ Len(front) = IF 1 <= i - 1 THEN (i - 1) - 1 + 1 ELSE 0
        /\ \A j \in 1..((i - 1) - 1 + 1) : front[j] = s[1 + j - 1]
    BY <2>1, <2>2, SubSeqProperties
  <2> QED  BY <2>3, <1>0
<1>3. /\ back \in Seq(S)
      /\ Len(back) = Len(s) - i
      /\ \A j \in 1..(Len(s) - i) : back[j] = s[i + j]
  <2>1. \A j \in (i + 1)..Len(s) : s[j] \in S
    BY <1>0, <1>1
  <2>2. i + 1 \in Int /\ Len(s) \in Int
    BY <1>0
  <2>3. /\ back \in Seq(S)
        /\ Len(back) = IF i + 1 <= Len(s) THEN Len(s) - (i + 1) + 1 ELSE 0
        /\ \A j \in 1..(Len(s) - (i + 1) + 1) : back[j] = s[(i + 1) + j - 1]
    BY <2>1, <2>2, SubSeqProperties
  <2> QED  BY <2>3, <1>0
<1>4. /\ front \o back \in Seq(S)
      /\ Len(front \o back) = Len(front) + Len(back)
      /\ \A j \in 1..(Len(front) + Len(back)) :
           (front \o back)[j] = IF j <= Len(front) THEN front[j] ELSE back[j - Len(front)]
  BY <1>2, <1>3, ConcatProperties
<1> HIDE DEF front, back
<1>5. RemoveAt(s, i) = front \o back
  BY DEF RemoveAt, front, back
<1>6. Len(front) + Len(back) = Len(s) - 1
  BY <1>0, <1>2, <1>3
<1>7. ASSUME NEW j \in 1..(Len(s) - 1)
      PROVE  RemoveAt(s, i)[j] = IF j < i THEN s[j] ELSE s[j + 1]
  <2>1. CASE j < i
    <3>1. j \in 1..(i - 1) /\ j <= Len(front)
      BY <1>0, <1>2, <2>1
    <3> QED  BY <1>2, <1>4, <1>5, <1>6, <2>1, <3>1
  <2>2. CASE ~(j < i)
    <3>1. /\ ~(j <= Len(front))
          /\ j - Len(front) \in 1..(Len(s) - i)
          /\ i + (j - Len(front)) = j + 1
      BY <1>0, <1>2, <2>2
    <3>2. back[j - Len(front)] = s[j + 1]
      BY <1>3, <3>1
    <3> QED  BY <1>4, <1>5, <1>6, <2>2, <3>1, <3>2
  <2> QED  BY <2>1, <2>2
<1> QED  BY <1>4, <1>5, <1>6, <1>7

-----------------------------------------------------------------------------
(* Types, one group of the state at a time                                 *)

MapsTyped ==
  /\ activeTasks \in [TaskId -> Task \cup {NoTask}]
  /\ deadLetterTasks \in [TaskId -> Task \cup {NoTask}]
  /\ contextIndex \in [Context -> SUBSET TaskId]

QueueTyped ==
  /\ queue \in Seq(Task)
  /\ waiters \in Seq(Worker)
  /\ resolved \in [Worker -> Task \cup {NoTask}]

ConfigsTyped == pushConfigs \in [TaskId -> SUBSET ConfigId]

LEMMA SetActiveType ==
  ASSUME MapsTyped, NEW task \in Task, setActive(task)
  PROVE  MapsTyped'
BY DEF MapsTyped, setActive, indexContext, Task

LEMMA StoreDeadLetterType ==
  ASSUME MapsTyped, NEW task \in Task, storeDeadLetter(task)
  PROVE  MapsTyped'
BY DEF MapsTyped, storeDeadLetter, indexContext, Task

LEMMA EvictType ==
  ASSUME MapsTyped, NEW ids \in SUBSET TaskId, evict(ids)
  PROVE  MapsTyped'
BY DEF MapsTyped, evict, unindexContext

(* The retention sweep evicts dead letters only, a set of ids at a time.   *)
LEMMA RetentionEvicts ==
  ASSUME NEW completedCap, NEW failedCap, cleanupTasksWithRetention(completedCap, failedCap)
  PROVE  \E ids \in SUBSET TaskId : evict(ids) /\ \A id \in ids : deadLetterTasks[id] # NoTask
<1>1. PICK keepC \in SUBSET DeadIn({"COMPLETED"}), keepF \in SUBSET DeadIn({"FAILED", "CANCELLED"}) :
        evict((DeadIn({"COMPLETED"}) \ keepC) \cup (DeadIn({"FAILED", "CANCELLED"}) \ keepF))
  BY DEF cleanupTasksWithRetention
<1> QED  BY <1>1 DEF DeadIn

LEMMA OfferType ==
  ASSUME QueueTyped, NEW task \in Task, offer(task)
  PROVE  QueueTyped'
<1>1. CASE waiters # <<>> /\ resolved' = [resolved EXCEPT ![Head(waiters)] = task]
           /\ waiters' = Tail(waiters) /\ UNCHANGED queue
  BY <1>1, HeadTailProperties DEF QueueTyped
<1>2. CASE queue' = Append(queue, task) /\ UNCHANGED <<waiters, resolved>>
  BY <1>2, AppendProperties DEF QueueTyped
<1> QED  BY <1>1, <1>2 DEF offer

LEMMA DequeueType ==
  ASSUME QueueTyped, NEW w \in Worker, dequeue(w)
  PROVE  QueueTyped'
<1>1. CASE queue # <<>> /\ resolved' = [resolved EXCEPT ![w] = Head(queue)]
           /\ queue' = Tail(queue) /\ UNCHANGED waiters
  BY <1>1, HeadTailProperties DEF QueueTyped
<1>2. CASE resolved' = [resolved EXCEPT ![w] = NoTask]
           /\ waiters' = Append(waiters, w) /\ UNCHANGED queue
  BY <1>2, AppendProperties DEF QueueTyped
<1> QED  BY <1>1, <1>2 DEF dequeue

LEMMA AbortDequeueType ==
  ASSUME QueueTyped, NEW w \in Worker, abortDequeue(w)
  PROVE  QueueTyped'
<1>1. PICK i \in DOMAIN waiters : waiters' = RemoveAt(waiters, i) /\ UNCHANGED <<queue, resolved>>
  BY DEF abortDequeue
<1>2. i \in 1..Len(waiters)
  BY <1>1, LenProperties DEF QueueTyped
<1>3. RemoveAt(waiters, i) \in Seq(Worker)
  BY <1>2, RemoveAtProperties DEF QueueTyped
<1> QED  BY <1>1, <1>3 DEF QueueTyped

LEMMA RemoveFromQueueType ==
  ASSUME QueueTyped, NEW id, removeFromQueue(id)
  PROVE  QueueTyped'
<1>1. CASE UNCHANGED queueVars
  BY <1>1 DEF QueueTyped, queueVars
<1>2. ASSUME NEW i \in DOMAIN queue, queue' = RemoveAt(queue, i), UNCHANGED <<waiters, resolved>>
      PROVE  QueueTyped'
  <2>1. i \in 1..Len(queue)
    BY <1>2, LenProperties DEF QueueTyped
  <2>2. RemoveAt(queue, i) \in Seq(Task)
    BY <2>1, RemoveAtProperties DEF QueueTyped
  <2> QED  BY <1>2, <2>2 DEF QueueTyped
<1> QED  BY <1>1, <1>2 DEF removeFromQueue

(* What is left of the queue is a sequence again, and empty if it was.     *)
LEMMA KeepInQueueType ==
  ASSUME QueueTyped, NEW keep \in SUBSET DOMAIN queue, keepInQueue(keep)
  PROVE  QueueTyped' /\ (queue = <<>> => queue' = <<>>)
<1>1. DOMAIN queue = 1..Len(queue) /\ Len(queue) \in Nat
  BY LenProperties DEF QueueTyped
<1>2. IsFiniteSet(keep)
  <2>1. IsFiniteSet(1..Len(queue))
    BY <1>1, FS_Interval
  <2> QED  BY <1>1, <2>1, FS_Subset
<1> DEFINE n == Cardinality(keep)
<1>3. n \in Nat
  BY <1>2, FS_CardinalityType
<1> HIDE DEF n
<1>4. PICK pos \in [1..n -> keep] : queue' = [i \in DOMAIN pos |-> queue[pos[i]]]
  BY DEF keepInQueue, n
<1>5. \A i \in 1..n : queue[pos[i]] \in Task
  BY <1>1, <1>4, ElementOfSeq DEF QueueTyped
<1>6. queue' = [i \in 1..n |-> queue[pos[i]]]
  BY <1>4
<1>7. queue' \in Seq(Task)
  BY <1>3, <1>5, <1>6
<1>8. ASSUME queue = <<>> PROVE queue' = <<>>
  <2>1. keep = {}
    BY <1>1, <1>8
  <2>2. n = 0
    BY <2>1, FS_EmptySet DEF n
  <2> QED  BY <1>6, <2>2
<1> QED  BY <1>7, <1>8 DEF QueueTyped, keepInQueue

-----------------------------------------------------------------------------
(* The hand-off discipline                                                 *)

LEMMA OfferHandoff ==
  ASSUME QueueTyped, HandoffDiscipline, NEW task \in Task, offer(task)
  PROVE  HandoffDiscipline'
<1>1. CASE /\ waiters # <<>>
           /\ resolved' = [resolved EXCEPT ![Head(waiters)] = task]
           /\ waiters' = Tail(waiters)
           /\ UNCHANGED queue
  <2>1. /\ Len(waiters) \in Nat
        /\ DOMAIN waiters = 1..Len(waiters)
        /\ Len(waiters) >= 1
        /\ Head(waiters) = waiters[1]
    BY <1>1, LenProperties, EmptySeq DEF QueueTyped
  <2>2. /\ Len(waiters') = Len(waiters) - 1
        /\ DOMAIN waiters' = 1..Len(waiters')
        /\ \A i \in 1..Len(waiters') : waiters'[i] = waiters[i + 1]
    BY <1>1, HeadTailProperties, LenProperties DEF QueueTyped
  <2>3. \A i \in DOMAIN waiters' : i + 1 \in DOMAIN waiters /\ waiters'[i] = waiters[i + 1]
    BY <2>1, <2>2
  <2>4. \A i, j \in DOMAIN waiters' : waiters'[i] = waiters'[j] => i = j
    BY <2>2, <2>3 DEF HandoffDiscipline
  <2>5. \A i \in DOMAIN waiters' : waiters'[i] # waiters[1]
    BY <2>1, <2>2, <2>3 DEF HandoffDiscipline
  <2>6. \A i \in DOMAIN waiters' : resolved'[waiters'[i]] = NoTask
    BY <1>1, <2>1, <2>3, <2>5 DEF HandoffDiscipline, QueueTyped
  <2> QED  BY <1>1, <2>4, <2>6 DEF HandoffDiscipline
<1>2. CASE waiters = <<>> /\ UNCHANGED <<waiters, resolved>>
  BY <1>2 DEF HandoffDiscipline
<1> QED  BY <1>1, <1>2 DEF offer

LEMMA DequeueHandoff ==
  ASSUME QueueTyped, HandoffDiscipline, NEW w \in Worker, dequeue(w)
  PROVE  HandoffDiscipline'
<1>1. CASE /\ queue # <<>>
           /\ UNCHANGED waiters
  BY <1>1 DEF HandoffDiscipline
<1>2. CASE /\ queue = <<>>
           /\ resolved' = [resolved EXCEPT ![w] = NoTask]
           /\ waiters' = Append(waiters, w)
           /\ UNCHANGED queue
  <2>1. Len(waiters) \in Nat /\ DOMAIN waiters = 1..Len(waiters)
    BY LenProperties DEF QueueTyped
  <2>2. /\ DOMAIN waiters' = 1..(Len(waiters) + 1)
        /\ \A i \in 1..Len(waiters) : waiters'[i] = waiters[i]
        /\ waiters'[Len(waiters) + 1] = w
    BY <1>2, AppendProperties, LenProperties DEF QueueTyped
  <2>3. \A i \in 1..Len(waiters) : waiters[i] # w
    BY <2>1 DEF dequeue, isWaiting
  <2>4. \A i, j \in DOMAIN waiters' : waiters'[i] = waiters'[j] => i = j
    BY <2>1, <2>2, <2>3 DEF HandoffDiscipline
  <2>5. \A i \in DOMAIN waiters' : resolved'[waiters'[i]] = NoTask
    BY <1>2, <2>1, <2>2, <2>3 DEF HandoffDiscipline, QueueTyped
  <2> QED  BY <1>2, <2>4, <2>5 DEF HandoffDiscipline
<1> QED  BY <1>1, <1>2 DEF dequeue, HandoffDiscipline

LEMMA AbortDequeueHandoff ==
  ASSUME QueueTyped, HandoffDiscipline, NEW w \in Worker, abortDequeue(w)
  PROVE  HandoffDiscipline'
<1>1. PICK k \in DOMAIN waiters : waiters' = RemoveAt(waiters, k) /\ UNCHANGED <<queue, resolved>>
  BY DEF abortDequeue
<1>2. Len(waiters) \in Nat /\ DOMAIN waiters = 1..Len(waiters)
  BY LenProperties DEF QueueTyped
<1>3. /\ waiters' \in Seq(Worker)
      /\ Len(waiters') = Len(waiters) - 1
      /\ \A j \in 1..(Len(waiters) - 1) :
           waiters'[j] = IF j < k THEN waiters[j] ELSE waiters[j + 1]
  BY <1>1, <1>2, RemoveAtProperties DEF QueueTyped
<1>4. DOMAIN waiters' = 1..(Len(waiters) - 1)
  BY <1>3, LenProperties
<1> DEFINE old(j) == IF j < k THEN j ELSE j + 1
<1>5. \A j \in DOMAIN waiters' : old(j) \in DOMAIN waiters /\ waiters'[j] = waiters[old(j)]
  BY <1>1, <1>2, <1>3, <1>4
<1>6. \A i, j \in DOMAIN waiters' : old(i) = old(j) => i = j
  BY <1>1, <1>2, <1>4
<1> HIDE DEF old
<1>7. waiters = <<>> => waiters' = <<>>
  BY <1>1
<1> QED  BY <1>1, <1>5, <1>6, <1>7 DEF HandoffDiscipline

LEMMA RemoveFromQueueHandoff ==
  ASSUME QueueTyped, HandoffDiscipline, NEW id, removeFromQueue(id)
  PROVE  HandoffDiscipline'
<1>1. UNCHANGED <<waiters, resolved>> /\ (queue = <<>> => queue' = <<>>)
  BY DEF removeFromQueue, queueVars
<1> QED  BY <1>1 DEF HandoffDiscipline

-----------------------------------------------------------------------------
(* The maps, seen through their two reads                                  *)

LEMMA StoredTasks ==
  ASSUME MapsTyped, NEW id \in TaskId, Known(id)
  PROVE  getTask(id) \in Task
BY DEF MapsTyped, Known, getTask, isActive

LEMMA SetActiveReads ==
  ASSUME MapsTyped, NEW task \in Task, setActive(task)
  PROVE  \A id \in TaskId :
           /\ getTask(id)' = IF id = task.id THEN task ELSE getTask(id)
           /\ isActive(id)' <=> id = task.id \/ isActive(id)
BY NoTaskAssumption DEF MapsTyped, setActive, getTask, isActive, Task

LEMMA StoreDeadLetterReads ==
  ASSUME MapsTyped, NEW task \in Task, storeDeadLetter(task)
  PROVE  \A id \in TaskId :
           /\ getTask(id)' = IF id = task.id THEN task ELSE getTask(id)
           /\ isActive(id)' <=> id # task.id /\ isActive(id)
BY NoTaskAssumption DEF MapsTyped, storeDeadLetter, getTask, isActive, Task

(* An eviction touches no active task.                                     *)
LEMMA EvictReads ==
  ASSUME MapsTyped, NEW ids \in SUBSET TaskId, evict(ids)
  PROVE  \A id \in TaskId :
           /\ getTask(id)' = getTask(id) \/ (~isActive(id) /\ getTask(id)' = NoTask)
           /\ isActive(id)' <=> isActive(id)
BY DEF MapsTyped, evict, getTask, isActive

LEMMA SameMapsReads ==
  ASSUME UNCHANGED mapVars
  PROVE  \A id \in TaskId :
           /\ getTask(id)' = getTask(id)
           /\ isActive(id)' <=> isActive(id)
BY DEF mapVars, getTask, isActive

-----------------------------------------------------------------------------
(* The entries: what is queued, and what was handed to a worker            *)

Entries == ({queue[i] : i \in DOMAIN queue} \cup {resolved[w] : w \in Worker}) \ {NoTask}

SameEntry(e, f) == e.id = f.id /\ e.state = f.state

(* No two places hold an entry for one task in one state.                  *)
EntriesOnce ==
  /\ \A i, j \in DOMAIN queue : SameEntry(queue[i], queue[j]) => i = j
  /\ \A v, w \in Worker :
       resolved[v] # NoTask /\ resolved[w] # NoTask /\ SameEntry(resolved[v], resolved[w])
         => v = w
  /\ \A i \in DOMAIN queue, w \in Worker :
       resolved[w] # NoTask => ~SameEntry(queue[i], resolved[w])

LEMMA EntriesAreTasks ==
  ASSUME QueueTyped
  PROVE  Entries \subseteq Task
<1>1. \A i \in DOMAIN queue : queue[i] \in Task
  BY ElementOfSeq, LenProperties DEF QueueTyped
<1> QED  BY <1>1 DEF Entries, QueueTyped

(* An entry is found in the queue or in a hand.                            *)
LEMMA EntryPlaces ==
  ASSUME QueueTyped, NEW e
  PROVE  e \in Entries <=>
           \/ \E i \in DOMAIN queue : e = queue[i]
           \/ \E w \in Worker : e = resolved[w] /\ resolved[w] # NoTask
<1>1. \A i \in DOMAIN queue : queue[i] # NoTask
  BY NoTaskAssumption, ElementOfSeq, LenProperties DEF QueueTyped
<1> QED  BY <1>1 DEF Entries

LEMMA EntriesDistinct ==
  ASSUME QueueTyped, EntriesOnce, NEW e \in Entries, NEW f \in Entries, SameEntry(e, f)
  PROVE  e = f
BY EntryPlaces DEF EntriesOnce, SameEntry

LEMMA SameQueueEntries ==
  ASSUME UNCHANGED queueVars
  PROVE  /\ Entries' = Entries
         /\ EntriesOnce => EntriesOnce'
         /\ HandoffDiscipline => HandoffDiscipline'
BY DEF queueVars, Entries, EntriesOnce, HandoffDiscipline

(* Offering a task adds one entry: the hand it goes to was empty.          *)
LEMMA OfferEntries ==
  ASSUME QueueTyped, HandoffDiscipline, EntriesOnce, NEW task \in Task, offer(task),
         \A e \in Entries : ~SameEntry(e, task)
  PROVE  EntriesOnce' /\ Entries' = Entries \cup {task}
<1>0. /\ \A i \in DOMAIN queue : queue[i] \in Entries
      /\ \A w \in Worker : resolved[w] # NoTask => resolved[w] \in Entries
  BY EntryPlaces
<1>1. task # NoTask /\ SameEntry(task, task)
  BY NoTaskAssumption DEF SameEntry
<1>2. \A e, f : SameEntry(e, f) <=> SameEntry(f, e)
  BY DEF SameEntry
<1>3. CASE /\ waiters # <<>>
           /\ resolved' = [resolved EXCEPT ![Head(waiters)] = task]
           /\ UNCHANGED queue
  <2>1. PICK v \in Worker : v = Head(waiters) /\ resolved[v] = NoTask
    <3>1. Head(waiters) = waiters[1] /\ 1 \in DOMAIN waiters
      BY <1>3, LenProperties, EmptySeq DEF QueueTyped
    <3>2. waiters[1] \in Worker
      BY <3>1, ElementOfSeq, LenProperties DEF QueueTyped
    <3> QED  BY <3>1, <3>2 DEF HandoffDiscipline
  <2>2. \A w \in Worker : resolved'[w] = IF w = v THEN task ELSE resolved[w]
    BY <1>3, <2>1 DEF QueueTyped
  <2>3. EntriesOnce'
    BY <1>0, <1>1, <1>2, <1>3, <2>1, <2>2 DEF EntriesOnce
  <2>4. Entries' = Entries \cup {task}
    BY <1>1, <1>3, <2>1, <2>2 DEF Entries
  <2> QED  BY <2>3, <2>4
<1>4. CASE queue' = Append(queue, task) /\ UNCHANGED <<waiters, resolved>>
  <2> DEFINE n == Len(queue)
  <2>1. /\ n \in Nat
        /\ DOMAIN queue = 1..n
        /\ DOMAIN queue' = 1..(n + 1)
        /\ \A i \in 1..n : queue'[i] = queue[i]
        /\ queue'[n + 1] = task
    BY <1>4, AppendProperties, LenProperties DEF QueueTyped
  <2> HIDE DEF n
  <2>2. \A i \in DOMAIN queue' : i = n + 1 \/ i \in DOMAIN queue
    BY <2>1
  <2>3. n + 1 \in DOMAIN queue' /\ \A i \in DOMAIN queue : i \in DOMAIN queue'
    BY <2>1
  <2>4. \A i \in DOMAIN queue : queue'[i] = queue[i]
    BY <2>1
  <2>5. EntriesOnce'
    BY <1>0, <1>1, <1>2, <1>4, <2>1, <2>2, <2>4 DEF EntriesOnce
  <2>6. Entries' = Entries \cup {task}
    BY <1>1, <1>4, <2>1, <2>2, <2>3, <2>4 DEF Entries
  <2> QED  BY <2>5, <2>6
<1> QED  BY <1>3, <1>4 DEF offer

(* A worker that asks again is done with the entry it held.                *)
LEMMA DequeueEntries ==
  ASSUME QueueTyped, EntriesOnce, NEW w \in Worker, dequeue(w)
  PROVE  EntriesOnce' /\ Entries' = Entries \ {resolved[w]}
<1>1. CASE /\ queue # <<>>
           /\ resolved' = [resolved EXCEPT ![w] = Head(queue)]
           /\ queue' = Tail(queue)
  <2> DEFINE n == Len(queue)
  <2>1. /\ n \in Nat
        /\ n >= 1
        /\ DOMAIN queue = 1..n
        /\ Head(queue) = queue[1]
    BY <1>1, LenProperties, EmptySeq DEF QueueTyped
  <2>2. DOMAIN queue' = 1..(n - 1) /\ \A i \in 1..(n - 1) : queue'[i] = queue[i + 1]
    BY <1>1, HeadTailProperties, LenProperties DEF QueueTyped
  <2> HIDE DEF n
  <2>3. \A i \in DOMAIN queue' : i + 1 \in DOMAIN queue /\ i + 1 # 1 /\ queue'[i] = queue[i + 1]
    BY <2>1, <2>2
  <2>4. 1 \in DOMAIN queue /\ \A i \in DOMAIN queue : i = 1 \/ (i - 1 \in DOMAIN queue' /\ queue'[i - 1] = queue[i])
    BY <2>1, <2>2
  <2>5. \A v \in Worker : resolved'[v] = IF v = w THEN queue[1] ELSE resolved[v]
    BY <1>1, <2>1 DEF QueueTyped
  <2>6. EntriesOnce'
    <3>1. \A i, j \in DOMAIN queue' : SameEntry(queue'[i], queue'[j]) => i = j
      <4>1. \A i, j \in DOMAIN queue' : i + 1 = j + 1 => i = j
        BY <2>2
      <4> QED  BY <2>3, <4>1 DEF EntriesOnce
    <3>2. \A i \in DOMAIN queue' : ~SameEntry(queue'[i], queue[1]) /\ ~SameEntry(queue[1], queue'[i])
      BY <2>3, <2>4 DEF EntriesOnce
    <3>3. \A v \in Worker : resolved[v] # NoTask =>
            ~SameEntry(queue[1], resolved[v]) /\ ~SameEntry(resolved[v], queue[1])
      BY <2>4 DEF EntriesOnce, SameEntry
    <3> QED  BY <2>3, <2>5, <3>1, <3>2, <3>3 DEF EntriesOnce
  <2>7. \A e : e \in Entries' <=> e \in Entries \ {resolved[w]}
    <3>1. QueueTyped'
      BY DequeueType
    <3>2. queue[1] # NoTask
      BY <2>4, NoTaskAssumption, ElementOfSeq, LenProperties DEF QueueTyped
    <3>3. \A e : e \in Entries' <=> \/ \E i \in DOMAIN queue' : e = queue'[i]
                                    \/ \E v \in Worker : e = resolved'[v] /\ resolved'[v] # NoTask
      <4>1. \A i \in DOMAIN queue' : queue'[i] # NoTask
        BY <3>1, NoTaskAssumption, ElementOfSeq, LenProperties DEF QueueTyped
      <4> QED  BY <4>1 DEF Entries
    <3>4. \A i \in DOMAIN queue : queue[i] # resolved[w]
      BY NoTaskAssumption, ElementOfSeq, LenProperties DEF QueueTyped, EntriesOnce, SameEntry
    <3>5. \A v \in Worker : resolved[v] = resolved[w] /\ resolved[v] # NoTask => v = w
      BY DEF EntriesOnce, SameEntry
    <3>6. ASSUME NEW e PROVE e \in Entries' <=> e \in Entries \ {resolved[w]}
      <4>1. e \in Entries' <=> \/ \E i \in DOMAIN queue : e = queue[i]
                               \/ \E v \in Worker \ {w} : e = resolved[v] /\ resolved[v] # NoTask
        BY <2>3, <2>4, <2>5, <3>2, <3>3
      <4> QED  BY <3>4, <3>5, <4>1, EntryPlaces
    <3> QED  BY <3>6
  <2> QED  BY <2>6, <2>7
<1>2. CASE /\ queue = <<>>
           /\ resolved' = [resolved EXCEPT ![w] = NoTask]
           /\ UNCHANGED queue
  <2>1. \A v \in Worker : resolved'[v] = IF v = w THEN NoTask ELSE resolved[v]
    BY <1>2 DEF QueueTyped
  <2>2. DOMAIN queue = {}
    BY <1>2
  <2>3. EntriesOnce'
    BY <1>2, <2>1 DEF EntriesOnce
  <2>4. \A v \in Worker : resolved[v] = resolved[w] /\ resolved[v] # NoTask => v = w
    BY DEF EntriesOnce, SameEntry
  <2>5. Entries' = Entries \ {resolved[w]}
    BY <1>2, <2>1, <2>2, <2>4 DEF Entries
  <2> QED  BY <2>3, <2>5
<1> QED  BY <1>1, <1>2 DEF dequeue

(* Removing the entry of a task leaves the entries of all others.          *)
LEMMA RemoveFromQueueEntries ==
  ASSUME QueueTyped, EntriesOnce, NEW id, removeFromQueue(id)
  PROVE  /\ EntriesOnce'
         /\ Entries' \subseteq Entries
         /\ \A e \in Entries : e.id # id => e \in Entries'
<1>1. CASE UNCHANGED queueVars
  BY <1>1, SameQueueEntries
<1>2. ASSUME NEW k \in DOMAIN queue, queue[k].id = id, queue' = RemoveAt(queue, k),
             UNCHANGED <<waiters, resolved>>
      PROVE  /\ EntriesOnce'
             /\ Entries' \subseteq Entries
             /\ \A e \in Entries : e.id # id => e \in Entries'
  <2> DEFINE n == Len(queue)
  <2>1. n \in Nat /\ DOMAIN queue = 1..n
    BY LenProperties DEF QueueTyped
  <2>2. /\ DOMAIN queue' = 1..(n - 1)
        /\ \A j \in 1..(n - 1) : queue'[j] = IF j < k THEN queue[j] ELSE queue[j + 1]
    BY <1>2, <2>1, RemoveAtProperties, LenProperties DEF QueueTyped
  <2> HIDE DEF n
  <2> DEFINE old(j) == IF j < k THEN j ELSE j + 1
             new(j) == IF j < k THEN j ELSE j - 1
  <2>3. \A j \in DOMAIN queue' : old(j) \in DOMAIN queue /\ queue'[j] = queue[old(j)]
    BY <1>2, <2>1, <2>2
  <2>4. \A i, j \in DOMAIN queue' : old(i) = old(j) => i = j
    BY <1>2, <2>1, <2>2
  <2>5. \A j \in DOMAIN queue : j = k \/ (new(j) \in DOMAIN queue' /\ queue'[new(j)] = queue[j])
    BY <1>2, <2>1, <2>2
  <2> HIDE DEF old, new
  <2>6. EntriesOnce'
    BY <1>2, <2>3, <2>4 DEF EntriesOnce
  <2>7. Entries' \subseteq Entries
    BY <1>2, <2>3 DEF Entries
  <2>8. \A e \in Entries : e.id # id => e \in Entries'
    BY <1>2, <2>5 DEF Entries
  <2> QED  BY <2>6, <2>7, <2>8
<1> QED  BY <1>1, <1>2 DEF removeFromQueue
=============================================================================
