------------------------ MODULE RedisStorage_proofs ------------------------
(***************************************************************************)
(* Proofs about RedisStorage, for any number of tasks, messages, workers,  *)
(* commands under way, failures and crashes: types; that Redis is about to *)
(* hold what the mirror holds; that no snapshot of a task is handed over   *)
(* twice, whether by the loop or by enqueue; that an owed message is       *)
(* queued, however often its task is enqueued; that no id is active and    *)
(* dead; and that no worker waits beside a stopped loop.                   *)
(***************************************************************************)
EXTENDS RedisStorage, TaskStorage_proofs, SequenceLemmas

-----------------------------------------------------------------------------
(* The order list                                                          *)

(* Unlisted, one element at a time.                                        *)
Unlists(f, s, ids) ==
  /\ f[0] = <<>> /\ Unlisted(s, ids) = f[Len(s)]
  /\ \A k \in 1..Len(s) : f[k] = IF s[k] \in ids THEN f[k - 1] ELSE Append(f[k - 1], s[k])

LEMMA UnlistedUnfolds ==
  ASSUME NEW S, NEW s \in Seq(S), NEW ids
  PROVE  \E f \in [0..Len(s) -> Seq(S)] : Unlists(f, s, ids)
<1> DEFINE n == Len(s)
<1>1. n \in Nat /\ DOMAIN s = 1..n /\ \A k \in 1..n : s[k] \in S
  BY LenProperties, ElementOfSeq
<1> DEFINE step == [p \in Seq(S) \X S |-> IF p[2] \in ids THEN p[1] ELSE Append(p[1], p[2])]
           Folded(it) == it = [w \in SUBSET (1..n) |->
                                 IF w = {} THEN <<>>
                                 ELSE IF s[Max(w)] \in ids THEN it[w \ {Max(w)}]
                                      ELSE Append(it[w \ {Max(w)}], s[Max(w)])]
           iter == CHOOSE it : Folded(it)
<1>2. Folded(iter)
  <2>1. step \in [Seq(S) \X S -> Seq(S)]
    BY AppendProperties
  <2>2. <<>> \in Seq(S)
    OBVIOUS
  <2>3. PICK it \in [SUBSET (1..n) -> Seq(S)] : Folding(it, <<>>, s, n, step)
    <3> HIDE DEF step, n
    <3> QED  BY <1>1, <2>1, <2>2, FoldingExists
  <2>4. ASSUME NEW w \in SUBSET (1..n), w # {}
        PROVE  step[<<it[w \ {Max(w)}], s[Max(w)]>>] =
                 IF s[Max(w)] \in ids THEN it[w \ {Max(w)}] ELSE Append(it[w \ {Max(w)}], s[Max(w)])
    <3>1. Max(w) \in 1..n
      BY <1>1, <2>4, MaxOfNumbers
    <3>2. s[Max(w)] \in S /\ it[w \ {Max(w)}] \in Seq(S)
      BY <1>1, <2>3, <3>1
    <3> QED  BY <3>2
  <2> HIDE DEF step, n
  <2>5. Folded(it)
    BY <2>3, <2>4 DEF Folding
  <2> HIDE DEF Folded
  <2> QED  BY <2>5
<1>3. Unlisted(s, ids) = iter[1..n]
  BY <1>1 DEF Unlisted, FoldLeft, MapThenFoldSet
<1> HIDE DEF iter
<1> DEFINE f == [k \in 0..n |-> iter[1..k]]
<1>4. f[0] = <<>>
  <2>1. 1..0 = {}
    OBVIOUS
  <2> QED  BY <1>1, <1>2, <2>1
<1>5. ASSUME NEW k \in 1..n
      PROVE  f[k] = IF s[k] \in ids THEN f[k - 1] ELSE Append(f[k - 1], s[k])
  <2>1. /\ 1..k \in SUBSET (1..n) /\ 1..k # {}
        /\ Max(1..k) = k /\ (1..k) \ {k} = 1..(k - 1)
    BY <1>1, LastPosition
  <2>2. iter[1..k] = IF s[k] \in ids THEN iter[1..(k - 1)] ELSE Append(iter[1..(k - 1)], s[k])
    BY <1>2, <2>1
  <2>3. k - 1 \in 0..n /\ k \in 0..n
    BY <1>1
  <2> QED  BY <2>2, <2>3
<1>6. f[n] = iter[1..n]
  BY <1>1
<1>7. f \in [0..n -> Seq(S)]
  <2> DEFINE Good == {k \in 0..n : f[k] \in Seq(S)}
  <2>1. f = [k \in 0..n |-> f[k]]
    OBVIOUS
  <2> HIDE DEF f
  <2>2. 0 \in Good
    <3>1. 0 \in 0..n /\ <<>> \in Seq(S)
      BY <1>1
    <3> HIDE DEF n
    <3> QED  BY <3>1, <1>4
  <2>3. ASSUME NEW k \in 1..n, k - 1 \in Good PROVE k \in Good
    <3>1. f[k - 1] \in Seq(S) /\ k \in 0..n /\ s[k] \in S
      BY <2>3, <1>1
    <3>2. Append(f[k - 1], s[k]) \in Seq(S)
      BY <3>1, AppendProperties
    <3>3. f[k] \in Seq(S)
      BY <1>5, <3>1, <3>2
    <3> QED  BY <3>1, <3>3
  <2> HIDE DEF Good
  <2>4. 0..n \subseteq Good
    BY <1>1, <2>2, <2>3, InductionUpTo
  <2> QED  BY <2>1, <2>4 DEF Good
<1> HIDE DEF f
<1> QED  BY <1>3, <1>4, <1>5, <1>6, <1>7 DEF Unlists

(* The positions of an element.                                            *)
Occurs(s, x) == \E i \in 1..Len(s) : s[i] = x

LEMMA AppendOccurs ==
  ASSUME NEW S, NEW s \in Seq(S), NEW e \in S, NEW x
  PROVE  Occurs(Append(s, e), x) <=> Occurs(s, x) \/ x = e
<1>1. /\ Len(s) \in Nat /\ Len(Append(s, e)) = Len(s) + 1
      /\ \A i \in 1..Len(s) : Append(s, e)[i] = s[i]
      /\ Append(s, e)[Len(s) + 1] = e
  BY AppendProperties, LenProperties
<1>2. Occurs(Append(s, e), x) => Occurs(s, x) \/ x = e
  BY <1>1 DEF Occurs
<1>3. Occurs(s, x) => Occurs(Append(s, e), x)
  BY <1>1 DEF Occurs
<1>4. x = e => Occurs(Append(s, e), x)
  <2>1. Len(s) + 1 \in 1..Len(Append(s, e))
    BY <1>1
  <2> QED  BY <1>1, <2>1 DEF Occurs
<1> QED  BY <1>2, <1>3, <1>4

LEMMA TailOccurs ==
  ASSUME NEW S, NEW s \in Seq(S), s # <<>>, NEW x
  PROVE  Occurs(s, x) <=> x = Head(s) \/ Occurs(Tail(s), x)
<1>1. /\ Len(s) \in Nat /\ Len(s) >= 1 /\ Head(s) = s[1]
      /\ Len(Tail(s)) = Len(s) - 1 /\ \A i \in 1..(Len(s) - 1) : Tail(s)[i] = s[i + 1]
  BY HeadTailProperties, LenProperties, EmptySeq
<1>2. Occurs(s, x) => x = Head(s) \/ Occurs(Tail(s), x)
  <2> SUFFICES ASSUME NEW i \in 1..Len(s), s[i] = x, x # Head(s) PROVE Occurs(Tail(s), x)
    BY DEF Occurs
  <2>1. i - 1 \in 1..(Len(s) - 1)
    BY <1>1
  <2> QED  BY <1>1, <2>1 DEF Occurs
<1>3. x = Head(s) => Occurs(s, x)
  BY <1>1 DEF Occurs
<1>4. ASSUME NEW i \in 1..Len(Tail(s)), Tail(s)[i] = x
      PROVE  i + 1 \in 1..Len(s) /\ s[i + 1] = x /\ i + 1 # 1
  BY <1>1, <1>4
<1>5. Occurs(Tail(s), x) => Occurs(s, x)
  BY <1>4 DEF Occurs
<1> QED  BY <1>2, <1>3, <1>5

LEMMA EmptyOccurs ==
  \A x : ~Occurs(<<>>, x)
BY DEF Occurs

(* What is left of the list.                                               *)
LEMMA UnlistedProperties ==
  ASSUME NEW S, NEW s \in Seq(S), NEW ids
  PROVE  /\ Unlisted(s, ids) \in Seq(S)
         /\ \A x : Occurs(Unlisted(s, ids), x) <=> x \notin ids /\ Occurs(s, x)
<1>1. PICK n \in Nat : n = Len(s) /\ \A k \in 1..n : s[k] \in S
  BY LenProperties, ElementOfSeq
<1>0. PICK f \in [0..Len(s) -> Seq(S)] : Unlists(f, s, ids)
  BY UnlistedUnfolds
<1>2. /\ f \in [0..n -> Seq(S)]
      /\ f[0] = <<>> /\ Unlisted(s, ids) = f[n]
      /\ \A k \in 1..n : f[k] = IF s[k] \in ids THEN f[k - 1] ELSE Append(f[k - 1], s[k])
  BY <1>0, <1>1 DEF Unlists
<1>3. ASSUME NEW x
      PROVE  Occurs(f[n], x) <=> x \notin ids /\ Occurs(s, x)
  <2> DEFINE Good == {k \in 0..n :
                        Occurs(f[k], x) <=> x \notin ids /\ \E i \in 1..k : s[i] = x}
  <2>1. 0 \in Good
    <3>1. 0 \in 0..n /\ 1..0 = {}
      BY <1>1
    <3> QED  BY <1>2, <3>1, EmptyOccurs
  <2>2. ASSUME NEW k \in 1..n, k - 1 \in Good PROVE k \in Good
    <3>0. k \in 0..n /\ k - 1 \in 0..n
      BY <1>1
    <3>1. /\ k \in 0..n /\ s[k] \in S /\ f[k - 1] \in Seq(S)
          /\ \A i \in Nat : i \in 1..k <=> i \in 1..(k - 1) \/ i = k
      BY <1>1, <1>2, <3>0
    <3>2. CASE s[k] \in ids
      <4>1. f[k] = f[k - 1]
        BY <1>2, <3>2
      <4> QED  BY <2>2, <3>1, <3>2, <4>1
    <3>3. CASE s[k] \notin ids
      <4>1. f[k] = Append(f[k - 1], s[k])
        BY <1>2, <3>3
      <4>2. Occurs(f[k], x) <=> Occurs(f[k - 1], x) \/ x = s[k]
        BY <3>1, <4>1, AppendOccurs
      <4>3. Occurs(f[k], x) <=> x \notin ids /\ \E i \in 1..k : s[i] = x
        <5>1. Occurs(f[k - 1], x) <=> x \notin ids /\ \E i \in 1..(k - 1) : s[i] = x
          BY <2>2
        <5>2. (\E i \in 1..k : s[i] = x) <=> (\E i \in 1..(k - 1) : s[i] = x) \/ s[k] = x
          BY <1>1, <3>1
        <5> QED  BY <3>3, <4>2, <5>1, <5>2
      <4> QED  BY <3>1, <4>3
    <3> QED  BY <3>2, <3>3
  <2> HIDE DEF Good
  <2>3. 0..n \subseteq Good
    BY <1>1, <2>1, <2>2, InductionUpTo
  <2>4. n \in Good
    BY <1>1, <2>3
  <2> QED  BY <1>1, <2>4 DEF Good, Occurs
<1>4. f[n] \in Seq(S)
  BY <1>1, <1>2
<1> QED  BY <1>2, <1>3, <1>4

-----------------------------------------------------------------------------
(* What a command does                                                     *)

Carriers == {"store", "queue", "retire", "restore"}

LEMMA CommandFields ==
  ASSUME NEW c \in Command
  PROVE  /\ c.op \in Carriers \cup {"unqueue", "hget", "hdel", "evict", "drop"}
         /\ c.op \in Carriers => c.task \in Task
         /\ c.op \in {"unqueue", "hget", "hdel"} => c.id \in TaskId
         /\ c.op \in {"evict", "drop"} => c.ids \in SUBSET TaskId
<1>1. CASE c \in [op: {"store", "queue", "retire", "restore"}, task: Task]
  BY <1>1 DEF Carriers
<1>2. CASE c \in [op: {"unqueue", "hget", "hdel"}, id: TaskId]
  BY <1>2 DEF Carriers
<1>3. CASE c \in [op: {"evict", "drop"}, ids: SUBSET TaskId]
  BY <1>3 DEF Carriers
<1> QED  BY <1>1, <1>2, <1>3 DEF Command

(* A command leaves these four keys behind.                                *)
Leaves(r, active, dead, items, order) ==
  r.active = active /\ r.dead = dead /\ r.items = items /\ r.order = order

LEMMA RedisFields ==
  /\ \A r \in RedisState :
       /\ r.active \in [TaskId -> Task \cup {NoTask}] /\ r.dead \in [TaskId -> Task \cup {NoTask}]
       /\ r.items \in [TaskId -> Task \cup {NoTask}] /\ r.order \in Seq(TaskId)
  /\ \A r \in RedisState, a \in [TaskId -> Task \cup {NoTask}], o \in Seq(TaskId) :
       /\ [r EXCEPT !.active = a] \in RedisState
       /\ [r EXCEPT !.dead = a] \in RedisState
       /\ [r EXCEPT !.items = a] \in RedisState
       /\ [r EXCEPT !.order = o] \in RedisState
BY DEF RedisState

LEMMA WithoutType ==
  ASSUME NEW map \in [TaskId -> Task \cup {NoTask}], NEW ids
  PROVE  /\ Without(map, ids) \in [TaskId -> Task \cup {NoTask}]
         /\ \A id \in TaskId : Without(map, ids)[id] = IF id \in ids THEN NoTask ELSE map[id]
BY DEF Without

LEMMA ApplyEffects ==
  ASSUME NEW r \in RedisState, NEW c \in Command
  PROVE  /\ Apply(r, c) \in RedisState
         /\ c.op = "store" =>
              Leaves(Apply(r, c), [r.active EXCEPT ![c.task.id] = c.task], r.dead, r.items, r.order)
         /\ c.op = "queue" =>
              Leaves(Apply(r, c), [r.active EXCEPT ![c.task.id] = c.task], r.dead,
                     [r.items EXCEPT ![c.task.id] = c.task], Append(r.order, c.task.id))
         /\ c.op = "restore" =>
              Leaves(Apply(r, c), r.active, r.dead,
                     [r.items EXCEPT ![c.task.id] = c.task], Append(r.order, c.task.id))
         /\ c.op = "retire" =>
              Leaves(Apply(r, c), [r.active EXCEPT ![c.task.id] = NoTask],
                     [r.dead EXCEPT ![c.task.id] = c.task], r.items, r.order)
         /\ c.op = "unqueue" =>
              Leaves(Apply(r, c), r.active, r.dead,
                     [r.items EXCEPT ![c.id] = NoTask], Unlisted(r.order, {c.id}))
         /\ c.op = "hget" => Apply(r, c) = r
         /\ c.op = "hdel" =>
              Leaves(Apply(r, c), r.active, r.dead, [r.items EXCEPT ![c.id] = NoTask], r.order)
         /\ c.op = "evict" =>
              Leaves(Apply(r, c), r.active, Without(r.dead, c.ids), r.items, r.order)
         /\ c.op = "drop" =>
              Leaves(Apply(r, c), Without(r.active, c.ids), Without(r.dead, c.ids),
                     Without(r.items, c.ids), Unlisted(r.order, c.ids))
<1>0. /\ r.active \in [TaskId -> Task \cup {NoTask}] /\ r.dead \in [TaskId -> Task \cup {NoTask}]
      /\ r.items \in [TaskId -> Task \cup {NoTask}] /\ r.order \in Seq(TaskId)
  BY RedisFields
<1>1. ASSUME c.op \in Carriers
      PROVE  c.task \in Task /\ c.task.id \in TaskId /\ Append(r.order, c.task.id) \in Seq(TaskId)
  <2>1. c.task \in Task
    BY <1>1, CommandFields
  <2>2. c.task.id \in TaskId
    BY <2>1 DEF Task
  <2> QED  BY <1>0, <2>1, <2>2, AppendProperties
<1>2. CASE c.op = "store"
  <2>1. PICK a : a = [r.active EXCEPT ![c.task.id] = c.task]
    OBVIOUS
  <2>2. Apply(r, c) = [r EXCEPT !.active = a]
    BY <1>0, <1>2, <2>1 DEF Apply, RedisState
  <2>3. a \in [TaskId -> Task \cup {NoTask}]
    BY <1>0, <1>1, <1>2, <2>1 DEF Carriers
  <2>4. Apply(r, c) \in RedisState /\ Leaves(Apply(r, c), a, r.dead, r.items, r.order)
    BY <2>2, <2>3 DEF Leaves, RedisState
  <2> QED  BY <1>2, <2>1, <2>4
<1>3. CASE c.op = "queue"
  <2>1. PICK a, i, o : /\ a = [r.active EXCEPT ![c.task.id] = c.task]
                       /\ i = [r.items EXCEPT ![c.task.id] = c.task]
                       /\ o = Append(r.order, c.task.id)
    OBVIOUS
  <2>2. Apply(r, c) = [r EXCEPT !.active = a, !.items = i, !.order = o]
    BY <1>0, <1>3, <2>1 DEF Apply, RedisState
  <2>3. /\ a \in [TaskId -> Task \cup {NoTask}] /\ i \in [TaskId -> Task \cup {NoTask}]
        /\ o \in Seq(TaskId)
    BY <1>0, <1>1, <1>3, <2>1 DEF Carriers
  <2>4. Apply(r, c) \in RedisState /\ Leaves(Apply(r, c), a, r.dead, i, o)
    BY <2>2, <2>3 DEF Leaves, RedisState
  <2> QED  BY <1>3, <2>1, <2>4
<1>4. CASE c.op = "restore"
  <2>1. PICK i, o : /\ i = [r.items EXCEPT ![c.task.id] = c.task]
                    /\ o = Append(r.order, c.task.id)
    OBVIOUS
  <2>2. Apply(r, c) = [r EXCEPT !.items = i, !.order = o]
    BY <1>0, <1>4, <2>1 DEF Apply, RedisState
  <2>3. i \in [TaskId -> Task \cup {NoTask}] /\ o \in Seq(TaskId)
    BY <1>0, <1>1, <1>4, <2>1 DEF Carriers
  <2>4. Apply(r, c) \in RedisState /\ Leaves(Apply(r, c), r.active, r.dead, i, o)
    BY <2>2, <2>3 DEF Leaves, RedisState
  <2> QED  BY <1>4, <2>1, <2>4
<1>5. CASE c.op = "retire"
  <2>1. PICK a, d : /\ a = [r.active EXCEPT ![c.task.id] = NoTask]
                    /\ d = [r.dead EXCEPT ![c.task.id] = c.task]
    OBVIOUS
  <2>2. Apply(r, c) = [r EXCEPT !.dead = d, !.active = a]
    BY <1>0, <1>5, <2>1 DEF Apply, RetireKeys, RedisState
  <2>3. a \in [TaskId -> Task \cup {NoTask}] /\ d \in [TaskId -> Task \cup {NoTask}]
    BY <1>0, <1>1, <1>5, <2>1 DEF Carriers
  <2>4. Apply(r, c) \in RedisState /\ Leaves(Apply(r, c), a, d, r.items, r.order)
    BY <2>2, <2>3 DEF Leaves, RedisState
  <2> QED  BY <1>5, <2>1, <2>4
<1>6. CASE c.op = "unqueue"
  <2>1. PICK i, o : /\ i = [r.items EXCEPT ![c.id] = NoTask]
                    /\ o = Unlisted(r.order, {c.id})
    OBVIOUS
  <2>2. Apply(r, c) = [r EXCEPT !.order = o, !.items = i]
    BY <1>0, <1>6, <2>1 DEF Apply, RedisState
  <2>3. i \in [TaskId -> Task \cup {NoTask}] /\ o \in Seq(TaskId)
    BY <1>0, <1>6, <2>1, CommandFields, UnlistedProperties
  <2>4. Apply(r, c) \in RedisState /\ Leaves(Apply(r, c), r.active, r.dead, i, o)
    BY <2>2, <2>3 DEF Leaves, RedisState
  <2> QED  BY <1>6, <2>1, <2>4
<1>7. CASE c.op = "hget"
  BY <1>7 DEF Apply
<1>8. CASE c.op = "hdel"
  <2>1. PICK i : i = [r.items EXCEPT ![c.id] = NoTask]
    OBVIOUS
  <2>2. Apply(r, c) = [r EXCEPT !.items = i]
    BY <1>0, <1>8, <2>1 DEF Apply, RedisState
  <2>3. i \in [TaskId -> Task \cup {NoTask}]
    BY <1>0, <1>8, <2>1
  <2>4. Apply(r, c) \in RedisState /\ Leaves(Apply(r, c), r.active, r.dead, i, r.order)
    BY <2>2, <2>3 DEF Leaves, RedisState
  <2> QED  BY <1>8, <2>1, <2>4
<1>9. CASE c.op = "evict"
  <2>1. PICK d : d = Without(r.dead, c.ids)
    OBVIOUS
  <2>2. Apply(r, c) = [r EXCEPT !.dead = d]
    BY <1>9, <2>1 DEF Apply
  <2>3. d \in [TaskId -> Task \cup {NoTask}]
    BY <1>0, <2>1, WithoutType
  <2>4. Apply(r, c) \in RedisState /\ Leaves(Apply(r, c), r.active, d, r.items, r.order)
    BY <2>2, <2>3 DEF Leaves, RedisState
  <2> QED  BY <1>9, <2>1, <2>4
<1>10. CASE c.op = "drop"
  <2>1. PICK a, d, i, o : /\ a = Without(r.active, c.ids) /\ d = Without(r.dead, c.ids)
                          /\ i = Without(r.items, c.ids) /\ o = Unlisted(r.order, c.ids)
    OBVIOUS
  <2>2. Apply(r, c) = [active |-> a, dead |-> d, items |-> i, order |-> o]
    BY <1>10, <2>1 DEF Apply
  <2>3. /\ a \in [TaskId -> Task \cup {NoTask}] /\ d \in [TaskId -> Task \cup {NoTask}]
        /\ i \in [TaskId -> Task \cup {NoTask}] /\ o \in Seq(TaskId)
    BY <1>0, <2>1, WithoutType, UnlistedProperties
  <2>4. Apply(r, c) \in RedisState /\ Leaves(Apply(r, c), a, d, i, o)
    BY <2>2, <2>3 DEF Leaves, RedisState
  <2> QED  BY <1>10, <2>1, <2>4
<1> QED  BY <1>2, <1>3, <1>4, <1>5, <1>6, <1>7, <1>8, <1>9, <1>10, CommandFields DEF Carriers

-----------------------------------------------------------------------------
(* What all the commands of a wire do                                      *)

Executed(r, w) == FoldLeft(Apply, r, w)

(* Executed, one command at a time.                                        *)
Traces(f, r, w) ==
  /\ f[0] = r /\ Executed(r, w) = f[Len(w)]
  /\ \A k \in 1..Len(w) : f[k] = Apply(f[k - 1], w[k])

LEMMA ExecutedUnfolds ==
  ASSUME NEW r \in RedisState, NEW w \in Seq(Command)
  PROVE  \E f \in [0..Len(w) -> RedisState] : Traces(f, r, w)
<1> DEFINE n == Len(w)
<1>1. n \in Nat /\ DOMAIN w = 1..n /\ \A k \in 1..n : w[k] \in Command
  BY LenProperties, ElementOfSeq
<1> DEFINE step == [p \in RedisState \X Command |-> Apply(p[1], p[2])]
           Folded(it) == it = [v \in SUBSET (1..n) |->
                                 IF v = {} THEN r ELSE Apply(it[v \ {Max(v)}], w[Max(v)])]
           iter == CHOOSE it : Folded(it)
<1>2. Folded(iter)
  <2>1. step \in [RedisState \X Command -> RedisState]
    BY ApplyEffects
  <2>2. PICK it \in [SUBSET (1..n) -> RedisState] : Folding(it, r, w, n, step)
    <3> HIDE DEF step, n
    <3> QED  BY <1>1, <2>1, FoldingExists
  <2>3. ASSUME NEW v \in SUBSET (1..n), v # {}
        PROVE  step[<<it[v \ {Max(v)}], w[Max(v)]>>] = Apply(it[v \ {Max(v)}], w[Max(v)])
    <3>1. Max(v) \in 1..n
      BY <1>1, <2>3, MaxOfNumbers
    <3>2. w[Max(v)] \in Command /\ it[v \ {Max(v)}] \in RedisState
      BY <1>1, <2>2, <3>1
    <3> QED  BY <3>2
  <2> HIDE DEF step, n
  <2>4. Folded(it)
    BY <2>2, <2>3 DEF Folding
  <2> HIDE DEF Folded
  <2> QED  BY <2>4
<1>3. Executed(r, w) = iter[1..n]
  BY <1>1 DEF Executed, FoldLeft, MapThenFoldSet
<1> HIDE DEF iter
<1> DEFINE f == [k \in 0..n |-> iter[1..k]]
<1>4. f[0] = r
  <2>1. 1..0 = {}
    OBVIOUS
  <2> QED  BY <1>1, <1>2, <2>1
<1>5. ASSUME NEW k \in 1..n
      PROVE  f[k] = Apply(f[k - 1], w[k])
  <2>1. /\ 1..k \in SUBSET (1..n) /\ 1..k # {}
        /\ Max(1..k) = k /\ (1..k) \ {k} = 1..(k - 1)
    BY <1>1, LastPosition
  <2>2. iter[1..k] = Apply(iter[1..(k - 1)], w[k])
    BY <1>2, <2>1
  <2>3. k - 1 \in 0..n /\ k \in 0..n
    BY <1>1
  <2> QED  BY <2>2, <2>3
<1>6. f[n] = iter[1..n]
  BY <1>1
<1>7. f \in [0..n -> RedisState]
  <2> DEFINE Good == {k \in 0..n : f[k] \in RedisState}
  <2>1. f = [k \in 0..n |-> f[k]]
    OBVIOUS
  <2> HIDE DEF f
  <2>2. 0 \in Good
    <3>1. 0 \in 0..n
      BY <1>1
    <3> HIDE DEF n
    <3> QED  BY <3>1, <1>4
  <2>3. ASSUME NEW k \in 1..n, k - 1 \in Good PROVE k \in Good
    <3>1. f[k - 1] \in RedisState /\ k \in 0..n /\ w[k] \in Command
      BY <2>3, <1>1
    <3>2. f[k] \in RedisState
      BY <1>5, <3>1, ApplyEffects
    <3> QED  BY <3>1, <3>2
  <2> HIDE DEF Good
  <2>4. 0..n \subseteq Good
    BY <1>1, <2>2, <2>3, InductionUpTo
  <2> QED  BY <2>1, <2>4 DEF Good
<1> HIDE DEF f
<1> QED  BY <1>3, <1>4, <1>5, <1>6, <1>7 DEF Traces

(* Two runs from the same state over the same commands.                    *)
Runs(f, w, n) == \A k \in 1..n : f[k] = Apply(f[k - 1], w[k])

LEMMA ExecutesAgree ==
  ASSUME NEW n \in Nat, NEW f, NEW g, NEW w, f[0] = g[0], Runs(f, w, n), Runs(g, w, n)
  PROVE  \A k \in 0..n : f[k] = g[k]
<1> DEFINE Good == {k \in 0..n : f[k] = g[k]}
<1>1. 0 \in Good
  OBVIOUS
<1>2. ASSUME NEW k \in 1..n, k - 1 \in Good PROVE k \in Good
  <2>1. k \in 0..n
    OBVIOUS
  <2> QED  BY <1>2, <2>1 DEF Runs
<1> HIDE DEF Good
<1>3. 0..n \subseteq Good
  BY <1>1, <1>2, InductionUpTo
<1> QED  BY <1>3 DEF Good

LEMMA ExecutedEmpty ==
  ASSUME NEW r \in RedisState
  PROVE  Executed(r, <<>>) = r
<1>1. <<>> \in Seq(Command) /\ Len(<<>>) = 0
  OBVIOUS
<1>2. PICK f \in [0..0 -> RedisState] : Traces(f, r, <<>>)
  BY <1>1, ExecutedUnfolds
<1> QED  BY <1>1, <1>2 DEF Traces

LEMMA ExecutedType ==
  ASSUME NEW r \in RedisState, NEW w \in Seq(Command)
  PROVE  Executed(r, w) \in RedisState
<1>1. Len(w) \in Nat
  OBVIOUS
<1>2. PICK f \in [0..Len(w) -> RedisState] : Traces(f, r, w)
  BY ExecutedUnfolds
<1> QED  BY <1>1, <1>2 DEF Traces

(* A command sent takes effect after all that are under way.               *)
LEMMA ExecutedAppend ==
  ASSUME NEW r \in RedisState, NEW w \in Seq(Command), NEW c \in Command
  PROVE  Executed(r, Append(w, c)) = Apply(Executed(r, w), c)
<1>1. PICK n \in Nat : n = Len(w)
  OBVIOUS
<1>2. PICK v : v = Append(w, c)
  OBVIOUS
<1>3. v \in Seq(Command) /\ Len(v) = n + 1 /\ v[n + 1] = c /\ \A k \in 1..n : v[k] = w[k]
  BY <1>1, <1>2, AppendProperties
<1>4. PICK f \in [0..Len(w) -> RedisState] : Traces(f, r, w)
  BY ExecutedUnfolds
<1>5. PICK g \in [0..Len(v) -> RedisState] : Traces(g, r, v)
  BY <1>3, ExecutedUnfolds
<1>6. /\ f[0] = r /\ g[0] = r /\ Executed(r, w) = f[n] /\ Executed(r, v) = g[n + 1]
      /\ \A k \in 1..n : f[k] = Apply(f[k - 1], w[k])
      /\ \A k \in 1..(n + 1) : g[k] = Apply(g[k - 1], v[k])
  BY <1>1, <1>3, <1>4, <1>5 DEF Traces
<1>7. f[0] = g[0] /\ Runs(f, w, n) /\ Runs(g, w, n)
  BY <1>3, <1>6 DEF Runs
<1>8. \A k \in 0..n : f[k] = g[k]
  BY <1>7, ExecutesAgree
<1>9. g[n + 1] = Apply(g[n], c)
  <2>1. n + 1 \in 1..(n + 1) /\ (n + 1) - 1 = n
    OBVIOUS
  <2> QED  BY <1>3, <1>6, <2>1
<1> QED  BY <1>2, <1>6, <1>8, <1>9

(* The oldest command takes effect first.                                  *)
LEMMA ExecutedHead ==
  ASSUME NEW r \in RedisState, NEW w \in Seq(Command), w # <<>>
  PROVE  Executed(r, w) = Executed(Apply(r, Head(w)), Tail(w))
<1>1. PICK n \in Nat : Len(w) = n + 1
  <2>1. Len(w) \in Nat /\ Len(w) >= 1
    BY EmptySeq, LenProperties
  <2> QED  BY <2>1
<1>2. PICK v : v = Tail(w)
  OBVIOUS
<1>3. /\ v \in Seq(Command) /\ Len(v) = n /\ \A k \in 1..n : v[k] = w[k + 1]
      /\ Head(w) = w[1] /\ Head(w) \in Command
  BY <1>1, <1>2, HeadTailProperties
<1>4. Apply(r, Head(w)) \in RedisState
  BY <1>3, ApplyEffects
<1>5. PICK f \in [0..Len(w) -> RedisState] : Traces(f, r, w)
  BY ExecutedUnfolds
<1>6. PICK g \in [0..Len(v) -> RedisState] : Traces(g, Apply(r, Head(w)), v)
  BY <1>3, <1>4, ExecutedUnfolds
<1>7. /\ f[0] = r /\ g[0] = Apply(r, Head(w))
      /\ Executed(r, w) = f[n + 1] /\ Executed(Apply(r, Head(w)), v) = g[n]
      /\ \A k \in 1..(n + 1) : f[k] = Apply(f[k - 1], w[k])
      /\ \A k \in 1..n : g[k] = Apply(g[k - 1], v[k])
  BY <1>1, <1>3, <1>5, <1>6 DEF Traces
<1> DEFINE h == [k \in 0..n |-> f[k + 1]]
<1>8. h[0] = g[0] /\ h[n] = f[n + 1]
  <2>1. 1 \in 1..(n + 1) /\ 1 - 1 = 0 /\ 0 \in 0..n /\ n \in 0..n /\ 0 + 1 = 1
    OBVIOUS
  <2>2. f[1] = Apply(f[0], w[1])
    BY <1>7, <2>1
  <2> QED  BY <1>3, <1>7, <2>1, <2>2
<1>9. ASSUME NEW k \in 1..n PROVE h[k] = Apply(h[k - 1], v[k])
  <2>1. k + 1 \in 1..(n + 1) /\ (k + 1) - 1 = k /\ k - 1 \in 0..n /\ k \in 0..n
        /\ (k - 1) + 1 = k
    OBVIOUS
  <2>2. f[k + 1] = Apply(f[k], w[k + 1]) /\ h[k] = f[k + 1] /\ h[k - 1] = f[k]
    BY <1>7, <2>1
  <2> QED  BY <1>3, <2>2
<1> HIDE DEF h
<1>10. \A k \in 0..n : h[k] = g[k]
  <2>1. Runs(h, v, n) /\ Runs(g, v, n)
    BY <1>7, <1>9 DEF Runs
  <2> QED  BY <1>8, <2>1, ExecutesAgree
<1>11. h[n] = g[n]
  BY <1>10
<1> QED  BY <1>2, <1>7, <1>8, <1>11

-----------------------------------------------------------------------------
(* The base of every other invariant: types, every task filed under its id,*)
(* and a loop that holds what it popped and awaits one answer at a time.   *)

IsAwaited(command) == command.op \in {"hget", "hdel", "restore"}

AwaitedAt == [hget |-> "fetching", hdel |-> "deleting", restore |-> "restoring"]

SubjectOf(command) == IF command.op = "restore" THEN command.task.id ELSE command.id

Filed(map) == \A id \in TaskId : map[id] # NoTask => map[id].id = id

AllFiled ==
  /\ Filed(activeTasks) /\ Filed(deadLetterTasks)
  /\ Filed(redis.active) /\ Filed(redis.dead) /\ Filed(redis.items)

LoopHolds ==
  /\ loop.pc \in {"off", "popping"} <=> loop.id = NoTask
  /\ loop.id = NoTask => loop.task = NoTask
  /\ loop.pc \in {"deleting", "deleted"} => loop.task # NoTask
  /\ loop.task # NoTask => loop.task.id = loop.id

(* An awaited command under way is the one the loop awaits.                *)
AwaitsOne ==
  \A i \in 1..Len(wire) : IsAwaited(wire[i]) =>
    /\ loop.pc = AwaitedAt[wire[i].op]
    /\ loop.id = SubjectOf(wire[i])
    /\ \A j \in 1..Len(wire) : IsAwaited(wire[j]) => i = j

DownIsEmpty == mode = "down" => wire = <<>> /\ loop = Off

LedgerTyped == due \in [Request -> Due] /\ handed \in SUBSET Task

RemoteTyped ==
  /\ redis \in RedisState
  /\ wire \in Seq(Command)
  /\ loop \in [pc: LoopPC, id: TaskId \cup {NoTask}, task: Task \cup {NoTask}]
  /\ mode \in {"open", "closed", "down"}
  /\ faulty \in BOOLEAN
  /\ faults \in 0..MaxFaults
  /\ LedgerTyped

LEMMA TypeParts ==
  /\ RedisTypeOK <=> MapsTyped /\ QueueTyped /\ ConfigsTyped /\ RemoteTyped
  /\ RedisTypeOK' <=> MapsTyped' /\ QueueTyped' /\ ConfigsTyped' /\ RemoteTyped'
BY DEF RedisTypeOK, StorageTypeOK, MapsTyped, QueueTyped, ConfigsTyped, RemoteTyped, LedgerTyped

Base == RedisTypeOK /\ AllFiled /\ LoopHolds /\ AwaitsOne /\ DownIsEmpty

-----------------------------------------------------------------------------
(* A write, seen by the command it sends                                   *)

(* A message comes with the first snapshot of its task, or joins those of  *)
(* an active task.                                                         *)
Starts(task, r) ==
  /\ r[1] = task.id /\ due[r] = "unissued" /\ r \in task.messages
  /\ \/ ~Issued(task.id) /\ task.messages = {r}
     \/ isActive(task.id) /\ task.messages = activeTasks[task.id].messages \cup {r}

Queues(task) ==
  /\ setActive(task)
  /\ \E r \in Request : Starts(task, r) /\ Queued(task, r)

StoresNew(task, r) ==
  /\ Starts(task, r)
  /\ Handed(task) \/ (due' = [due EXCEPT ![r] = "none"] /\ UNCHANGED handed)

Stores(task) ==
  /\ setActive(task)
  /\ \/ \E r \in Request : StoresNew(task, r)
     \/ /\ isActive(task.id) /\ task.messages \subseteq activeTasks[task.id].messages
        /\ UNCHANGED ledger

Retires(task) ==
  /\ storeDeadLetter(task) /\ Known(task.id)
  /\ UNCHANGED ledger \/ Revoked({task.id})

(* With the command that takes the entry off the list before it.           *)
RetiresQueued(task) ==
  /\ storeDeadLetter(task) /\ Known(task.id)
  /\ Revoked({task.id})

Drops(c) ==
  /\ activeTasks' = Without(activeTasks, contextIndex[c])
  /\ deadLetterTasks' = Without(deadLetterTasks, contextIndex[c])
  /\ contextIndex' = [contextIndex EXCEPT ![c] = {}]
  /\ Revoked(contextIndex[c])

Writes ==
  /\ mode = "open" /\ UNCHANGED <<redis, loop, mode, faulty, faults>>
  /\ \/ \E task \in Task :
          \/ Queues(task) /\ wire' = Append(wire, [op |-> "queue", task |-> task])
          \/ Stores(task) /\ wire' = Append(wire, [op |-> "store", task |-> task])
          \/ Retires(task) /\ wire' = Append(wire, [op |-> "retire", task |-> task])
          \/ /\ RetiresQueued(task)
             /\ wire' = Append(Append(wire, [op |-> "unqueue", id |-> task.id]),
                               [op |-> "retire", task |-> task])
     \/ \E ids \in SUBSET TaskId :
          evict(ids) /\ UNCHANGED ledger /\ wire' = Append(wire, [op |-> "evict", ids |-> ids])
     \/ \E c \in Context :
          Drops(c) /\ wire' = Append(wire, [op |-> "drop", ids |-> contextIndex[c]])

LEMMA SentCommands ==
  /\ \A task \in Task, op \in Carriers : [op |-> op, task |-> task] \in Command
  /\ \A id \in TaskId, op \in {"unqueue", "hget", "hdel"} : [op |-> op, id |-> id] \in Command
  /\ \A ids \in SUBSET TaskId, op \in {"evict", "drop"} : [op |-> op, ids |-> ids] \in Command
BY DEF Command, Carriers

LEMMA WireAppends ==
  ASSUME wire \in Seq(Command), NEW c \in Command
  PROVE  /\ wire \o <<c>> = Append(wire, c)
         /\ \A d \in Command : wire \o (<<c>> \o <<d>>) = Append(Append(wire, c), d)
<1>1. wire \o <<c>> = Append(wire, c)
  OBVIOUS
<1>2. ASSUME NEW d \in Command PROVE wire \o (<<c>> \o <<d>>) = Append(Append(wire, c), d)
  OBVIOUS
<1> QED  BY <1>1, <1>2

LEMMA EnqueueWrites ==
  ASSUME Base, NEW task \in Task, NEW r \in Request, Starts(task, r), Enqueue(task, r)
  PROVE  Writes /\ QueueTyped' /\ ConfigsTyped'
<1>1. MapsTyped /\ QueueTyped /\ ConfigsTyped /\ RemoteTyped
  BY TypeParts DEF Base
<1>2. setActive(task) /\ offer(task) /\ UNCHANGED pushConfigs
  BY DEF Enqueue, enqueue
<1>3. QueueTyped' /\ ConfigsTyped'
  BY <1>1, <1>2, OfferType DEF ConfigsTyped
<1>4. /\ mode = "open" /\ UNCHANGED <<redis, loop, mode, faulty, faults>>
      /\ wire \in Seq(Command)
  BY <1>1 DEF Enqueue, execAsync, statusVars, RemoteTyped
<1>5. /\ [op |-> "store", task |-> task] \in Command
      /\ [op |-> "queue", task |-> task] \in Command
  BY SentCommands DEF Carriers
<1>6. CASE waiters # <<>>
  <2>1. wire' = wire \o <<[op |-> "store", task |-> task]>> /\ Handed(task)
    BY <1>6 DEF Enqueue, execAsync
  <2>2. wire' = Append(wire, [op |-> "store", task |-> task])
    BY <1>4, <1>5, <2>1, WireAppends
  <2>3. Stores(task)
    BY <1>2, <2>1 DEF Stores, StoresNew
  <2> QED  BY <1>3, <1>4, <2>2, <2>3 DEF Writes
<1>7. CASE waiters = <<>>
  <2>1. wire' = wire \o <<[op |-> "queue", task |-> task]>> /\ Queued(task, r)
    BY <1>7 DEF Enqueue, execAsync
  <2>2. wire' = Append(wire, [op |-> "queue", task |-> task])
    BY <1>4, <1>5, <2>1, WireAppends
  <2>3. Queues(task)
    BY <1>2, <2>1 DEF Queues
  <2> QED  BY <1>3, <1>4, <2>2, <2>3 DEF Writes
<1> QED  BY <1>6, <1>7

LEMMA ActiveTasks ==
  ASSUME Base, NEW id \in TaskId
  PROVE  /\ isActive(id) => activeTasks[id] \in Task /\ activeTasks[id].id = id
         /\ Known(id) => getTask(id) \in Task /\ getTask(id).id = id
BY DEF Base, RedisTypeOK, StorageTypeOK, AllFiled, Filed, Known, getTask, isActive

LEMMA Transitioned ==
  ASSUME NEW task \in Task, NEW state \in TASK_STATE
  PROVE  /\ transitionTask(task, state) \in Task
         /\ transitionTask(task, state).id = task.id /\ transitionTask(task, state).state = state
         /\ transitionTask(task, state).messages = task.messages
BY DEF transitionTask, Task

LEMMA CancelWrites ==
  ASSUME Base, NEW id \in TaskId, CancelPending(id)
  PROVE  Writes /\ QueueTyped' /\ ConfigsTyped'
<1>1. MapsTyped /\ QueueTyped /\ ConfigsTyped /\ RemoteTyped
  BY TypeParts DEF Base
<1>2. PICK task : task = transitionTask(activeTasks[id], "CANCELLED")
  OBVIOUS
<1>3. isActive(id) /\ removeFromQueue(id) /\ storeDeadLetter(task) /\ Revoked({id})
      /\ UNCHANGED pushConfigs
  BY <1>2 DEF CancelPending
<1>4. task \in Task /\ task.id = id
  BY <1>2, <1>3, ActiveTasks, Transitioned DEF TASK_STATE
<1>5. QueueTyped' /\ ConfigsTyped'
  BY <1>1, <1>3, RemoveFromQueueType DEF ConfigsTyped
<1>6. Known(task.id)
  BY <1>3, <1>4 DEF Known, getTask, isActive
<1>7. RetiresQueued(task) /\ Retires(task)
  BY <1>3, <1>4, <1>6 DEF RetiresQueued, Retires
<1>8. /\ mode = "open" /\ UNCHANGED <<redis, loop, mode, faulty, faults>>
      /\ \/ wire' = wire \o (<<[op |-> "unqueue", id |-> id]>> \o <<[op |-> "retire", task |-> task]>>)
         \/ wire' = wire \o <<[op |-> "retire", task |-> task]>>
  BY <1>2 DEF CancelPending, execAsync, statusVars
<1>9. /\ [op |-> "retire", task |-> task] \in Command
      /\ [op |-> "unqueue", id |-> id] \in Command /\ wire \in Seq(Command)
  BY <1>1, <1>4, SentCommands DEF Carriers, RemoteTyped
<1>10. \/ wire' = Append(Append(wire, [op |-> "unqueue", id |-> task.id]), [op |-> "retire", task |-> task])
       \/ wire' = Append(wire, [op |-> "retire", task |-> task])
  BY <1>4, <1>8, <1>9, WireAppends
<1> QED  BY <1>4, <1>5, <1>7, <1>8, <1>10 DEF Writes

LEMMA WriteWrites ==
  ASSUME Base, Write
  PROVE  Writes /\ QueueTyped' /\ ConfigsTyped'
<1>1. MapsTyped /\ QueueTyped /\ ConfigsTyped /\ RemoteTyped /\ wire \in Seq(Command)
  BY TypeParts DEF Base, RemoteTyped
<1>2. ASSUME UNCHANGED <<queueVars, pushConfigs>> PROVE QueueTyped' /\ ConfigsTyped'
  BY <1>1, <1>2 DEF queueVars, QueueTyped, ConfigsTyped
<1>3. ASSUME NEW commands, execAsync(commands)
      PROVE  /\ mode = "open" /\ UNCHANGED <<redis, loop, mode, faulty, faults>>
             /\ wire' = wire \o commands
  BY <1>3 DEF execAsync, statusVars
<1>4. ASSUME NEW r \in Request, NEW c \in Context
      PROVE  /\ r[1] \in TaskId
             /\ createTask(r[1], c, {r}) \in Task /\ createTask(r[1], c, {r}).id = r[1]
             /\ createTask(r[1], c, {r}).messages = {r}
  BY RequestAssumption DEF createTask, Task, TASK_STATE
<1>5. ASSUME NEW r \in Request, NEW c \in Context, EnqueueNew(r, c)
      PROVE  Writes /\ QueueTyped' /\ ConfigsTyped'
  <2>1. PICK task : task = createTask(r[1], c, {r})
    OBVIOUS
  <2>2. task \in Task /\ task.id = r[1] /\ task.messages = {r}
    BY <1>4, <2>1
  <2>3. due[r] = "unissued" /\ ~Issued(task.id) /\ Enqueue(task, r)
    BY <1>5, <2>1, <2>2 DEF EnqueueNew, Fresh
  <2>4. Starts(task, r)
    BY <2>2, <2>3 DEF Starts
  <2> QED  BY <2>2, <2>3, <2>4, EnqueueWrites
<1>6. ASSUME NEW r \in Request, NEW c \in Context, Create(r, c)
      PROVE  Writes /\ QueueTyped' /\ ConfigsTyped'
  <2>1. PICK task : task = createTask(r[1], c, {r})
    OBVIOUS
  <2>2. task \in Task /\ task.id = r[1] /\ task.messages = {r}
    BY <1>4, <2>1
  <2>3. /\ due[r] = "unissued" /\ ~Issued(task.id) /\ setActive(task)
        /\ execAsync(<<[op |-> "store", task |-> task]>>)
        /\ due' = [due EXCEPT ![r] = "none"] /\ UNCHANGED handed
        /\ UNCHANGED <<queueVars, pushConfigs>>
    BY <1>6, <2>1, <2>2 DEF Create, createActive, Fresh
  <2>4. Starts(task, r)
    BY <2>2, <2>3 DEF Starts
  <2>5. Stores(task)
    BY <2>3, <2>4 DEF Stores, StoresNew
  <2>6. wire' = Append(wire, [op |-> "store", task |-> task])
    BY <1>1, <1>3, <2>2, <2>3, SentCommands, WireAppends DEF Carriers
  <2> QED  BY <1>2, <1>3, <2>2, <2>3, <2>5, <2>6 DEF Writes
<1>7. ASSUME NEW r \in Request, EnqueueResumed(r)
      PROVE  Writes /\ QueueTyped' /\ ConfigsTyped'
  <2>1. PICK told : told = [activeTasks[r[1]] EXCEPT !.messages = @ \cup {r}]
    OBVIOUS
  <2>2. PICK task : task = transitionTask(told, "IN_PROGRESS")
    OBVIOUS
  <2>3. due[r] = "unissued" /\ isActive(r[1]) /\ Enqueue(task, r) /\ r[1] \in TaskId
    BY <1>7, <2>1, <2>2, RequestAssumption DEF EnqueueResumed, Fresh
  <2>4. /\ told \in Task /\ told.id = r[1]
        /\ told.messages = activeTasks[r[1]].messages \cup {r}
    BY <2>1, <2>3, ActiveTasks DEF Task
  <2>5. task \in Task /\ task.id = r[1] /\ task.messages = told.messages
    BY <2>2, <2>4, Transitioned DEF TASK_STATE
  <2>6. Starts(task, r)
    BY <2>3, <2>4, <2>5 DEF Starts
  <2> QED  BY <2>3, <2>5, <2>6, EnqueueWrites
<1>8. ASSUME NEW id \in TaskId, NEW state \in States, NEW last \in Request, Update(id, state, last)
      PROVE  Writes /\ QueueTyped' /\ ConfigsTyped'
  <2>1. PICK known : known = {r \in activeTasks[id].messages : r[2] <= last[2]}
    OBVIOUS
  <2>2. PICK cut : cut = [activeTasks[id] EXCEPT !.messages = known]
    OBVIOUS
  <2>3. PICK task : task = transitionTask(cut, state)
    OBVIOUS
  <2>4. /\ isActive(id) /\ updateActive(task)
        /\ execAsync(<<[op |-> "store", task |-> task]>>)
        /\ UNCHANGED <<queueVars, pushConfigs, ledger>>
    BY <1>8, <2>1, <2>2, <2>3 DEF Update
  <2>5. /\ known \subseteq activeTasks[id].messages /\ activeTasks[id] \in Task /\ activeTasks[id].id = id
    BY <2>1, <2>4, ActiveTasks
  <2>6. cut \in Task /\ cut.id = id /\ cut.messages = known
    BY <2>2, <2>5 DEF Task
  <2>7. task \in Task /\ task.id = id /\ task.messages = known
    BY <2>3, <2>6, Transitioned, BoundAssumption
  <2>8. Stores(task)
    BY <2>4, <2>5, <2>7 DEF Stores, updateActive
  <2>9. wire' = Append(wire, [op |-> "store", task |-> task])
    BY <1>1, <1>3, <2>4, <2>7, SentCommands, WireAppends DEF Carriers
  <2> QED  BY <1>2, <1>3, <2>4, <2>7, <2>8, <2>9 DEF Writes
<1>9. ASSUME NEW id \in TaskId, NEW state \in States, Retire(id, state)
      PROVE  Writes /\ QueueTyped' /\ ConfigsTyped'
  <2>1. PICK task : task = [getTask(id) EXCEPT !.state = state]
    OBVIOUS
  <2>2. /\ Known(id) /\ storeDeadLetter(task)
        /\ execAsync(<<[op |-> "retire", task |-> task]>>)
        /\ UNCHANGED <<queueVars, pushConfigs, ledger>>
    BY <1>9, <2>1 DEF Retire
  <2>3. task \in Task /\ task.id = id
    BY <2>1, <2>2, ActiveTasks, BoundAssumption DEF Task
  <2>4. Retires(task)
    BY <2>2, <2>3 DEF Retires
  <2>5. wire' = Append(wire, [op |-> "retire", task |-> task])
    BY <1>1, <1>3, <2>2, <2>3, SentCommands, WireAppends DEF Carriers
  <2> QED  BY <1>2, <1>3, <2>2, <2>3, <2>4, <2>5 DEF Writes
<1>10. ASSUME CleanUp PROVE Writes /\ QueueTyped' /\ ConfigsTyped'
  <2>1. PICK ids \in SUBSET TaskId :
          evict(ids) /\ execAsync(<<[op |-> "evict", ids |-> ids]>>)
    BY <1>10 DEF CleanUp, DeadIn
  <2>2. UNCHANGED <<queueVars, pushConfigs, ledger>>
    BY <1>10 DEF CleanUp
  <2>3. wire' = Append(wire, [op |-> "evict", ids |-> ids])
    BY <1>1, <1>3, <2>1, SentCommands, WireAppends
  <2> QED  BY <1>2, <1>3, <2>1, <2>2, <2>3 DEF Writes
<1>11. ASSUME NEW c \in Context, DropContext(c) PROVE Writes /\ QueueTyped' /\ ConfigsTyped'
  <2>1. contextIndex[c] \in SUBSET TaskId
    BY <1>1 DEF MapsTyped
  <2>2. deleteContext(c) /\ execAsync(<<[op |-> "drop", ids |-> contextIndex[c]]>>)
        /\ Revoked(contextIndex[c])
    BY <1>11 DEF DropContext
  <2>3. Drops(c)
    BY <2>2 DEF Drops, deleteContext, Without
  <2>4. wire' = Append(wire, [op |-> "drop", ids |-> contextIndex[c]])
    BY <1>1, <1>3, <2>1, <2>2, SentCommands, WireAppends
  <2>5. QueueTyped'
    <3>1. keepInQueue({i \in DOMAIN queue : queue[i].context # c})
      BY <2>2 DEF deleteContext
    <3> QED  BY <1>1, <3>1, KeepInQueueType
  <2>6. ConfigsTyped'
    BY <1>1, <2>2 DEF deleteContext, ConfigsTyped
  <2> QED  BY <1>3, <2>2, <2>3, <2>4, <2>5, <2>6 DEF Writes
<1> QED  BY <1>5, <1>6, <1>7, <1>9, <1>10, <1>11, <1>8, CancelWrites DEF Write

-----------------------------------------------------------------------------
(* The base is kept                                                        *)

LEMMA FiledExcept ==
  ASSUME NEW map \in [TaskId -> Task \cup {NoTask}], Filed(map), NEW id \in TaskId,
         NEW task \in Task \cup {NoTask}, task # NoTask => task.id = id
  PROVE  Filed([map EXCEPT ![id] = task])
BY DEF Filed

LEMMA FiledWithout ==
  ASSUME NEW map \in [TaskId -> Task \cup {NoTask}], Filed(map), NEW ids
  PROVE  Filed(Without(map, ids))
BY DEF Filed, Without

(* Whatever a command does, Redis files tasks under their ids.             *)
LEMMA ApplyFiled ==
  ASSUME NEW r \in RedisState, Filed(r.active), Filed(r.dead), Filed(r.items), NEW c \in Command
  PROVE  LET q == Apply(r, c) IN Filed(q.active) /\ Filed(q.dead) /\ Filed(q.items)
<1> PICK q : q = Apply(r, c)
  OBVIOUS
<1> SUFFICES Filed(q.active) /\ Filed(q.dead) /\ Filed(q.items)
  OBVIOUS
<1>0. /\ r.active \in [TaskId -> Task \cup {NoTask}] /\ r.dead \in [TaskId -> Task \cup {NoTask}]
      /\ r.items \in [TaskId -> Task \cup {NoTask}]
  BY RedisFields
<1>1. c.op \in Carriers => c.task \in Task /\ c.task.id \in TaskId
  BY CommandFields DEF Task
<1>2. c.op \in Carriers =>
        /\ Filed([r.active EXCEPT ![c.task.id] = c.task])
        /\ Filed([r.active EXCEPT ![c.task.id] = NoTask])
        /\ Filed([r.dead EXCEPT ![c.task.id] = c.task])
        /\ Filed([r.items EXCEPT ![c.task.id] = c.task])
  BY <1>0, <1>1, FiledExcept
<1>3. c.op \in {"unqueue", "hget", "hdel"} => Filed([r.items EXCEPT ![c.id] = NoTask])
  BY <1>0, CommandFields, FiledExcept
<1>4. Filed(Without(r.active, c.ids)) /\ Filed(Without(r.dead, c.ids)) /\ Filed(Without(r.items, c.ids))
  BY <1>0, FiledWithout
<1>5. CASE c.op \in {"store", "queue"}
  BY <1>2, <1>5, ApplyEffects DEF Leaves, Carriers
<1>6. CASE c.op \in {"restore", "retire"}
  BY <1>2, <1>6, ApplyEffects DEF Leaves, Carriers
<1>7. CASE c.op \in {"unqueue", "hget", "hdel"}
  BY <1>3, <1>7, ApplyEffects DEF Leaves
<1>8. CASE c.op \in {"evict", "drop"}
  BY <1>4, <1>8, ApplyEffects DEF Leaves
<1> QED  BY <1>5, <1>6, <1>7, <1>8, CommandFields DEF Carriers

(* Wires: what is sent comes last, what is executed was first.             *)
LEMMA WireLast ==
  ASSUME NEW w \in Seq(Command), NEW c \in Command
  PROVE  /\ Append(w, c) \in Seq(Command) /\ Len(w) \in Nat /\ Len(Append(w, c)) = Len(w) + 1
         /\ Append(w, c)[Len(w) + 1] = c
         /\ \A i \in 1..Len(w) : Append(w, c)[i] = w[i] /\ w[i] \in Command
BY AppendProperties, ElementOfSeq, LenProperties

LEMMA WireFirst ==
  ASSUME NEW w \in Seq(Command), w # <<>>
  PROVE  /\ Tail(w) \in Seq(Command) /\ Len(w) \in Nat /\ Len(w) >= 1 /\ Len(Tail(w)) = Len(w) - 1
         /\ Head(w) = w[1] /\ Head(w) \in Command
         /\ \A i \in 1..Len(Tail(w)) : i + 1 \in 1..Len(w) /\ Tail(w)[i] = w[i + 1]
<1>1. Len(w) \in Nat /\ Len(w) >= 1
  BY EmptySeq, LenProperties
<1> QED  BY <1>1, HeadTailProperties

(* The commands of a write are not awaited.                                *)
LEMMA AwaitsKeptBySending ==
  ASSUME wire \in Seq(Command), AwaitsOne, UNCHANGED loop,
         NEW c \in Command, ~IsAwaited(c), wire' = Append(wire, c)
  PROVE  AwaitsOne'
<1>1. PICK n \in Nat : n = Len(wire)
  BY WireLast
<1>2. /\ Len(wire') = n + 1 /\ wire'[n + 1] = c
      /\ \A i \in 1..n : wire'[i] = wire[i]
  BY <1>1, WireLast
<1>3. \A i \in 1..(n + 1) : IsAwaited(wire'[i]) => i \in 1..n /\ IsAwaited(wire[i])
  BY <1>2
<1> QED  BY <1>1, <1>2, <1>3 DEF AwaitsOne

LEMMA AwaitsKeptByTwo ==
  ASSUME wire \in Seq(Command), AwaitsOne, UNCHANGED loop,
         NEW c \in Command, ~IsAwaited(c), NEW d \in Command, ~IsAwaited(d),
         wire' = Append(Append(wire, c), d)
  PROVE  AwaitsOne'
<1>1. PICK n \in Nat : n = Len(wire)
  BY WireLast
<1>2. /\ Len(Append(wire, c)) = n + 1 /\ Append(wire, c) \in Seq(Command)
      /\ Append(wire, c)[n + 1] = c
      /\ \A i \in 1..n : Append(wire, c)[i] = wire[i]
  BY <1>1, WireLast
<1>3. /\ Len(wire') = n + 2 /\ wire'[n + 2] = d
      /\ \A i \in 1..(n + 1) : wire'[i] = Append(wire, c)[i]
  <2>1. (n + 1) + 1 = n + 2
    OBVIOUS
  <2> QED  BY <1>2, <2>1, WireLast
<1>4. n + 1 \in 1..(n + 1)
  OBVIOUS
<1>5. wire'[n + 1] = c /\ \A i \in 1..n : wire'[i] = wire[i]
  BY <1>2, <1>3, <1>4
<1>6. \A i \in 1..(n + 2) : IsAwaited(wire'[i]) => i \in 1..n /\ IsAwaited(wire[i])
  BY <1>3, <1>5
<1> QED  BY <1>1, <1>3, <1>5, <1>6 DEF AwaitsOne

NoneAwaited == \A i \in 1..Len(wire) : ~IsAwaited(wire[i])

LEMMA NoneAwaitedOffAwait ==
  ASSUME AwaitsOne, loop.pc \notin {"fetching", "deleting", "restoring"}
  PROVE  NoneAwaited
BY DEF AwaitsOne, NoneAwaited, IsAwaited, AwaitedAt

LEMMA NoneAwaitedIsSound == NoneAwaited' => AwaitsOne'
BY DEF NoneAwaited, AwaitsOne

LEMMA AwaitsWhatItSends ==
  ASSUME wire \in Seq(Command), NoneAwaited, NEW c \in Command, wire' = Append(wire, c),
         loop'.pc = AwaitedAt[c.op], loop'.id = SubjectOf(c)
  PROVE  AwaitsOne'
<1>1. PICK n \in Nat : n = Len(wire)
  BY WireLast
<1>2. /\ Len(wire') = n + 1 /\ wire'[n + 1] = c
      /\ \A i \in 1..n : wire'[i] = wire[i]
  BY <1>1, WireLast
<1>3. \A i \in 1..(n + 1) : IsAwaited(wire'[i]) => i = n + 1
  BY <1>1, <1>2 DEF NoneAwaited
<1> QED  BY <1>2, <1>3 DEF AwaitsOne

(* Once the oldest command is gone: the rest, of which none is awaited if  *)
(* it was.                                                                 *)
LEMMA AwaitsOnTail ==
  ASSUME wire \in Seq(Command), AwaitsOne, wire # <<>>, wire' = Tail(wire)
  PROVE  /\ IsAwaited(Head(wire)) =>
              /\ NoneAwaited' /\ loop.pc = AwaitedAt[Head(wire).op] /\ loop.id = SubjectOf(Head(wire))
         /\ UNCHANGED loop => AwaitsOne'
<1>1. /\ Len(wire) \in Nat /\ Len(wire) >= 1 /\ Len(wire') = Len(wire) - 1 /\ Head(wire) = wire[1]
      /\ \A i \in 1..Len(wire') : i + 1 \in 1..Len(wire) /\ wire'[i] = wire[i + 1]
  BY WireFirst
<1>2. 1 \in 1..Len(wire)
  BY <1>1
<1>3. ASSUME IsAwaited(Head(wire))
      PROVE  NoneAwaited' /\ loop.pc = AwaitedAt[Head(wire).op] /\ loop.id = SubjectOf(Head(wire))
  <2>1. loop.pc = AwaitedAt[Head(wire).op] /\ loop.id = SubjectOf(Head(wire))
    BY <1>1, <1>2, <1>3 DEF AwaitsOne
  <2>2. \A j \in 1..Len(wire) : IsAwaited(wire[j]) => 1 = j
    BY <1>1, <1>2, <1>3 DEF AwaitsOne
  <2>3. ASSUME NEW i \in 1..Len(wire') PROVE ~IsAwaited(wire'[i])
    <3>1. i + 1 # 1 /\ i + 1 \in 1..Len(wire) /\ wire'[i] = wire[i + 1]
      BY <1>1
    <3> QED  BY <2>2, <3>1
  <2> QED  BY <2>1, <2>3 DEF NoneAwaited
<1>4. ASSUME UNCHANGED loop PROVE AwaitsOne'
  <2> SUFFICES ASSUME NEW i \in 1..Len(wire'), IsAwaited(wire'[i])
               PROVE  /\ loop.pc = AwaitedAt[wire'[i].op] /\ loop.id = SubjectOf(wire'[i])
                      /\ \A j \in 1..Len(wire') : IsAwaited(wire'[j]) => i = j
    BY <1>4 DEF AwaitsOne
  <2>1. i + 1 \in 1..Len(wire) /\ wire'[i] = wire[i + 1]
    BY <1>1
  <2>2. loop.pc = AwaitedAt[wire'[i].op] /\ loop.id = SubjectOf(wire'[i])
    BY <2>1 DEF AwaitsOne
  <2>3. ASSUME NEW j \in 1..Len(wire'), IsAwaited(wire'[j]) PROVE i = j
    <3>1. j + 1 \in 1..Len(wire) /\ wire'[j] = wire[j + 1]
      BY <1>1
    <3>2. i + 1 = j + 1
      BY <2>1, <2>3, <3>1 DEF AwaitsOne
    <3> QED  BY <1>1, <3>2
  <2> QED  BY <2>2, <2>3
<1> QED  BY <1>3, <1>4

LEMMA LedgerTypes ==
  ASSUME LedgerTyped
  PROVE  /\ \A ids : Lost(ids) \/ Revoked(ids) => LedgerTyped'
         /\ \A task \in Task : Handed(task) => LedgerTyped'
         /\ \A task \in Task, r \in Request : Queued(task, r) => LedgerTyped'
         /\ \A r \in Request : due' = [due EXCEPT ![r] = "none"] /\ UNCHANGED handed => LedgerTyped'
         /\ UNCHANGED ledger => LedgerTyped'
BY DEF LedgerTyped, Lost, Revoked, Becomes, Handed, Carries, Queued, Due, ledger

LEMMA WritesKeepBase ==
  ASSUME Base, Writes
  PROVE  MapsTyped' /\ RemoteTyped' /\ AllFiled' /\ LoopHolds' /\ AwaitsOne' /\ DownIsEmpty'
<1>1. MapsTyped /\ RemoteTyped /\ AllFiled /\ LoopHolds /\ AwaitsOne
  BY TypeParts DEF Base
<1>2. mode = "open" /\ UNCHANGED <<redis, loop, mode, faulty, faults>>
  BY DEF Writes
<1>3. LoopHolds' /\ DownIsEmpty'
  BY <1>1, <1>2 DEF LoopHolds, DownIsEmpty
<1>4. /\ activeTasks \in [TaskId -> Task \cup {NoTask}] /\ Filed(activeTasks)
      /\ deadLetterTasks \in [TaskId -> Task \cup {NoTask}] /\ Filed(deadLetterTasks)
      /\ wire \in Seq(Command) /\ LedgerTyped
  BY <1>1 DEF MapsTyped, RemoteTyped, AllFiled
<1>5. (Filed(activeTasks') /\ Filed(deadLetterTasks')) => AllFiled'
  BY <1>1, <1>2 DEF AllFiled
<1>6. (wire' \in Seq(Command) /\ LedgerTyped') => RemoteTyped'
  BY <1>1, <1>2 DEF RemoteTyped
<1>7. ASSUME NEW task \in Task, setActive(task)
      PROVE  MapsTyped' /\ AllFiled'
  <2>1. activeTasks' = [activeTasks EXCEPT ![task.id] = task] /\ UNCHANGED deadLetterTasks
    BY <1>7 DEF setActive
  <2>2. task.id \in TaskId
    BY DEF Task
  <2>3. Filed(activeTasks') /\ Filed(deadLetterTasks')
    BY <1>4, <2>1, <2>2, FiledExcept
  <2> QED  BY <1>1, <1>5, <1>7, <2>3, SetActiveType
<1>8. ASSUME NEW task \in Task, storeDeadLetter(task)
      PROVE  MapsTyped' /\ AllFiled'
  <2>1. /\ activeTasks' = [activeTasks EXCEPT ![task.id] = NoTask]
        /\ deadLetterTasks' = [deadLetterTasks EXCEPT ![task.id] = task]
    BY <1>8 DEF storeDeadLetter
  <2>2. task.id \in TaskId
    BY DEF Task
  <2>3. Filed(activeTasks') /\ Filed(deadLetterTasks')
    BY <1>4, <2>1, <2>2, FiledExcept
  <2> QED  BY <1>1, <1>5, <1>8, <2>3, StoreDeadLetterType
<1>9. ASSUME NEW c \in Command, ~IsAwaited(c), wire' = Append(wire, c)
      PROVE  wire' \in Seq(Command) /\ AwaitsOne'
  BY <1>1, <1>2, <1>4, <1>9, WireLast, AwaitsKeptBySending
<1>10. ASSUME NEW task \in Task, Queues(task), wire' = Append(wire, [op |-> "queue", task |-> task])
       PROVE  MapsTyped' /\ RemoteTyped' /\ AllFiled' /\ AwaitsOne'
  <2>1. [op |-> "queue", task |-> task] \in Command /\ ~IsAwaited([op |-> "queue", task |-> task])
    BY SentCommands DEF Carriers, IsAwaited
  <2>2. LedgerTyped'
    BY <1>4, <1>10, LedgerTypes DEF Queues
  <2> QED  BY <1>6, <1>7, <1>9, <1>10, <2>1, <2>2 DEF Queues
<1>11. ASSUME NEW task \in Task, Stores(task), wire' = Append(wire, [op |-> "store", task |-> task])
       PROVE  MapsTyped' /\ RemoteTyped' /\ AllFiled' /\ AwaitsOne'
  <2>1. [op |-> "store", task |-> task] \in Command /\ ~IsAwaited([op |-> "store", task |-> task])
    BY SentCommands DEF Carriers, IsAwaited
  <2>2. LedgerTyped'
    BY <1>4, <1>11, LedgerTypes DEF Stores, StoresNew
  <2> QED  BY <1>6, <1>7, <1>9, <1>11, <2>1, <2>2 DEF Stores
<1>12. ASSUME NEW task \in Task
       PROVE  [op |-> "retire", task |-> task] \in Command /\ ~IsAwaited([op |-> "retire", task |-> task])
  BY SentCommands DEF Carriers, IsAwaited
<1>13. ASSUME NEW task \in Task, Retires(task), wire' = Append(wire, [op |-> "retire", task |-> task])
       PROVE  MapsTyped' /\ RemoteTyped' /\ AllFiled' /\ AwaitsOne'
  <2>1. LedgerTyped'
    BY <1>4, <1>13, LedgerTypes DEF Retires
  <2> QED  BY <1>6, <1>8, <1>9, <1>12, <1>13, <2>1 DEF Retires
<1>14. ASSUME NEW task \in Task, RetiresQueued(task),
              wire' = Append(Append(wire, [op |-> "unqueue", id |-> task.id]),
                             [op |-> "retire", task |-> task])
       PROVE  MapsTyped' /\ RemoteTyped' /\ AllFiled' /\ AwaitsOne'
  <2>1. LedgerTyped'
    BY <1>4, <1>14, LedgerTypes DEF RetiresQueued
  <2>2. /\ [op |-> "unqueue", id |-> task.id] \in Command
        /\ ~IsAwaited([op |-> "unqueue", id |-> task.id])
    BY SentCommands DEF IsAwaited, Task
  <2>3. wire' \in Seq(Command)
    BY <1>4, <1>12, <1>14, <2>2, WireLast
  <2>4. AwaitsOne'
    BY <1>1, <1>2, <1>4, <1>12, <1>14, <2>2, AwaitsKeptByTwo
  <2> QED  BY <1>6, <1>8, <1>14, <2>1, <2>3, <2>4 DEF RetiresQueued
<1>15. ASSUME NEW ids \in SUBSET TaskId, evict(ids), UNCHANGED ledger,
              wire' = Append(wire, [op |-> "evict", ids |-> ids])
       PROVE  MapsTyped' /\ RemoteTyped' /\ AllFiled' /\ AwaitsOne'
  <2>1. [op |-> "evict", ids |-> ids] \in Command /\ ~IsAwaited([op |-> "evict", ids |-> ids])
    BY SentCommands DEF IsAwaited
  <2>2. deadLetterTasks' = Without(deadLetterTasks, ids) /\ UNCHANGED activeTasks
    BY <1>15 DEF evict, Without
  <2>3. Filed(activeTasks') /\ Filed(deadLetterTasks')
    BY <1>4, <2>2, FiledWithout
  <2> QED  BY <1>1, <1>4, <1>5, <1>6, <1>9, <1>15, <2>1, <2>3, EvictType, LedgerTypes
<1>16. ASSUME NEW c \in Context, Drops(c),
              wire' = Append(wire, [op |-> "drop", ids |-> contextIndex[c]])
       PROVE  MapsTyped' /\ RemoteTyped' /\ AllFiled' /\ AwaitsOne'
  <2>1. contextIndex[c] \in SUBSET TaskId
    BY <1>1 DEF MapsTyped
  <2>2. /\ [op |-> "drop", ids |-> contextIndex[c]] \in Command
        /\ ~IsAwaited([op |-> "drop", ids |-> contextIndex[c]])
    BY <2>1, SentCommands DEF IsAwaited
  <2>3. LedgerTyped'
    BY <1>4, <1>16, LedgerTypes DEF Drops
  <2>4. /\ activeTasks' \in [TaskId -> Task \cup {NoTask}] /\ Filed(activeTasks')
        /\ deadLetterTasks' \in [TaskId -> Task \cup {NoTask}] /\ Filed(deadLetterTasks')
    BY <1>4, <1>16, WithoutType, FiledWithout DEF Drops
  <2>5. MapsTyped'
    BY <1>1, <1>16, <2>4 DEF Drops, MapsTyped
  <2> QED  BY <1>5, <1>6, <1>9, <1>16, <2>2, <2>3, <2>4, <2>5
<1> QED  BY <1>3, <1>10, <1>11, <1>13, <1>14, <1>15, <1>16 DEF Writes

LEMMA BaseParts ==
  /\ Base <=> /\ MapsTyped /\ QueueTyped /\ ConfigsTyped /\ RemoteTyped
              /\ AllFiled /\ LoopHolds /\ AwaitsOne /\ DownIsEmpty
  /\ (/\ MapsTyped' /\ QueueTyped' /\ ConfigsTyped' /\ RemoteTyped'
      /\ AllFiled' /\ LoopHolds' /\ AwaitsOne' /\ DownIsEmpty') => Base'
BY TypeParts DEF Base

LEMMA SameMaps ==
  ASSUME MapsTyped, ConfigsTyped, UNCHANGED <<mapVars, pushConfigs>>
  PROVE  MapsTyped' /\ ConfigsTyped'
BY DEF MapsTyped, ConfigsTyped, mapVars

LEMMA SameFiles ==
  ASSUME AllFiled, UNCHANGED mapVars, Filed(redis'.active), Filed(redis'.dead), Filed(redis'.items)
  PROVE  AllFiled'
BY DEF AllFiled, mapVars

LEMMA SameQueue ==
  ASSUME QueueTyped, UNCHANGED queueVars
  PROVE  QueueTyped'
BY DEF QueueTyped, queueVars

LEMMA LoopFields ==
  ASSUME RemoteTyped
  PROVE  /\ loop = [pc |-> loop.pc, id |-> loop.id, task |-> loop.task]
         /\ loop.pc \in LoopPC /\ loop.id \in TaskId \cup {NoTask} /\ loop.task \in Task \cup {NoTask}
         /\ \A pc \in LoopPC : /\ [loop EXCEPT !.pc = pc].pc = pc
                               /\ [loop EXCEPT !.pc = pc].id = loop.id
                               /\ [loop EXCEPT !.pc = pc].task = loop.task
BY DEF RemoteTyped

(* Idle: off, or waiting for an entry.                                     *)
LEMMA IdleLoop ==
  /\ \A l \in {Off, Popping} :
       /\ l \in [pc: LoopPC, id: TaskId \cup {NoTask}, task: Task \cup {NoTask}]
       /\ l.pc \in {"off", "popping"} /\ l.id = NoTask /\ l.task = NoTask
  /\ \A waiting : LoopAgain(waiting) => loop' \in {Off, Popping}
BY DEF Off, Popping, LoopPC, LoopAgain

LEMMA IdleLoopHolds ==
  ASSUME loop' \in {Off, Popping}
  PROVE  LoopHolds'
BY IdleLoop DEF LoopHolds

LEMMA WorkKeepsBase ==
  ASSUME Base, Work
  PROVE  Base'
<1>1. /\ MapsTyped /\ QueueTyped /\ ConfigsTyped /\ RemoteTyped
      /\ AllFiled /\ LoopHolds /\ AwaitsOne /\ DownIsEmpty
  BY BaseParts
<1>2. PICK w \in Worker : Dequeue(w) \/ Abort(w) \/ Use(w)
  BY DEF Work
<1>3. UNCHANGED <<mapVars, pushConfigs, remoteVars, statusVars, ledger>>
  BY <1>2 DEF Dequeue, Abort, Use
<1>4. MapsTyped' /\ ConfigsTyped' /\ AllFiled'
  BY <1>1, <1>3, SameMaps, SameFiles DEF remoteVars, AllFiled
<1>5. QueueTyped'
  <2>1. CASE Dequeue(w)
    BY <1>1, <2>1, AppendProperties DEF Dequeue, QueueTyped
  <2>2. CASE Abort(w)
    BY <1>1, <2>2, AbortDequeueType DEF Abort
  <2>3. CASE Use(w)
    BY <1>1, <2>3 DEF Use, useResolved, QueueTyped
  <2> QED  BY <1>2, <2>1, <2>2, <2>3
<1>6. loop' = loop \/ (mode = "open" /\ loop.pc = "off" /\ loop' = Popping)
  BY <1>2 DEF Dequeue, Abort, Use
<1>7. RemoteTyped'
  BY <1>1, <1>3, <1>6, IdleLoop, LedgerTypes DEF RemoteTyped, remoteVars, statusVars
<1>8. CASE loop' = loop
  BY <1>1, <1>3, <1>4, <1>5, <1>7, <1>8, BaseParts
     DEF LoopHolds, AwaitsOne, DownIsEmpty, remoteVars, statusVars
<1>9. CASE mode = "open" /\ loop.pc = "off" /\ loop' = Popping
  <2>1. NoneAwaited'
    <3>1. NoneAwaited
      BY <1>1, <1>9, NoneAwaitedOffAwait
    <3> QED  BY <1>3, <3>1 DEF NoneAwaited, remoteVars
  <2>2. DownIsEmpty'
    BY <1>3, <1>9 DEF DownIsEmpty, statusVars
  <2> QED  BY <1>4, <1>5, <1>7, <1>9, <2>1, <2>2, NoneAwaitedIsSound, IdleLoopHolds, BaseParts
<1> QED  BY <1>6, <1>8, <1>9

LEMMA LocalQueueType ==
  ASSUME QueueTyped, NEW id, dropFromLocalQueue(id)
  PROVE  queue' \in Seq(Task)
<1>1. CASE UNCHANGED queue
  BY <1>1 DEF QueueTyped
<1>2. CASE \E i \in DOMAIN queue : queue' = RemoveAt(queue, i)
  <2>1. PICK i \in DOMAIN queue : queue' = RemoveAt(queue, i)
    BY <1>2
  <2>2. i \in 1..Len(queue) /\ queue \in Seq(Task)
    BY LenProperties DEF QueueTyped
  <2> QED  BY <2>1, <2>2, RemoveAtProperties
<1> QED  BY <1>1, <1>2 DEF dropFromLocalQueue

(* The loop sends what it awaits next.                                     *)
LEMMA LoopSendsKeepsBase ==
  ASSUME Base, QueueTyped', UNCHANGED <<localVars, redis, ledger>>,
         loop.pc \in {"popped", "fetched", "deleted"}, NEW c \in Command, IsAwaited(c),
         LoopSends(c, AwaitedAt[c.op]), SubjectOf(c) = loop.id,
         c.op \in {"hdel", "restore"} => loop.task # NoTask
  PROVE  Base'
<1>1. /\ MapsTyped /\ ConfigsTyped /\ RemoteTyped
      /\ AllFiled /\ LoopHolds /\ AwaitsOne
  BY BaseParts
<1>2. mode = "open" /\ wire' = Append(wire, c) /\ loop' = [loop EXCEPT !.pc = AwaitedAt[c.op]]
  BY DEF LoopSends
<1>3. PICK pc : pc = AwaitedAt[c.op]
  OBVIOUS
<1>4. pc \in {"fetching", "deleting", "restoring"} /\ (pc = "deleting" => c.op = "hdel")
      /\ pc \in LoopPC
  BY <1>3 DEF IsAwaited, AwaitedAt, LoopPC
<1>5. loop'.pc = pc /\ loop'.id = loop.id /\ loop'.task = loop.task
  BY <1>1, <1>2, <1>3, <1>4, LoopFields
<1>6. wire \in Seq(Command) /\ wire' \in Seq(Command)
  BY <1>1, <1>2, WireLast DEF RemoteTyped
<1>7. RemoteTyped'
  BY <1>1, <1>2, <1>3, <1>4, <1>6, LedgerTypes DEF RemoteTyped, localVars, statusVars
<1>8. LoopHolds'
  BY <1>1, <1>4, <1>5 DEF LoopHolds
<1>9. AwaitsOne'
  <2>1. NoneAwaited
    BY <1>1, NoneAwaitedOffAwait
  <2> QED  BY <1>2, <1>3, <1>5, <1>6, <2>1, AwaitsWhatItSends
<1>10. DownIsEmpty'
  BY <1>2 DEF DownIsEmpty, localVars, statusVars
<1>11. MapsTyped' /\ ConfigsTyped' /\ AllFiled'
  BY <1>1, SameMaps, SameFiles DEF localVars, AllFiled
<1> QED  BY <1>7, <1>8, <1>9, <1>10, <1>11, BaseParts

(* The loop goes idle while it awaits nothing.                             *)
LEMMA GoingIdleKeepsBase ==
  ASSUME Base, QueueTyped', UNCHANGED <<localVars, remoteVars>>, LedgerTyped',
         loop.pc \notin {"fetching", "deleting", "restoring"},
         loop' \in {Off, Popping}, mode = "down" => loop' = Off
  PROVE  Base'
<1>1. /\ MapsTyped /\ ConfigsTyped /\ RemoteTyped
      /\ AllFiled /\ AwaitsOne /\ DownIsEmpty
  BY BaseParts
<1>2. MapsTyped' /\ ConfigsTyped' /\ AllFiled'
  BY <1>1, SameMaps, SameFiles DEF localVars, remoteVars, AllFiled
<1>3. RemoteTyped'
  BY <1>1, IdleLoop DEF RemoteTyped, localVars, remoteVars, statusVars
<1>4. AwaitsOne'
  <2>1. NoneAwaited
    BY <1>1, NoneAwaitedOffAwait
  <2> QED  BY <2>1, NoneAwaitedIsSound DEF NoneAwaited, remoteVars
<1>5. DownIsEmpty'
  BY <1>1 DEF DownIsEmpty, localVars, remoteVars, statusVars
<1> QED  BY <1>2, <1>3, <1>4, <1>5, IdleLoopHolds, BaseParts

LEMMA LoopKeepsBase ==
  ASSUME Base, Loop
  PROVE  Base'
<1>1. /\ QueueTyped /\ RemoteTyped /\ LoopHolds
  BY BaseParts
<1>2. /\ loop.pc \in LoopPC /\ loop.id \in TaskId \cup {NoTask} /\ loop.task \in Task \cup {NoTask}
      /\ LedgerTyped
  BY <1>1, LoopFields DEF RemoteTyped
<1>3. loop.pc \notin {"off", "popping"} => loop.id \in TaskId /\ mode # "down"
  BY <1>1, <1>2, BaseParts DEF LoopHolds, DownIsEmpty, Off
<1>4. ASSUME UNCHANGED queueVars PROVE QueueTyped'
  BY <1>1, <1>4, SameQueue
<1>5. CASE LoopStops
  <2>1. loop.pc = "popping" /\ loop' = Off /\ UNCHANGED <<localVars, queueVars, remoteVars, ledger>>
    BY <1>5 DEF LoopStops
  <2> QED  BY <1>2, <1>4, <2>1, GoingIdleKeepsBase, LedgerTypes
<1>6. CASE LoopFetches
  <2>1. PICK c : c = [op |-> "hget", id |-> loop.id]
    OBVIOUS
  <2>2. loop.pc = "popped" /\ UNCHANGED <<localVars, queueVars, redis, ledger>>
        /\ LoopSends(c, "fetching")
    BY <1>6, <2>1 DEF LoopFetches
  <2>3. c \in Command /\ IsAwaited(c) /\ AwaitedAt[c.op] = "fetching" /\ SubjectOf(c) = loop.id
        /\ c.op \notin {"hdel", "restore"}
    BY <1>3, <2>1, <2>2, SentCommands DEF IsAwaited, AwaitedAt, SubjectOf
  <2> QED  BY <1>4, <2>2, <2>3, LoopSendsKeepsBase
<1>7. CASE LoopDeletes
  <2>1. loop.pc = "fetched" /\ UNCHANGED <<localVars, queueVars, redis, ledger>>
    BY <1>7 DEF LoopDeletes
  <2>2. CASE loop.task # NoTask
    <3>1. PICK c : c = [op |-> "hdel", id |-> loop.id]
      OBVIOUS
    <3>2. LoopSends(c, "deleting")
      BY <1>7, <2>2, <3>1 DEF LoopDeletes
    <3>3. c \in Command /\ IsAwaited(c) /\ AwaitedAt[c.op] = "deleting" /\ SubjectOf(c) = loop.id
      BY <1>3, <2>1, <3>1, SentCommands DEF IsAwaited, AwaitedAt, SubjectOf
    <3> QED  BY <1>4, <2>1, <2>2, <3>2, <3>3, LoopSendsKeepsBase
  <2>3. CASE loop.task = NoTask
    <3>1. LoopAgain(waiters) /\ UNCHANGED wire
      BY <1>7, <2>3 DEF LoopDeletes
    <3>2. loop' \in {Off, Popping} /\ UNCHANGED remoteVars
      BY <2>1, <3>1, IdleLoop DEF remoteVars
    <3> QED  BY <1>2, <1>3, <1>4, <2>1, <3>2, GoingIdleKeepsBase, LedgerTypes
  <2> QED  BY <2>2, <2>3
<1>8. CASE LoopDelivers
  <2>1. /\ loop.pc = "deleted" /\ waiters # <<>> /\ dropFromLocalQueue(loop.id)
        /\ resolved' = [resolved EXCEPT ![Head(waiters)] = loop.task]
        /\ waiters' = Tail(waiters) /\ Handed(loop.task)
        /\ LoopAgain(Tail(waiters)) /\ UNCHANGED <<localVars, remoteVars>>
    BY <1>8 DEF LoopDelivers
  <2>2. queue' \in Seq(Task)
    BY <1>1, <2>1, LocalQueueType
  <2>3. QueueTyped'
    BY <1>1, <1>2, <2>1, <2>2, HeadTailProperties DEF QueueTyped
  <2>4. LedgerTyped'
    BY <1>1, <1>2, <2>1, LedgerTypes DEF LoopHolds
  <2>5. loop' \in {Off, Popping}
    BY <2>1, IdleLoop
  <2> QED  BY <1>3, <2>1, <2>3, <2>4, <2>5, GoingIdleKeepsBase
<1>9. CASE LoopRestores
  <2>1. PICK c : c = [op |-> "restore", task |-> loop.task]
    OBVIOUS
  <2>2. /\ loop.pc = "deleted" /\ dropFromLocalQueue(loop.id) /\ LoopSends(c, "restoring")
        /\ UNCHANGED <<localVars, waiters, resolved, redis, ledger>>
    BY <1>9, <2>1 DEF LoopRestores
  <2>3. QueueTyped'
    <3>1. queue' \in Seq(Task)
      BY <1>1, <2>2, LocalQueueType
    <3> QED  BY <1>1, <2>2, <3>1 DEF QueueTyped
  <2>4. loop.task \in Task /\ loop.task.id = loop.id
    BY <1>1, <1>2, <2>2 DEF LoopHolds
  <2>5. c \in Command /\ IsAwaited(c) /\ AwaitedAt[c.op] = "restoring" /\ SubjectOf(c) = loop.id
    BY <2>1, <2>4, SentCommands DEF IsAwaited, AwaitedAt, SubjectOf, Carriers
  <2> QED  BY <2>2, <2>3, <2>4, <2>5, LoopSendsKeepsBase, NoTaskAssumption
<1>10. CASE LoopEnds
  <2>1. /\ loop.pc = "restored" /\ LoopAgain(waiters)
        /\ UNCHANGED <<localVars, queueVars, remoteVars, ledger>>
    BY <1>10 DEF LoopEnds
  <2>2. loop' \in {Off, Popping}
    BY <2>1, IdleLoop
  <2> QED  BY <1>2, <1>3, <1>4, <2>1, <2>2, GoingIdleKeepsBase, LedgerTypes
<1>11. CASE LoopCloses
  <2>1. /\ loop.pc \in {"popped", "fetched", "deleted", "restored"} /\ loop' = Off
        /\ UNCHANGED <<localVars, queueVars, remoteVars>>
        /\ \E ids : Lost(ids)
    BY <1>11 DEF LoopCloses
  <2>2. LedgerTyped'
    BY <1>2, <2>1, LedgerTypes
  <2> QED  BY <1>4, <2>1, <2>2, GoingIdleKeepsBase
<1> QED  BY <1>5, <1>6, <1>7, <1>8, <1>9, <1>10, <1>11 DEF Loop

LEMMA PopKeepsBase ==
  ASSUME Base, RedisPops
  PROVE  Base'
<1>1. /\ MapsTyped /\ QueueTyped /\ ConfigsTyped /\ RemoteTyped
      /\ AllFiled /\ LoopHolds /\ AwaitsOne /\ DownIsEmpty
  BY BaseParts
<1>2. PICK o : o = Tail(redis.order)
  OBVIOUS
<1>3. /\ loop.pc = "popping" /\ redis.order # <<>> /\ redis' = [redis EXCEPT !.order = o]
      /\ loop' = [loop EXCEPT !.pc = "popped", !.id = Head(redis.order)]
      /\ UNCHANGED <<localVars, queueVars, wire, ledger>>
  BY <1>2 DEF RedisPops
<1>4. redis \in RedisState /\ redis.order \in Seq(TaskId)
  BY <1>1, RedisFields DEF RemoteTyped
<1>5. o \in Seq(TaskId) /\ Head(redis.order) \in TaskId
  BY <1>2, <1>3, <1>4, HeadTailProperties
<1>6. redis' \in RedisState /\ redis'.active = redis.active /\ redis'.dead = redis.dead
      /\ redis'.items = redis.items
  BY <1>3, <1>4, <1>5 DEF RedisState
<1>7. MapsTyped' /\ ConfigsTyped' /\ QueueTyped' /\ AllFiled'
  BY <1>1, <1>3, <1>6, SameMaps, SameFiles, SameQueue DEF localVars, AllFiled
<1>8. loop'.pc = "popped" /\ loop'.id = Head(redis.order) /\ loop'.task = loop.task
      /\ loop' \in [pc: LoopPC, id: TaskId \cup {NoTask}, task: Task \cup {NoTask}]
  BY <1>1, <1>3, <1>5 DEF RemoteTyped, LoopPC
<1>9. RemoteTyped'
  BY <1>1, <1>3, <1>6, <1>8, LedgerTypes DEF RemoteTyped, localVars, statusVars
<1>10. LoopHolds'
  BY <1>1, <1>3, <1>5, <1>8, UndefinedAssumption DEF LoopHolds
<1>11. AwaitsOne'
  <2>1. NoneAwaited
    BY <1>1, <1>3, NoneAwaitedOffAwait
  <2> QED  BY <1>3, <2>1, NoneAwaitedIsSound DEF NoneAwaited
<1>12. DownIsEmpty'
  BY <1>1, <1>3 DEF DownIsEmpty, Off, localVars, statusVars
<1> QED  BY <1>7, <1>9, <1>10, <1>11, <1>12, BaseParts

LEMMA ApplyToRedis ==
  ASSUME Base, wire # <<>>, redis' \in {redis, Apply(redis, Head(wire))}
  PROVE  /\ redis' \in RedisState /\ Head(wire) \in Command
         /\ Filed(redis'.active) /\ Filed(redis'.dead) /\ Filed(redis'.items)
<1>1. RemoteTyped /\ AllFiled
  BY BaseParts
<1>2. redis \in RedisState /\ Head(wire) \in Command
  BY <1>1, WireFirst DEF RemoteTyped
<1>3. Filed(redis.active) /\ Filed(redis.dead) /\ Filed(redis.items)
  BY <1>1 DEF AllFiled
<1>4. CASE redis' = redis
  BY <1>2, <1>3, <1>4
<1>5. CASE redis' = Apply(redis, Head(wire))
  <2>1. redis' \in RedisState
    BY <1>2, <1>5, ApplyEffects
  <2>2. Filed(redis'.active) /\ Filed(redis'.dead) /\ Filed(redis'.items)
    BY <1>2, <1>3, <1>5, ApplyFiled
  <2> QED  BY <1>2, <2>1, <2>2
<1> QED  BY <1>4, <1>5

LEMMA ExecuteKeepsBase ==
  ASSUME Base, RedisExecutes
  PROVE  Base'
<1>1. /\ MapsTyped /\ QueueTyped /\ ConfigsTyped /\ RemoteTyped
      /\ AllFiled /\ LoopHolds /\ AwaitsOne /\ DownIsEmpty
  BY BaseParts
<1>2. PICK c : c = Head(wire)
  OBVIOUS
<1>3. /\ wire # <<>> /\ redis' = Apply(redis, c) /\ wire' = Tail(wire) /\ loop' = Answered(c)
      /\ UNCHANGED <<localVars, queueVars, ledger>>
  BY <1>2 DEF RedisExecutes
<1>4. /\ redis' \in RedisState /\ c \in Command
      /\ Filed(redis'.active) /\ Filed(redis'.dead) /\ Filed(redis'.items)
  BY <1>2, <1>3, ApplyToRedis
<1>5. MapsTyped' /\ ConfigsTyped' /\ QueueTyped' /\ AllFiled'
  BY <1>1, <1>3, <1>4, SameMaps, SameFiles, SameQueue DEF localVars
<1>6. wire' \in Seq(Command) /\ wire \in Seq(Command)
  BY <1>1, <1>3, WireFirst DEF RemoteTyped
<1>7. DownIsEmpty'
  BY <1>1, <1>3 DEF DownIsEmpty, localVars, statusVars
<1>8. loop' \in [pc: LoopPC, id: TaskId \cup {NoTask}, task: Task \cup {NoTask}] => RemoteTyped'
  BY <1>1, <1>3, <1>4, <1>6, LedgerTypes DEF RemoteTyped, localVars, statusVars
<1>9. CASE ~IsAwaited(c)
  <2>1. loop' = loop
    BY <1>3, <1>9 DEF Answered, IsAwaited
  <2>2. AwaitsOne'
    BY <1>1, <1>3, <1>6, <2>1, AwaitsOnTail
  <2>3. RemoteTyped' /\ LoopHolds'
    BY <1>1, <1>8, <2>1 DEF RemoteTyped, LoopHolds
  <2> QED  BY <1>5, <1>7, <2>2, <2>3, BaseParts
<1>10. CASE IsAwaited(c)
  <2>1. NoneAwaited' /\ loop.pc = AwaitedAt[c.op] /\ loop.id = SubjectOf(c)
    BY <1>1, <1>2, <1>3, <1>6, <1>10, AwaitsOnTail
  <2>2. loop.id # NoTask
    BY <1>1, <1>10, <2>1 DEF LoopHolds, IsAwaited, AwaitedAt
  <2>3. CASE c.op = "hget"
    <3>1. loop' = [loop EXCEPT !.pc = "fetched", !.task = redis.items[c.id]]
      BY <1>3, <2>3 DEF Answered
    <3>2. c.id = loop.id /\ c.id \in TaskId
      BY <1>4, <2>1, <2>3, CommandFields DEF SubjectOf
    <3>3. redis.items[c.id] \in Task \cup {NoTask} /\ (redis.items[c.id] # NoTask => redis.items[c.id].id = c.id)
      BY <1>1, <3>2, RedisFields DEF RemoteTyped, AllFiled, Filed
    <3>4. loop'.pc = "fetched" /\ loop'.id = loop.id /\ loop'.task = redis.items[c.id]
          /\ loop' \in [pc: LoopPC, id: TaskId \cup {NoTask}, task: Task \cup {NoTask}]
      BY <1>1, <3>1, <3>3 DEF RemoteTyped, LoopPC
    <3>5. LoopHolds'
      BY <2>2, <3>2, <3>3, <3>4 DEF LoopHolds
    <3> QED  BY <1>5, <1>7, <1>8, <2>1, <3>4, <3>5, NoneAwaitedIsSound, BaseParts
  <2>4. CASE c.op \in {"hdel", "restore"}
    <3>1. PICK pc : pc = IF c.op = "hdel" THEN "deleted" ELSE "restored"
      OBVIOUS
    <3>2. loop' = [loop EXCEPT !.pc = pc] /\ pc \in LoopPC
      BY <1>3, <2>4, <3>1 DEF Answered, LoopPC
    <3>3. loop'.pc = pc /\ loop'.id = loop.id /\ loop'.task = loop.task
          /\ loop' \in [pc: LoopPC, id: TaskId \cup {NoTask}, task: Task \cup {NoTask}]
      BY <1>1, <3>2 DEF RemoteTyped
    <3>4. pc = "deleted" => loop.task # NoTask
      BY <1>1, <2>1, <2>4, <3>1 DEF LoopHolds, AwaitedAt
    <3>5. LoopHolds'
      BY <1>1, <2>2, <3>1, <3>3, <3>4 DEF LoopHolds
    <3> QED  BY <1>5, <1>7, <1>8, <2>1, <3>3, <3>5, NoneAwaitedIsSound, BaseParts
  <2> QED  BY <1>10, <2>3, <2>4 DEF IsAwaited
<1> QED  BY <1>9, <1>10

LEMMA FailureKeepsBase ==
  ASSUME Base, CommandFails
  PROVE  Base'
<1>1. /\ MapsTyped /\ QueueTyped /\ ConfigsTyped /\ RemoteTyped
      /\ AllFiled /\ LoopHolds /\ AwaitsOne /\ DownIsEmpty
  BY BaseParts
<1>2. PICK c : c = Head(wire)
  OBVIOUS
<1>3. /\ wire # <<>> /\ redis' \in {redis, Apply(redis, Head(wire))} /\ wire' = Tail(wire)
      /\ Lost(Carried(c)) /\ faults < MaxFaults /\ faults' = faults + 1
      /\ UNCHANGED <<mapVars, queueVars, pushConfigs, mode>>
  BY <1>2 DEF CommandFails
<1>4. \/ IsAwaited(c) /\ LoopAgain(waiters) /\ UNCHANGED faulty
      \/ ~IsAwaited(c) /\ faulty' = TRUE /\ UNCHANGED loop
  BY <1>2 DEF CommandFails, IsAwaited
<1>5. /\ redis' \in RedisState /\ c \in Command
      /\ Filed(redis'.active) /\ Filed(redis'.dead) /\ Filed(redis'.items)
  BY <1>2, <1>3, ApplyToRedis
<1>6. MapsTyped' /\ ConfigsTyped' /\ QueueTyped' /\ AllFiled'
  BY <1>1, <1>3, <1>5, SameMaps, SameFiles, SameQueue
<1>7. wire' \in Seq(Command) /\ wire \in Seq(Command)
  BY <1>1, <1>3, WireFirst DEF RemoteTyped
<1>8. DownIsEmpty'
  BY <1>1, <1>3 DEF DownIsEmpty
<1>9. faults' \in 0..MaxFaults
  BY <1>1, <1>3, BoundAssumption DEF RemoteTyped
<1>10. LedgerTyped'
  BY <1>1, <1>3, LedgerTypes DEF RemoteTyped
<1>11. RemoteTyped'
  BY <1>1, <1>3, <1>4, <1>5, <1>7, <1>9, <1>10, IdleLoop DEF RemoteTyped
<1>12. AwaitsOne' /\ LoopHolds'
  <2>1. CASE IsAwaited(c)
    BY <1>1, <1>2, <1>3, <1>4, <1>7, <2>1, AwaitsOnTail, NoneAwaitedIsSound, IdleLoop, IdleLoopHolds
  <2>2. CASE ~IsAwaited(c)
    BY <1>1, <1>3, <1>4, <1>7, <2>2, AwaitsOnTail DEF LoopHolds
  <2> QED  BY <2>1, <2>2
<1> QED  BY <1>6, <1>8, <1>11, <1>12, BaseParts

LEMMA CrashKeepsBase ==
  ASSUME Base, Crash
  PROVE  Base'
<1>1. ConfigsTyped /\ RemoteTyped /\ AllFiled
  BY BaseParts
<1>2. /\ activeTasks' = Without(activeTasks, TaskId) /\ deadLetterTasks' = Without(deadLetterTasks, TaskId)
      /\ contextIndex' = [c \in Context |-> {}] /\ queue' = <<>> /\ waiters' = <<>>
      /\ resolved' = [w \in Worker |-> NoTask] /\ Lost(UnderWay)
      /\ wire' = <<>> /\ loop' = Off /\ mode' = "down" /\ faults < MaxFaults /\ faults' = faults + 1
      /\ UNCHANGED <<pushConfigs, redis, faulty>>
  BY DEF Crash
<1>3. MapsTyped' /\ Filed(activeTasks') /\ Filed(deadLetterTasks')
  BY <1>2 DEF MapsTyped, Filed, Without
<1>4. QueueTyped' /\ ConfigsTyped'
  BY <1>1, <1>2 DEF QueueTyped, ConfigsTyped
<1>5. AllFiled' /\ DownIsEmpty'
  BY <1>1, <1>2, <1>3 DEF AllFiled, DownIsEmpty
<1>6. wire' \in Seq(Command) /\ Len(wire') = 0
  BY <1>2
<1>7. LedgerTyped'
  BY <1>1, <1>2, LedgerTypes DEF RemoteTyped
<1>8. RemoteTyped'
  BY <1>1, <1>2, <1>6, <1>7, IdleLoop, BoundAssumption DEF RemoteTyped
<1>9. AwaitsOne'
  BY <1>6 DEF AwaitsOne
<1> QED  BY <1>2, <1>3, <1>4, <1>5, <1>8, <1>9, IdleLoopHolds, BaseParts

(* What hydrate queues: the entries that have a payload.                   *)
LEMMA HydratedQueue ==
  ASSUME redis \in RedisState, Restart
  PROVE  queue' \in Seq(Task)
<1>1. PICK gone : gone = {id \in TaskId : redis.items[id] = NoTask}
  OBVIOUS
<1>2. PICK ids : ids = Unlisted(redis.order, gone)
  OBVIOUS
<1>3. queue' = [i \in DOMAIN ids |-> redis.items[ids[i]]]
  BY <1>1, <1>2 DEF Restart
<1>4. redis.order \in Seq(TaskId) /\ redis.items \in [TaskId -> Task \cup {NoTask}]
  BY RedisFields
<1>5. ids \in Seq(TaskId) /\ \A x : Occurs(ids, x) => x \notin gone
  BY <1>2, <1>4, UnlistedProperties
<1>6. Len(ids) \in Nat /\ DOMAIN ids = 1..Len(ids) /\ \A i \in 1..Len(ids) : ids[i] \in TaskId
  BY <1>5, LenProperties, ElementOfSeq
<1>7. ASSUME NEW i \in 1..Len(ids) PROVE redis.items[ids[i]] \in Task
  <2>1. ids[i] \notin gone
    BY <1>5 DEF Occurs
  <2> QED  BY <1>1, <1>4, <1>6, <2>1
<1> QED  BY <1>3, <1>6, <1>7, IsASeq

LEMMA RestartKeepsBase ==
  ASSUME Base, Restart
  PROVE  Base'
<1>1. QueueTyped /\ ConfigsTyped /\ RemoteTyped /\ AllFiled /\ LoopHolds /\ AwaitsOne
  BY BaseParts
<1>2. /\ mode' = "open" /\ faulty' = FALSE /\ activeTasks' = redis.active
      /\ deadLetterTasks' = redis.dead
      /\ contextIndex' = [c \in Context |->
                            {id \in TaskId : \E task \in {redis.active[id], redis.dead[id]} :
                                               task # NoTask /\ task.context = c}]
      /\ UNCHANGED <<pushConfigs, waiters, resolved, redis, wire, faults, loop, ledger>>
  BY DEF Restart, remoteVars
<1>3. redis \in RedisState
  BY <1>1 DEF RemoteTyped
<1>4. MapsTyped'
  BY <1>2, <1>3, RedisFields DEF MapsTyped
<1>5. QueueTyped' /\ ConfigsTyped'
  BY <1>1, <1>2, <1>3, HydratedQueue DEF QueueTyped, ConfigsTyped
<1>6. RemoteTyped' /\ AllFiled' /\ LoopHolds' /\ AwaitsOne' /\ DownIsEmpty'
  BY <1>1, <1>2, LedgerTypes DEF RemoteTyped, AllFiled, LoopHolds, AwaitsOne, DownIsEmpty
<1> QED  BY <1>4, <1>5, <1>6, BaseParts

LEMMA DisconnectKeepsBase ==
  ASSUME Base, Disconnect
  PROVE  Base'
<1>1. /\ MapsTyped /\ QueueTyped /\ ConfigsTyped /\ RemoteTyped /\ AllFiled /\ LoopHolds /\ AwaitsOne
  BY BaseParts
<1>2. /\ mode' = "closed" /\ waiters' = <<>>
      /\ UNCHANGED <<mapVars, queue, resolved, pushConfigs, redis, wire, faulty, faults, loop, ledger>>
  BY DEF Disconnect, remoteVars
<1>3. MapsTyped' /\ ConfigsTyped' /\ AllFiled'
  BY <1>1, <1>2, SameMaps, SameFiles DEF AllFiled
<1>4. QueueTyped' /\ RemoteTyped' /\ LoopHolds' /\ AwaitsOne' /\ DownIsEmpty'
  BY <1>1, <1>2, LedgerTypes DEF QueueTyped, RemoteTyped, LoopHolds, AwaitsOne, DownIsEmpty
<1> QED  BY <1>3, <1>4, BaseParts

LEMMA InitBase == Init => Base
<1> SUFFICES ASSUME Init PROVE Base
  OBVIOUS
<1>1. MapsTyped /\ QueueTyped /\ ConfigsTyped
  BY DEF Init, StorageInit, MapsTyped, QueueTyped, ConfigsTyped
<1>2. wire \in Seq(Command) /\ Len(wire) = 0
  BY DEF Init
<1>3. redis \in RedisState
  <2>1. <<>> \in Seq(TaskId)
    OBVIOUS
  <2> QED  BY <1>1, <2>1 DEF Init, RedisState, MapsTyped
<1>4. RemoteTyped
  <2>1. faults \in 0..MaxFaults
    BY BoundAssumption DEF Init
  <2>2. LedgerTyped /\ loop \in {Off, Popping} /\ mode = "open" /\ faulty = FALSE
    BY DEF Init, Due, LedgerTyped
  <2> QED  BY <1>2, <1>3, <2>1, <2>2, IdleLoop DEF RemoteTyped
<1>5. AllFiled
  BY DEF Init, StorageInit, AllFiled, Filed
<1>6. LoopHolds /\ AwaitsOne /\ DownIsEmpty
  BY <1>2 DEF Init, LoopHolds, AwaitsOne, DownIsEmpty, Off
<1> QED  BY <1>1, <1>4, <1>5, <1>6, BaseParts

LEMMA BaseKept == Base /\ [Next]_vars => Base'
<1> SUFFICES ASSUME Base, [Next]_vars PROVE Base'
  OBVIOUS
<1>1. CASE Write
  BY <1>1, WriteWrites, WritesKeepBase, BaseParts
<1>2. CASE UNCHANGED vars
  <2>1. /\ MapsTyped /\ QueueTyped /\ ConfigsTyped /\ RemoteTyped
        /\ AllFiled /\ LoopHolds /\ AwaitsOne /\ DownIsEmpty
    BY BaseParts
  <2>2. MapsTyped' /\ ConfigsTyped' /\ QueueTyped' /\ AllFiled'
    BY <1>2, <2>1, SameMaps, SameFiles, SameQueue DEF vars, storageVars, remoteVars, AllFiled
  <2>3. RemoteTyped' /\ LoopHolds' /\ AwaitsOne' /\ DownIsEmpty'
    BY <1>2, <2>1, LedgerTypes DEF vars, remoteVars, statusVars, RemoteTyped, LoopHolds, AwaitsOne, DownIsEmpty
  <2> QED  BY <2>2, <2>3, BaseParts
<1> QED  BY <1>1, <1>2, WorkKeepsBase, LoopKeepsBase, PopKeepsBase, ExecuteKeepsBase, FailureKeepsBase,
            CrashKeepsBase, RestartKeepsBase, DisconnectKeepsBase DEF Next, Fail

(* The storage, the Redis keys, the commands under way and the loop keep   *)
(* their types: in particular the loop hands over and gives back a task    *)
(* only when it holds one (runDequeueLoop notices a missing payload).      *)
THEOREM RedisTypes == Spec => []RedisTypeOK
<1>1. Base => RedisTypeOK
  BY DEF Base
<1> QED  BY <1>1, InitBase, BaseKept, PTL DEF Spec

-----------------------------------------------------------------------------
(* The mirror                                                              *)

SameMirror(q, r) == q.active = r.active /\ q.dead = r.dead

LEMMA ApplyMirrors ==
  ASSUME NEW q \in RedisState, NEW r \in RedisState, SameMirror(q, r), NEW c \in Command
  PROVE  /\ SameMirror(Apply(q, c), Apply(r, c))
         /\ IsAwaited(c) => SameMirror(Apply(r, c), r)
<1>1. q.active = r.active /\ q.dead = r.dead
  BY DEF SameMirror
<1>2. ASSUME c.op \in {"unqueue", "hget", "hdel", "restore"}
      PROVE  SameMirror(Apply(q, c), q) /\ SameMirror(Apply(r, c), r)
  <2>1. ASSUME NEW p \in RedisState PROVE SameMirror(Apply(p, c), p)
    <3>1. CASE c.op = "unqueue"
      BY <3>1, ApplyEffects DEF Leaves, SameMirror
    <3>2. CASE c.op = "hget"
      BY <3>2, ApplyEffects DEF SameMirror
    <3>3. CASE c.op = "hdel"
      BY <3>3, ApplyEffects DEF Leaves, SameMirror
    <3>4. CASE c.op = "restore"
      BY <3>4, ApplyEffects DEF Leaves, SameMirror
    <3> QED  BY <1>2, <3>1, <3>2, <3>3, <3>4
  <2> QED  BY <2>1
<1>3. CASE c.op \in {"unqueue", "hget", "hdel", "restore"}
  BY <1>1, <1>2, <1>3 DEF SameMirror
<1>4. CASE c.op \in {"store", "queue"}
  <2>1. ASSUME NEW p \in RedisState
        PROVE  /\ Apply(p, c).active = [p.active EXCEPT ![c.task.id] = c.task]
               /\ Apply(p, c).dead = p.dead
    BY <1>4, ApplyEffects DEF Leaves
  <2> QED  BY <1>1, <1>4, <2>1 DEF SameMirror, IsAwaited
<1>5. CASE c.op = "retire"
  <2>1. ASSUME NEW p \in RedisState
        PROVE  /\ Apply(p, c).active = [p.active EXCEPT ![c.task.id] = NoTask]
               /\ Apply(p, c).dead = [p.dead EXCEPT ![c.task.id] = c.task]
    BY <1>5, ApplyEffects DEF Leaves
  <2> QED  BY <1>1, <1>5, <2>1 DEF SameMirror, IsAwaited
<1>6. CASE c.op = "evict"
  <2>1. ASSUME NEW p \in RedisState
        PROVE  Apply(p, c).active = p.active /\ Apply(p, c).dead = Without(p.dead, c.ids)
    BY <1>6, ApplyEffects DEF Leaves
  <2> QED  BY <1>1, <1>6, <2>1 DEF SameMirror, IsAwaited
<1>7. CASE c.op = "drop"
  <2>1. ASSUME NEW p \in RedisState
        PROVE  /\ Apply(p, c).active = Without(p.active, c.ids)
               /\ Apply(p, c).dead = Without(p.dead, c.ids)
    BY <1>7, ApplyEffects DEF Leaves
  <2> QED  BY <1>1, <1>7, <2>1 DEF SameMirror, IsAwaited
<1> QED  BY <1>3, <1>4, <1>5, <1>6, <1>7, CommandFields DEF Carriers

(* What becomes of the maps does not depend on the queue.                  *)
LEMMA ExecutedMirrors ==
  ASSUME NEW q \in RedisState, NEW r \in RedisState, SameMirror(q, r), NEW w \in Seq(Command)
  PROVE  SameMirror(Executed(q, w), Executed(r, w))
<1>1. PICK n \in Nat : n = Len(w) /\ \A k \in 1..n : w[k] \in Command
  BY LenProperties, ElementOfSeq
<1>2. PICK f \in [0..Len(w) -> RedisState] : Traces(f, q, w)
  BY ExecutedUnfolds
<1>3. PICK g \in [0..Len(w) -> RedisState] : Traces(g, r, w)
  BY ExecutedUnfolds
<1>4. /\ f[0] = q /\ g[0] = r /\ Executed(q, w) = f[n] /\ Executed(r, w) = g[n]
      /\ \A k \in 1..n : f[k] = Apply(f[k - 1], w[k]) /\ g[k] = Apply(g[k - 1], w[k])
      /\ f \in [0..n -> RedisState] /\ g \in [0..n -> RedisState]
  BY <1>1, <1>2, <1>3 DEF Traces
<1> DEFINE Good == {k \in 0..n : SameMirror(f[k], g[k])}
<1>5. 0 \in Good
  BY <1>4
<1>6. ASSUME NEW k \in 1..n, k - 1 \in Good PROVE k \in Good
  <2>1. k \in 0..n /\ k - 1 \in 0..n
    BY <1>1
  <2>2. f[k - 1] \in RedisState /\ g[k - 1] \in RedisState /\ w[k] \in Command
        /\ SameMirror(f[k - 1], g[k - 1])
    BY <1>1, <1>4, <1>6, <2>1
  <2>3. SameMirror(f[k], g[k])
    BY <1>4, <2>2, ApplyMirrors
  <2> QED  BY <2>1, <2>3
<1> HIDE DEF Good
<1>7. 0..n \subseteq Good
  BY <1>1, <1>5, <1>6, InductionUpTo
<1>8. n \in Good
  BY <1>1, <1>7
<1> QED  BY <1>4, <1>8 DEF Good

LEMMA SettledIsExecuted ==
  /\ Settled = Executed(redis, wire)
  /\ Settled' = Executed(redis', wire')
BY DEF Settled, Executed

LEMMA SettledType ==
  ASSUME Base
  PROVE  Settled \in RedisState /\ redis \in RedisState /\ wire \in Seq(Command)
<1>1. redis \in RedisState /\ wire \in Seq(Command)
  BY BaseParts DEF RemoteTyped
<1> QED  BY <1>1, SettledIsExecuted, ExecutedType

(* Executing a command leaves what is settled as it is.                    *)
LEMMA SettledHead ==
  ASSUME Base, wire # <<>>, redis' = Apply(redis, Head(wire)), wire' = Tail(wire)
  PROVE  Settled' = Settled
BY SettledType, SettledIsExecuted, ExecutedHead

(* Sending one adds its effect.                                            *)
LEMMA SettledSends ==
  ASSUME Base, UNCHANGED redis, NEW c \in Command, wire' = Append(wire, c)
  PROVE  Settled' = Apply(Settled, c)
BY SettledType, SettledIsExecuted, ExecutedAppend

LEMMA SettledSendsTwo ==
  ASSUME Base, UNCHANGED redis, NEW c \in Command, NEW d \in Command,
         wire' = Append(Append(wire, c), d)
  PROVE  Settled' = Apply(Apply(Settled, c), d)
<1>1. redis \in RedisState /\ wire \in Seq(Command) /\ Append(wire, c) \in Seq(Command)
  BY SettledType, WireLast
<1>2. Executed(redis, Append(wire, c)) = Apply(Executed(redis, wire), c)
  BY <1>1, ExecutedAppend
<1>3. Executed(redis, Append(Append(wire, c), d)) = Apply(Executed(redis, Append(wire, c)), d)
  BY <1>1, ExecutedAppend
<1> QED  BY <1>2, <1>3, SettledIsExecuted

(* A write changes the mirror as its command will change Redis.            *)
LEMMA WritesMirror ==
  ASSUME Base, Writes, Settled.active = activeTasks, Settled.dead = deadLetterTasks
  PROVE  Settled'.active = activeTasks' /\ Settled'.dead = deadLetterTasks'
<1>1. Settled \in RedisState
  BY SettledType
<1>2. UNCHANGED redis
  BY DEF Writes
<1>3. ASSUME NEW c \in Command, wire' = Append(wire, c)
      PROVE  Settled' = Apply(Settled, c)
  BY <1>2, <1>3, SettledSends
<1>4. ASSUME NEW task \in Task,
             \/ Queues(task) /\ wire' = Append(wire, [op |-> "queue", task |-> task])
             \/ Stores(task) /\ wire' = Append(wire, [op |-> "store", task |-> task])
      PROVE  Settled'.active = activeTasks' /\ Settled'.dead = deadLetterTasks'
  <2>1. PICK c \in Command : c.op \in {"queue", "store"} /\ c.task = task /\ wire' = Append(wire, c)
    BY <1>4, SentCommands DEF Carriers
  <2>2. activeTasks' = [activeTasks EXCEPT ![task.id] = task] /\ UNCHANGED deadLetterTasks
    BY <1>4 DEF Queues, Stores, setActive
  <2>3. Settled' = Apply(Settled, c)
    BY <1>3, <2>1
  <2>4. Leaves(Apply(Settled, c), [Settled.active EXCEPT ![task.id] = task], Settled.dead,
               Apply(Settled, c).items, Apply(Settled, c).order)
    BY <1>1, <2>1, ApplyEffects DEF Leaves
  <2> QED  BY <2>2, <2>3, <2>4 DEF Leaves
<1>5. ASSUME NEW task \in Task, storeDeadLetter(task),
             \/ wire' = Append(wire, [op |-> "retire", task |-> task])
             \/ wire' = Append(Append(wire, [op |-> "unqueue", id |-> task.id]),
                               [op |-> "retire", task |-> task])
      PROVE  Settled'.active = activeTasks' /\ Settled'.dead = deadLetterTasks'
  <2>1. PICK d \in Command : d = [op |-> "retire", task |-> task]
    BY SentCommands DEF Carriers
  <2>2. PICK c \in Command : c = [op |-> "unqueue", id |-> task.id]
    BY SentCommands DEF Task
  <2>3. PICK r \in RedisState : Settled' = Apply(r, d) /\ SameMirror(r, Settled)
    <3>1. CASE wire' = Append(wire, d)
      BY <1>1, <1>3, <3>1 DEF SameMirror
    <3>2. CASE wire' = Append(Append(wire, c), d)
      <4>1. Settled' = Apply(Apply(Settled, c), d)
        BY <1>2, <3>2, SettledSendsTwo
      <4>2. Apply(Settled, c) \in RedisState /\ SameMirror(Apply(Settled, c), Settled)
        BY <1>1, <2>2, ApplyEffects DEF Leaves, SameMirror
      <4> QED  BY <4>1, <4>2
    <3> QED  BY <1>5, <2>1, <2>2, <3>1, <3>2
  <2>4. /\ activeTasks' = [activeTasks EXCEPT ![task.id] = NoTask]
        /\ deadLetterTasks' = [deadLetterTasks EXCEPT ![task.id] = task]
    BY <1>5 DEF storeDeadLetter
  <2>5. Leaves(Apply(r, d), [r.active EXCEPT ![task.id] = NoTask], [r.dead EXCEPT ![task.id] = task],
               r.items, r.order)
    BY <2>1, ApplyEffects
  <2> QED  BY <2>3, <2>4, <2>5 DEF Leaves, SameMirror
<1>6. ASSUME NEW ids \in SUBSET TaskId, evict(ids), wire' = Append(wire, [op |-> "evict", ids |-> ids])
      PROVE  Settled'.active = activeTasks' /\ Settled'.dead = deadLetterTasks'
  <2>1. PICK c \in Command : c = [op |-> "evict", ids |-> ids]
    BY SentCommands
  <2>2. deadLetterTasks' = Without(deadLetterTasks, ids) /\ UNCHANGED activeTasks
    BY <1>6 DEF evict, Without
  <2>3. Leaves(Apply(Settled, c), Settled.active, Without(Settled.dead, ids), Settled.items, Settled.order)
    BY <1>1, <2>1, ApplyEffects
  <2> QED  BY <1>3, <1>6, <2>1, <2>2, <2>3 DEF Leaves
<1>7. ASSUME NEW k \in Context, Drops(k), wire' = Append(wire, [op |-> "drop", ids |-> contextIndex[k]])
      PROVE  Settled'.active = activeTasks' /\ Settled'.dead = deadLetterTasks'
  <2>1. PICK ids \in SUBSET TaskId : ids = contextIndex[k]
    BY BaseParts DEF MapsTyped
  <2>2. PICK c \in Command : c = [op |-> "drop", ids |-> ids]
    BY SentCommands
  <2>3. /\ activeTasks' = Without(activeTasks, ids)
        /\ deadLetterTasks' = Without(deadLetterTasks, ids)
    BY <1>7, <2>1 DEF Drops
  <2>4. Leaves(Apply(Settled, c), Without(Settled.active, ids), Without(Settled.dead, ids),
               Without(Settled.items, ids), Unlisted(Settled.order, ids))
    BY <1>1, <2>2, ApplyEffects
  <2> QED  BY <1>3, <1>7, <2>1, <2>2, <2>3, <2>4 DEF Leaves
<1> QED  BY <1>4, <1>5, <1>6, <1>7 DEF Writes, Retires, RetiresQueued

(* The loop leaves the maps alone, and sends only what it awaits.          *)
LEMMA LoopSendsAwaited ==
  ASSUME Base, Loop
  PROVE  /\ UNCHANGED <<mapVars, statusVars, redis>>
         /\ UNCHANGED wire \/ \E c \in Command : IsAwaited(c) /\ wire' = Append(wire, c)
<1>1. RemoteTyped /\ LoopHolds
  BY BaseParts
<1>2. UNCHANGED <<mapVars, statusVars, redis>>
  BY DEF Loop, LoopStops, LoopFetches, LoopDeletes, LoopDelivers, LoopRestores, LoopEnds,
         LoopCloses, localVars, remoteVars
<1>3. \/ UNCHANGED wire
      \/ loop.pc \notin {"off", "popping"} /\ wire' = Append(wire, [op |-> "hget", id |-> loop.id])
      \/ loop.pc \notin {"off", "popping"} /\ wire' = Append(wire, [op |-> "hdel", id |-> loop.id])
      \/ loop.pc = "deleted" /\ wire' = Append(wire, [op |-> "restore", task |-> loop.task])
  BY DEF Loop, LoopStops, LoopFetches, LoopDeletes, LoopDelivers, LoopRestores, LoopEnds,
         LoopCloses, LoopSends, localVars, remoteVars
<1>4. loop.pc \notin {"off", "popping"} => loop.id \in TaskId
  BY <1>1, LoopFields DEF LoopHolds
<1>5. loop.pc = "deleted" => loop.task \in Task
  BY <1>1, LoopFields DEF LoopHolds
<1>6. UNCHANGED wire \/ \E c \in Command : IsAwaited(c) /\ wire' = Append(wire, c)
  BY <1>3, <1>4, <1>5, SentCommands DEF IsAwaited, Carriers
<1> QED  BY <1>2, <1>6

LEMMA LoopSendingMirror ==
  ASSUME Base, UNCHANGED redis, NEW c \in Command, IsAwaited(c), wire' = Append(wire, c)
  PROVE  SameMirror(Settled', Settled)
<1>1. Settled \in RedisState
  BY SettledType
<1> QED  BY <1>1, SettledSends, ApplyMirrors DEF SameMirror

LEMMA MirrorKept == Base /\ MirrorFaithful /\ [Next]_vars => MirrorFaithful'
<1> SUFFICES ASSUME Base, MirrorFaithful, [Next]_vars PROVE MirrorFaithful'
  OBVIOUS
<1>1. /\ RemoteTyped /\ LoopHolds /\ DownIsEmpty /\ redis \in RedisState /\ wire \in Seq(Command)
  BY BaseParts, SettledType
<1>0. redis' \in RedisState /\ faulty \in BOOLEAN /\ faulty' \in BOOLEAN
  <2>1. RemoteTyped'
    <3>1. Base'
      BY BaseKept
    <3> QED  BY <3>1, TypeParts DEF Base
  <2> QED  BY <1>1, <2>1 DEF RemoteTyped
<1>2. CASE Write
  <2>1. Writes
    BY <1>2, WriteWrites
  <2>2. mode = "open" /\ UNCHANGED <<mode, faulty>>
    BY <2>1 DEF Writes
  <2> QED  BY <2>1, <2>2, WritesMirror DEF MirrorFaithful
<1>3. ASSUME UNCHANGED <<activeTasks, deadLetterTasks>>, SameMirror(Settled', Settled),
             mode' = "open" => mode = "open", faulty' = FALSE => faulty = FALSE
      PROVE  MirrorFaithful'
  BY <1>0, <1>3 DEF MirrorFaithful, SameMirror
<1>4. ASSUME UNCHANGED <<mapVars, statusVars>>, SameMirror(Settled', Settled)
      PROVE  MirrorFaithful'
  BY <1>3, <1>4 DEF mapVars, statusVars
<1>5. ASSUME UNCHANGED <<redis, wire>> PROVE SameMirror(Settled', Settled)
  BY <1>5, SettledIsExecuted DEF SameMirror
<1>6. CASE Work
  <2>1. UNCHANGED <<mapVars, remoteVars, statusVars>>
    BY <1>6 DEF Work, Dequeue, Abort, Use
  <2> QED  BY <1>4, <1>5, <2>1 DEF remoteVars
<1>7. CASE Loop
  BY <1>4, <1>5, <1>7, LoopSendsAwaited, LoopSendingMirror
<1>8. CASE RedisPops
  <2>1. UNCHANGED <<mapVars, statusVars, wire>> /\ SameMirror(redis', redis)
    BY <1>1, <1>8 DEF RedisPops, localVars, SameMirror, RedisState
  <2>2. SameMirror(Settled', Settled)
    BY <1>0, <1>1, <2>1, SettledIsExecuted, ExecutedMirrors
  <2> QED  BY <1>4, <2>1, <2>2
<1>9. CASE RedisExecutes
  <2>1. /\ wire # <<>> /\ redis' = Apply(redis, Head(wire)) /\ wire' = Tail(wire)
        /\ UNCHANGED <<mapVars, statusVars>>
    BY <1>9 DEF RedisExecutes, localVars
  <2> QED  BY <1>4, <2>1, SettledHead DEF SameMirror
<1>10. CASE CommandFails
  <2>1. PICK c : c = Head(wire)
    OBVIOUS
  <2>2. /\ wire # <<>> /\ redis' \in {redis, Apply(redis, c)} /\ wire' = Tail(wire)
        /\ UNCHANGED <<mapVars, mode>>
    BY <1>10, <2>1 DEF CommandFails
  <2>3. \/ IsAwaited(c) /\ UNCHANGED faulty
        \/ faulty' = TRUE
    BY <1>10, <2>1 DEF CommandFails, IsAwaited
  <2>4. ASSUME IsAwaited(c) PROVE SameMirror(Settled', Settled)
    <3>1. c \in Command /\ wire' \in Seq(Command)
      BY <1>1, <2>1, <2>2, WireFirst
    <3>4. Apply(redis, c) \in RedisState /\ SameMirror(Apply(redis, c), redis)
      <4>1. SameMirror(redis, redis)
        BY DEF SameMirror
      <4> QED  BY <1>1, <2>4, <3>1, <4>1, ApplyEffects, ApplyMirrors
    <3>2. Apply(redis, c) \in RedisState /\ redis' \in RedisState /\ SameMirror(redis', Apply(redis, c))
      BY <1>0, <2>2, <3>4 DEF SameMirror
    <3>3. Settled = Executed(Apply(redis, c), wire')
      BY <1>1, <2>1, <2>2, SettledIsExecuted, ExecutedHead
    <3> QED  BY <3>1, <3>2, <3>3, SettledIsExecuted, ExecutedMirrors
  <2>5. CASE faulty' = TRUE
    BY <2>5 DEF MirrorFaithful
  <2> QED  BY <1>3, <2>2, <2>3, <2>4, <2>5 DEF mapVars
<1>11. CASE Disconnect \/ Crash
  <2>1. mode' # "open"
    BY <1>11 DEF Disconnect, Crash
  <2> QED  BY <2>1 DEF MirrorFaithful
<1>12. CASE Restart
  <2>1. /\ mode = "down" /\ UNCHANGED <<redis, wire>>
        /\ activeTasks' = redis.active /\ deadLetterTasks' = redis.dead
    BY <1>12 DEF Restart, remoteVars
  <2>2. wire = <<>>
    BY <1>1, <2>1 DEF DownIsEmpty
  <2>3. Settled' = redis
    BY <1>1, <2>1, <2>2, SettledIsExecuted, ExecutedEmpty
  <2> QED  BY <2>1, <2>3 DEF MirrorFaithful
<1>13. CASE UNCHANGED vars
  BY <1>4, <1>5, <1>13 DEF vars, storageVars, remoteVars
<1> QED  BY <1>2, <1>6, <1>7, <1>8, <1>9, <1>10, <1>11, <1>12, <1>13 DEF Next, Fail

(* While no write has failed since hydration, Redis is about to hold what  *)
(* the mirror holds, whatever is under way, fails among the commands of    *)
(* the loop, crashes and restarts (write-through in the order of calls).   *)
THEOREM MirrorsRedis == Spec => []MirrorFaithful
<1>1. Init => MirrorFaithful
  <2> SUFFICES ASSUME Init PROVE MirrorFaithful
    OBVIOUS
  <2>1. Base /\ wire = <<>> /\ redis.active = activeTasks /\ redis.dead = deadLetterTasks
    BY InitBase DEF Init
  <2>2. Settled = redis
    BY <2>1, SettledType, SettledIsExecuted, ExecutedEmpty
  <2> QED  BY <2>1, <2>2 DEF MirrorFaithful
<1> QED  BY <1>1, InitBase, BaseKept, MirrorKept, PTL DEF Spec

-----------------------------------------------------------------------------
(* What a wire says of one task: some command of a kind, or one of a kind  *)
(* and later one of another.                                               *)

Some(w, S) == \E i \in 1..Len(w) : w[i] \in S

SomeThen(w, S, T) == \E i, j \in 1..Len(w) : i < j /\ w[i] \in S /\ w[j] \in T

Adding(id) == {c \in Command : c.op \in {"queue", "restore"} /\ c.task.id = id}

Storing(id) == {c \in Command : c.op \in {"store", "queue"} /\ c.task.id = id}

Cutting(id) == {c \in Command : \/ c.op = "unqueue" /\ c.id = id
                                \/ c.op = "drop" /\ id \in c.ids}

Asking(id) == {c \in Command : c.op = "hget" /\ c.id = id}

Deleting(id) == {c \in Command : c.op = "hdel" /\ c.id = id}

(* All that bear on the keys of a task.                                    *)
Bearing(id) == {c \in Command : \/ c.op \in {"store", "queue", "retire"} /\ c.task.id = id
                                \/ c \in Cutting(id)}

(* The entries of a task with a message and without it, the commands that  *)
(* make a message known to Redis, and those that queue one snapshot.       *)
With(r) == {c \in Adding(r[1]) : r \in c.task.messages}

Sans(r) == {c \in Adding(r[1]) : r \notin c.task.messages}

Bringing(r) == {c \in Command : c.op \in {"store", "queue", "restore"} /\ r \in c.task.messages}

Giving(s) == {c \in Command : c.op \in {"queue", "restore"} /\ c.task = s}

LEMMA SomeAppended ==
  ASSUME NEW w \in Seq(Command), NEW c \in Command
  PROVE  /\ \A S : Some(Append(w, c), S) <=> Some(w, S) \/ c \in S
         /\ \A S, T : SomeThen(Append(w, c), S, T) <=> SomeThen(w, S, T) \/ (Some(w, S) /\ c \in T)
<1>1. PICK n \in Nat : n = Len(w)
  BY WireLast
<1>2. PICK v : v = Append(w, c)
  OBVIOUS
<1>3. Len(v) = n + 1 /\ v[n + 1] = c /\ \A i \in 1..n : v[i] = w[i]
  BY <1>1, <1>2, WireLast
<1>4. n + 1 \in 1..(n + 1) /\ \A i \in 1..n : i \in 1..(n + 1) /\ i < n + 1
  OBVIOUS
<1>5. \A i \in 1..(n + 1) : i \in 1..n \/ i = n + 1
  OBVIOUS
<1>6. ASSUME NEW S PROVE Some(v, S) <=> Some(w, S) \/ c \in S
  BY <1>1, <1>3, <1>4, <1>5 DEF Some
<1>7. ASSUME NEW S, NEW T
      PROVE  SomeThen(v, S, T) <=> SomeThen(w, S, T) \/ (Some(w, S) /\ c \in T)
  <2>1. ASSUME SomeThen(v, S, T) PROVE SomeThen(w, S, T) \/ (Some(w, S) /\ c \in T)
    <3>1. PICK i \in 1..(n + 1), j \in 1..(n + 1) : i < j /\ v[i] \in S /\ v[j] \in T
      BY <1>3, <2>1 DEF SomeThen
    <3>2. i \in 1..n
      BY <3>1
    <3>3. CASE j \in 1..n
      BY <1>1, <1>3, <3>1, <3>2, <3>3 DEF SomeThen
    <3>4. CASE j = n + 1
      BY <1>1, <1>3, <3>1, <3>2, <3>4 DEF Some
    <3> QED  BY <1>5, <3>3, <3>4
  <2>2. ASSUME SomeThen(w, S, T) PROVE SomeThen(v, S, T)
    <3>1. PICK i \in 1..n, j \in 1..n : i < j /\ w[i] \in S /\ w[j] \in T
      BY <1>1, <2>2 DEF SomeThen
    <3> QED  BY <1>3, <1>4, <3>1 DEF SomeThen
  <2>3. ASSUME Some(w, S), c \in T PROVE SomeThen(v, S, T)
    <3>1. PICK i \in 1..n : w[i] \in S
      BY <1>1, <2>3 DEF Some
    <3> QED  BY <1>3, <1>4, <2>3, <3>1 DEF SomeThen
  <2> QED  BY <2>1, <2>2, <2>3
<1> QED  BY <1>2, <1>6, <1>7

LEMMA SomeOfTail ==
  ASSUME NEW w \in Seq(Command), w # <<>>
  PROVE  /\ \A S : Some(w, S) <=> Head(w) \in S \/ Some(Tail(w), S)
         /\ \A S, T : SomeThen(w, S, T)
                        <=> SomeThen(Tail(w), S, T) \/ (Head(w) \in S /\ Some(Tail(w), T))
<1>1. PICK n \in Nat : Len(w) = n + 1
  <2>1. Len(w) \in Nat /\ Len(w) >= 1
    BY WireFirst
  <2> QED  BY <2>1
<1>2. PICK v : v = Tail(w)
  OBVIOUS
<1>3. Len(v) = n /\ Head(w) = w[1] /\ \A i \in 1..n : v[i] = w[i + 1]
  BY <1>1, <1>2, WireFirst
<1>4. 1 \in 1..(n + 1) /\ \A i \in 1..n : i + 1 \in 1..(n + 1) /\ 1 < i + 1
  OBVIOUS
<1>5. \A i \in 1..(n + 1) : i = 1 \/ (i - 1 \in 1..n /\ (i - 1) + 1 = i)
  OBVIOUS
<1>6. ASSUME NEW S PROVE Some(w, S) <=> Head(w) \in S \/ Some(v, S)
  <2>1. ASSUME Some(w, S) PROVE Head(w) \in S \/ Some(v, S)
    <3>1. PICK i \in 1..(n + 1) : w[i] \in S
      BY <1>1, <2>1 DEF Some
    <3> QED  BY <1>3, <1>5, <3>1 DEF Some
  <2>2. ASSUME Head(w) \in S \/ Some(v, S) PROVE Some(w, S)
    BY <1>1, <1>3, <1>4, <2>2 DEF Some
  <2> QED  BY <2>1, <2>2
<1>7. ASSUME NEW S, NEW T
      PROVE  SomeThen(w, S, T) <=> SomeThen(v, S, T) \/ (Head(w) \in S /\ Some(v, T))
  <2>1. ASSUME SomeThen(w, S, T) PROVE SomeThen(v, S, T) \/ (Head(w) \in S /\ Some(v, T))
    <3>1. PICK i \in 1..(n + 1), j \in 1..(n + 1) : i < j /\ w[i] \in S /\ w[j] \in T
      BY <1>1, <2>1 DEF SomeThen
    <3>2. j - 1 \in 1..n /\ (j - 1) + 1 = j /\ v[j - 1] \in T
      <4>1. j - 1 \in 1..n /\ (j - 1) + 1 = j
        BY <3>1
      <4> QED  BY <1>3, <3>1, <4>1
    <3>3. CASE i = 1
      BY <1>3, <3>1, <3>2, <3>3 DEF Some
    <3>4. CASE i - 1 \in 1..n /\ (i - 1) + 1 = i
      <4>1. v[i - 1] \in S /\ i - 1 < j - 1
        BY <1>3, <3>1, <3>4
      <4> QED  BY <1>3, <3>2, <3>4, <4>1 DEF SomeThen
    <3> QED  BY <1>5, <3>3, <3>4
  <2>2. ASSUME SomeThen(v, S, T) PROVE SomeThen(w, S, T)
    <3>1. PICK i \in 1..n, j \in 1..n : i < j /\ v[i] \in S /\ v[j] \in T
      BY <1>3, <2>2 DEF SomeThen
    <3>2. i + 1 \in 1..(n + 1) /\ j + 1 \in 1..(n + 1) /\ i + 1 < j + 1
      BY <3>1
    <3>3. w[i + 1] \in S /\ w[j + 1] \in T
      BY <1>3, <3>1
    <3> QED  BY <1>1, <3>2, <3>3 DEF SomeThen
  <2>3. ASSUME Head(w) \in S, Some(v, T) PROVE SomeThen(w, S, T)
    <3>1. PICK j \in 1..n : v[j] \in T
      BY <1>3, <2>3 DEF Some
    <3> QED  BY <1>1, <1>3, <1>4, <2>3, <3>1 DEF SomeThen
  <2> QED  BY <2>1, <2>2, <2>3
<1> QED  BY <1>2, <1>6, <1>7

LEMMA NothingOnEmptyWire ==
  \A S, T : ~Some(<<>>, S) /\ ~SomeThen(<<>>, S, T)
BY DEF Some, SomeThen

LEMMA SomeWithin ==
  ASSUME NEW S, NEW T, S \subseteq T
  PROVE  \A w : Some(w, S) => Some(w, T)
BY DEF Some

(* A command seen from one task: q is what it makes of r.                  *)
AppliesAt(q, r, c, id) ==
  /\ Occurs(q.order, id) <=> c \in Adding(id) \/ (Occurs(r.order, id) /\ c \notin Cutting(id))
  /\ c \in Adding(id) => q.items[id] = c.task
  /\ c \in Cutting(id) \cup Deleting(id) => q.items[id] = NoTask
  /\ c \notin Adding(id) \cup Cutting(id) \cup Deleting(id) => q.items[id] = r.items[id]
  /\ q.active[id] \in {r.active[id], NoTask} \/ (c \in Storing(id) /\ q.active[id] = c.task)
  /\ c \notin Bearing(id) /\ r.active[id] = NoTask => q.active[id] = NoTask
  /\ c \notin Bearing(id) /\ r.dead[id] = NoTask => q.dead[id] = NoTask

LEMMA ApplyAt ==
  ASSUME NEW r \in RedisState, NEW c \in Command, NEW id \in TaskId
  PROVE  AppliesAt(Apply(r, c), r, c, id)
<1>1. /\ r.active \in [TaskId -> Task \cup {NoTask}] /\ r.dead \in [TaskId -> Task \cup {NoTask}]
      /\ r.items \in [TaskId -> Task \cup {NoTask}] /\ r.order \in Seq(TaskId)
  BY RedisFields
<1>2. PICK q : q = Apply(r, c)
  OBVIOUS
<1> SUFFICES AppliesAt(q, r, c, id)
  BY <1>2
<1> USE DEF Adding, Storing, Cutting, Deleting, Bearing
<1>3. CASE c.op \in {"queue", "restore"}
  <2>1. c.task \in Task /\ c.task.id \in TaskId /\ c.task # NoTask
    BY <1>3, CommandFields, NoTaskAssumption DEF Carriers, Task
  <2>2. /\ q.order = Append(r.order, c.task.id) /\ q.dead = r.dead
        /\ q.items = [r.items EXCEPT ![c.task.id] = c.task]
        /\ q.active = r.active \/ (c.op = "queue" /\ q.active = [r.active EXCEPT ![c.task.id] = c.task])
    BY <1>2, <1>3, ApplyEffects DEF Leaves
  <2>3. Occurs(q.order, id) <=> Occurs(r.order, id) \/ id = c.task.id
    BY <1>1, <2>1, <2>2, AppendOccurs
  <2>4. /\ c \in Adding(id) => q.items[id] = c.task
        /\ c \notin Adding(id) \cup Cutting(id) \cup Deleting(id) => q.items[id] = r.items[id]
        /\ c \notin Cutting(id) \cup Deleting(id)
    BY <1>1, <1>3, <2>1, <2>2
  <2>5. q.active[id] \in {r.active[id], NoTask} \/ (c \in Storing(id) /\ q.active[id] = c.task)
    BY <1>1, <1>3, <2>1, <2>2
  <2>6. /\ c \notin Bearing(id) /\ r.active[id] = NoTask => q.active[id] = NoTask
        /\ c \notin Bearing(id) /\ r.dead[id] = NoTask => q.dead[id] = NoTask
    BY <1>1, <1>3, <2>1, <2>2
  <2> QED  BY <1>3, <2>3, <2>4, <2>5, <2>6 DEF AppliesAt
<1>4. CASE c.op \in {"store", "retire"}
  <2>1. c.task \in Task /\ c.task.id \in TaskId
    BY <1>4, CommandFields DEF Carriers, Task
  <2>2. /\ q.order = r.order /\ q.items = r.items
        /\ c.op = "store" => q.active = [r.active EXCEPT ![c.task.id] = c.task] /\ q.dead = r.dead
        /\ c.op = "retire" => /\ q.active = [r.active EXCEPT ![c.task.id] = NoTask]
                              /\ q.dead = [r.dead EXCEPT ![c.task.id] = c.task]
    BY <1>2, <1>4, ApplyEffects DEF Leaves
  <2>3. q.active[id] \in {r.active[id], NoTask} \/ (c \in Storing(id) /\ q.active[id] = c.task)
    BY <1>1, <1>4, <2>1, <2>2
  <2>4. /\ c \notin Bearing(id) /\ r.active[id] = NoTask => q.active[id] = NoTask
        /\ c \notin Bearing(id) /\ r.dead[id] = NoTask => q.dead[id] = NoTask
    BY <1>1, <1>4, <2>1, <2>2
  <2> QED  BY <1>4, <2>2, <2>3, <2>4 DEF AppliesAt
<1>5. CASE c.op = "unqueue"
  <2>1. c.id \in TaskId
    BY <1>5, CommandFields
  <2>2. /\ q.order = Unlisted(r.order, {c.id}) /\ q.items = [r.items EXCEPT ![c.id] = NoTask]
        /\ q.active = r.active /\ q.dead = r.dead
    BY <1>2, <1>5, ApplyEffects DEF Leaves
  <2>3. Occurs(q.order, id) <=> id # c.id /\ Occurs(r.order, id)
    BY <1>1, <2>2, UnlistedProperties
  <2> QED  BY <1>1, <1>5, <2>1, <2>2, <2>3 DEF AppliesAt
<1>6. CASE c.op = "hget"
  <2>1. q = r
    BY <1>2, <1>6, ApplyEffects
  <2> QED  BY <1>6, <2>1 DEF AppliesAt
<1>7. CASE c.op = "hdel"
  <2>1. c.id \in TaskId
    BY <1>7, CommandFields
  <2>2. /\ q.order = r.order /\ q.items = [r.items EXCEPT ![c.id] = NoTask]
        /\ q.active = r.active /\ q.dead = r.dead
    BY <1>2, <1>7, ApplyEffects DEF Leaves
  <2> QED  BY <1>1, <1>7, <2>1, <2>2 DEF AppliesAt
<1>8. CASE c.op = "evict"
  <2>1. q.order = r.order /\ q.items = r.items /\ q.active = r.active /\ q.dead = Without(r.dead, c.ids)
    BY <1>2, <1>8, ApplyEffects DEF Leaves
  <2>2. r.dead[id] = NoTask => q.dead[id] = NoTask
    BY <1>1, <2>1, WithoutType
  <2> QED  BY <1>8, <2>1, <2>2 DEF AppliesAt
<1>9. CASE c.op = "drop"
  <2>1. /\ q.order = Unlisted(r.order, c.ids) /\ q.items = Without(r.items, c.ids)
        /\ q.active = Without(r.active, c.ids) /\ q.dead = Without(r.dead, c.ids)
    BY <1>2, <1>9, ApplyEffects DEF Leaves
  <2>2. Occurs(q.order, id) <=> id \notin c.ids /\ Occurs(r.order, id)
    BY <1>1, <2>1, UnlistedProperties
  <2>3. /\ q.items[id] = IF id \in c.ids THEN NoTask ELSE r.items[id]
        /\ q.active[id] = IF id \in c.ids THEN NoTask ELSE r.active[id]
        /\ q.dead[id] = IF id \in c.ids THEN NoTask ELSE r.dead[id]
    BY <1>1, <2>1, WithoutType
  <2> QED  BY <1>9, <2>2, <2>3 DEF AppliesAt
<1> QED  BY <1>3, <1>4, <1>5, <1>6, <1>7, <1>8, <1>9, CommandFields DEF Carriers

(* What is sent says nothing of these commands.                            *)
WireStands(commands) ==
  /\ \A S \in SUBSET commands : Some(wire', S) <=> Some(wire, S)
  /\ \A S, T \in SUBSET commands : SomeThen(wire', S, T) <=> SomeThen(wire, S, T)

LEMMA SameWireStands ==
  ASSUME UNCHANGED wire
  PROVE  \A commands : WireStands(commands)
BY DEF WireStands

LEMMA SendingStands ==
  ASSUME wire \in Seq(Command), NEW c \in Command, wire' = Append(wire, c),
         NEW commands, c \notin commands
  PROVE  WireStands(commands)
<1>1. /\ \A S : Some(wire', S) <=> Some(wire, S) \/ c \in S
      /\ \A S, T : SomeThen(wire', S, T) <=> SomeThen(wire, S, T) \/ (Some(wire, S) /\ c \in T)
  BY SomeAppended
<1> QED  BY <1>1 DEF WireStands

LEMMA SendingTwoStands ==
  ASSUME wire \in Seq(Command), NEW c \in Command, NEW d \in Command,
         wire' = Append(Append(wire, c), d),
         NEW commands, c \notin commands, d \notin commands
  PROVE  WireStands(commands)
<1>0. PICK v : v = Append(wire, c)
  OBVIOUS
<1>1. /\ \A S : Some(v, S) <=> Some(wire, S) \/ c \in S
      /\ \A S, T : SomeThen(v, S, T) <=> SomeThen(wire, S, T) \/ (Some(wire, S) /\ c \in T)
  BY <1>0, SomeAppended
<1>2. v \in Seq(Command) /\ wire' = Append(v, d)
  BY <1>0, WireLast
<1>3. /\ \A S : Some(wire', S) <=> Some(v, S) \/ d \in S
      /\ \A S, T : SomeThen(wire', S, T) <=> SomeThen(v, S, T) \/ (Some(v, S) /\ d \in T)
  BY <1>2, SomeAppended
<1> QED  BY <1>1, <1>3 DEF WireStands

-----------------------------------------------------------------------------
(* The ledger                                                              *)

LEMMA LedgerMoves ==
  ASSUME LedgerTyped
  PROVE  /\ \A ids : Lost(ids) \/ Revoked(ids) =>
              /\ handed' = handed
              /\ \A q \in Request : /\ due'[q] = "unissued" => due[q] = "unissued"
                                    /\ due'[q] = "owed" => due[q] = "owed" /\ q[1] \notin ids
         /\ \A task \in Task : Handed(task) =>
              /\ handed' = handed \cup {task}
              /\ \A q \in Request : /\ due'[q] = "unissued" => due[q] = "unissued"
                                    /\ due'[q] = "owed" => due[q] = "owed" /\ q \notin task.messages
                                    /\ q \in task.messages => due'[q] = "done"
         /\ \A task \in Task, r \in Request : Queued(task, r) =>
              /\ handed' = handed /\ due'[r] # "unissued"
              /\ due'[r] = "owed" => ~Taking(task.id)
              /\ \A q \in Request \ {r} :
                   /\ due'[q] = "unissued" => due[q] = "unissued"
                   /\ due'[q] = "owed" => due[q] = "owed" /\ (q[1] = task.id => q \in task.messages)
         /\ \A r \in Request : due' = [due EXCEPT ![r] = "none"] =>
              /\ due'[r] = "none"
              /\ \A q \in Request \ {r} : due'[q] = due[q]
<1> USE DEF LedgerTyped
<1>1. ASSUME NEW ids, Lost(ids) \/ Revoked(ids), NEW q \in Request
      PROVE  /\ handed' = handed
             /\ due'[q] = "unissued" => due[q] = "unissued"
             /\ due'[q] = "owed" => due[q] = "owed" /\ q[1] \notin ids
  BY <1>1 DEF Lost, Revoked, Becomes, Pending
<1>2. \A ids : Lost(ids) \/ Revoked(ids) => handed' = handed
  BY DEF Lost, Revoked
<1>3. ASSUME NEW task \in Task, Handed(task)
      PROVE  /\ handed' = handed \cup {task}
             /\ \A q \in Request : /\ due'[q] = "unissued" => due[q] = "unissued"
                                   /\ due'[q] = "owed" => due[q] = "owed" /\ q \notin task.messages
                                   /\ q \in task.messages => due'[q] = "done"
  BY <1>3, NoTaskAssumption DEF Handed, Carries
<1>4. ASSUME NEW task \in Task, NEW r \in Request, Queued(task, r)
      PROVE  /\ handed' = handed /\ due'[r] # "unissued"
             /\ due'[r] = "owed" => ~Taking(task.id)
             /\ \A q \in Request \ {r} :
                  /\ due'[q] = "unissued" => due[q] = "unissued"
                  /\ due'[q] = "owed" => due[q] = "owed" /\ (q[1] = task.id => q \in task.messages)
  BY <1>4 DEF Queued, Pending
<1> QED  BY <1>1, <1>2, <1>3, <1>4

(* No step takes a message back, and only a write makes one owed.          *)
LEMMA StaysIssued ==
  ASSUME LedgerTyped, Writes \/ (\E ids : Lost(ids)) \/ (\E task \in Task : Handed(task)) \/ UNCHANGED ledger
  PROVE  \A q \in Request : due'[q] = "unissued" => due[q] = "unissued"
<1>1. ASSUME UNCHANGED ledger PROVE \A q \in Request : due'[q] = due[q]
  BY <1>1 DEF ledger
<1>2. ASSUME NEW task \in Task, NEW r \in Request, StoresNew(task, r)
      PROVE  \A q \in Request : due'[q] = "unissued" => due[q] = "unissued"
  BY <1>2, LedgerMoves DEF StoresNew, Starts
<1>3. ASSUME NEW task \in Task, Queues(task)
      PROVE  \A q \in Request : due'[q] = "unissued" => due[q] = "unissued"
  BY <1>3, LedgerMoves DEF Queues, Starts
<1>4. ASSUME Writes
      PROVE  \/ \E task \in Task : Queues(task) \/ \E r \in Request : StoresNew(task, r)
             \/ \E ids : Revoked(ids)
             \/ UNCHANGED ledger
  BY <1>4 DEF Writes, Stores, Retires, RetiresQueued, Drops
<1> QED  BY <1>1, <1>2, <1>3, <1>4, LedgerMoves

-----------------------------------------------------------------------------
(* The keys and the mirror, seen from one task                             *)

Indexed(id) == \E c \in Context : id \in contextIndex[c]

(* Nothing speaks of a task before its first message.                      *)
UnissuedIsNew(id) ==
  ~Issued(id) =>
    /\ activeTasks[id] = NoTask /\ deadLetterTasks[id] = NoTask /\ ~Indexed(id)
    /\ redis.active[id] = NoTask /\ redis.dead[id] = NoTask /\ ~Some(wire, Bearing(id))

(* What is about to be taken off the list is not active.                   *)
CutIsGone(id) == Some(wire, Cutting(id)) => activeTasks[id] = NoTask

IdSound(id) == UnissuedIsNew(id) /\ CutIsGone(id)

IdsSound == \A id \in TaskId : IdSound(id)

LEMMA CuttingBears == \A id, w : Some(w, Cutting(id)) => Some(w, Bearing(id))
BY DEF Some, Bearing, Cutting

LEMMA IssuedStays ==
  ASSUME \A q \in Request : due'[q] = "unissued" => due[q] = "unissued"
  PROVE  \A id : Issued(id) => Issued(id)'
BY DEF Issued

(* A step that brings nothing new of the task.                             *)
LEMMA StillSound ==
  ASSUME NEW id, IdSound(id), Issued(id) => Issued(id)',
         activeTasks[id] = NoTask => activeTasks'[id] = NoTask,
         Some(wire', Cutting(id)) => Some(wire, Cutting(id)),
         ~Issued(id) => /\ deadLetterTasks[id] = NoTask => deadLetterTasks'[id] = NoTask
                        /\ Indexed(id)' => Indexed(id)
                        /\ redis.active[id] = NoTask => redis'.active[id] = NoTask
                        /\ redis.dead[id] = NoTask => redis'.dead[id] = NoTask
                        /\ Some(wire', Bearing(id)) => Some(wire, Bearing(id))
  PROVE  IdSound(id)'
BY DEF IdSound, UnissuedIsNew, CutIsGone

(* A write of another task.                                                *)
LEMMA ElsewhereSound ==
  ASSUME NEW id, IdSound(id), Issued(id) => Issued(id)',
         UNCHANGED redis, WireStands(Bearing(id)),
         activeTasks'[id] = activeTasks[id],
         deadLetterTasks[id] = NoTask => deadLetterTasks'[id] = NoTask, Indexed(id)' => Indexed(id)
  PROVE  IdSound(id)'
<1>1. /\ Some(wire', Bearing(id)) <=> Some(wire, Bearing(id))
      /\ Some(wire', Cutting(id)) <=> Some(wire, Cutting(id))
  <2>1. Bearing(id) \in SUBSET Bearing(id) /\ Cutting(id) \in SUBSET Bearing(id)
    BY DEF Bearing, Cutting
  <2> QED  BY <2>1 DEF WireStands
<1> QED  BY <1>1, StillSound

(* A write of this one, as active.                                         *)
LEMMA SetActiveSound ==
  ASSUME Base, NEW task \in Task, IdSound(task.id), setActive(task), UNCHANGED redis,
         \/ \E r \in Request : Starts(task, r) /\ due'[r] # "unissued"
         \/ isActive(task.id) /\ (Issued(task.id) => Issued(task.id)'),
         NEW c \in Command, c.op \in {"store", "queue"}, wire' = Append(wire, c)
  PROVE  IdSound(task.id)'
<1>1. PICK id \in TaskId : id = task.id
  BY DEF Task
<1>2. Issued(id)'
  <2>1. CASE \E r \in Request : Starts(task, r) /\ due'[r] # "unissued"
    BY <1>1, <2>1 DEF Starts, Issued
  <2>2. CASE isActive(task.id) /\ (Issued(task.id) => Issued(task.id)')
    BY <1>1, <2>2 DEF IdSound, UnissuedIsNew, isActive
  <2> QED  BY <2>1, <2>2
<1>3. ~Some(wire, Cutting(id))
  <2>1. CASE isActive(id)
    BY <1>1, <2>1 DEF IdSound, CutIsGone, isActive
  <2>2. CASE ~Issued(id)
    BY <1>1, <2>2, CuttingBears DEF IdSound, UnissuedIsNew
  <2> QED  BY <1>1, <2>1, <2>2 DEF Starts
<1>4. ~Some(wire', Cutting(id))
  <2>1. c \notin Cutting(id)
    BY DEF Cutting
  <2> QED  BY <1>3, <2>1, SettledType, SomeAppended
<1> QED  BY <1>1, <1>2, <1>4 DEF IdSound, UnissuedIsNew, CutIsGone

(* A write of this one, as dead or gone.                                   *)
LEMMA UnsetActiveSound ==
  ASSUME NEW id \in TaskId, IdSound(id), Known(id) \/ Indexed(id),
         Issued(id) => Issued(id)', activeTasks'[id] = NoTask
  PROVE  IdSound(id)'
<1>1. Issued(id)
  BY DEF IdSound, UnissuedIsNew, Known, getTask, isActive
<1> QED  BY <1>1 DEF IdSound, UnissuedIsNew, CutIsGone

LEMMA WritesKeepIds ==
  ASSUME Base, IdsSound, Writes
  PROVE  IdsSound'
<1> SUFFICES ASSUME NEW id \in TaskId PROVE IdSound(id)'
  BY DEF IdsSound
<1>1. UNCHANGED redis /\ IdSound(id)
  BY DEF Writes, IdsSound
<1>2. /\ wire \in Seq(Command) /\ LedgerTyped /\ contextIndex \in [Context -> SUBSET TaskId]
      /\ activeTasks \in [TaskId -> Task \cup {NoTask}]
      /\ deadLetterTasks \in [TaskId -> Task \cup {NoTask}]
  BY BaseParts DEF RemoteTyped, MapsTyped
<1>3. Issued(id) => Issued(id)'
  BY <1>2, StaysIssued, IssuedStays
<1>4. ASSUME NEW task \in Task, task.id # id, indexContext(task)
      PROVE  Indexed(id)' => Indexed(id)
  BY <1>2, <1>4 DEF Indexed, indexContext, Task
<1>5. ASSUME NEW task \in Task, NEW c \in Command, c.op \in Carriers, c.task = task, task.id # id
      PROVE  c \notin Bearing(id)
  BY <1>5 DEF Bearing, Cutting, Carriers
<1>6. ASSUME NEW task \in Task, setActive(task),
             NEW c \in Command, c.op \in {"store", "queue"}, c.task = task, wire' = Append(wire, c),
             \/ \E r \in Request : Starts(task, r) /\ due'[r] # "unissued"
             \/ isActive(task.id)
      PROVE  IdSound(id)'
  <2>1. CASE task.id = id
    BY <1>1, <1>3, <1>6, <2>1, SetActiveSound
  <2>2. CASE task.id # id
    <3>1. WireStands(Bearing(id))
      <4>1. c \notin Bearing(id)
        BY <1>5, <1>6, <2>2 DEF Carriers
      <4> QED  BY <1>2, <1>6, <4>1, SendingStands
    <3>2. activeTasks'[id] = activeTasks[id] /\ deadLetterTasks' = deadLetterTasks /\ indexContext(task)
      BY <1>2, <1>6, <2>2 DEF setActive
    <3> QED  BY <1>1, <1>3, <1>4, <2>2, <3>1, <3>2, ElsewhereSound
  <2> QED  BY <2>1, <2>2
<1>7. ASSUME NEW task \in Task, Queues(task), wire' = Append(wire, [op |-> "queue", task |-> task])
      PROVE  IdSound(id)'
  <2>1. PICK c \in Command : c = [op |-> "queue", task |-> task]
    BY SentCommands DEF Carriers
  <2>2. PICK r \in Request : Starts(task, r) /\ Queued(task, r)
    BY <1>7 DEF Queues
  <2>3. due'[r] # "unissued"
    BY <1>2, <2>2, LedgerMoves
  <2>4. setActive(task) /\ c.op = "queue" /\ c.task = task
    BY <1>7, <2>1 DEF Queues
  <2> QED  BY <1>6, <1>7, <2>1, <2>2, <2>3, <2>4
<1>8. ASSUME NEW task \in Task, Stores(task), wire' = Append(wire, [op |-> "store", task |-> task])
      PROVE  IdSound(id)'
  <2>1. PICK c \in Command : c = [op |-> "store", task |-> task]
    BY SentCommands DEF Carriers
  <2>2. ASSUME NEW r \in Request, StoresNew(task, r) PROVE Starts(task, r) /\ due'[r] # "unissued"
    BY <1>2, <2>2, LedgerMoves DEF StoresNew, Starts
  <2>3. setActive(task) /\ c.op = "store" /\ c.task = task
    BY <1>8, <2>1 DEF Stores
  <2>4. (\E r \in Request : StoresNew(task, r)) \/ isActive(task.id)
    BY <1>8 DEF Stores
  <2> QED  BY <1>6, <1>8, <2>1, <2>2, <2>3, <2>4
<1>9. ASSUME NEW task \in Task,
             \/ Retires(task) /\ wire' = Append(wire, [op |-> "retire", task |-> task])
             \/ /\ RetiresQueued(task)
                /\ wire' = Append(Append(wire, [op |-> "unqueue", id |-> task.id]),
                                  [op |-> "retire", task |-> task])
      PROVE  IdSound(id)'
  <2>1. storeDeadLetter(task) /\ Known(task.id) /\ task.id \in TaskId
    BY <1>9 DEF Retires, RetiresQueued, Task
  <2>2. CASE task.id = id
    <3>1. activeTasks'[id] = NoTask
      BY <1>2, <2>1, <2>2 DEF storeDeadLetter
    <3> QED  BY <1>1, <1>3, <2>1, <2>2, <3>1, UnsetActiveSound
  <2>3. CASE task.id # id
    <3>1. PICK d \in Command : d = [op |-> "retire", task |-> task]
      BY SentCommands DEF Carriers
    <3>2. PICK c \in Command : c = [op |-> "unqueue", id |-> task.id]
      BY SentCommands DEF Task
    <3>3. WireStands(Bearing(id))
      <4>1. d \notin Bearing(id) /\ c \notin Bearing(id)
        BY <1>5, <2>3, <3>1, <3>2 DEF Carriers, Bearing, Cutting
      <4>2. wire' = Append(wire, d) \/ wire' = Append(Append(wire, c), d)
        BY <1>9, <3>1, <3>2
      <4> QED  BY <1>2, <4>1, <4>2, SendingStands, SendingTwoStands
    <3>4. activeTasks'[id] = activeTasks[id] /\ deadLetterTasks'[id] = deadLetterTasks[id]
          /\ indexContext(task)
      BY <1>2, <2>1, <2>3 DEF storeDeadLetter
    <3> QED  BY <1>1, <1>3, <1>4, <2>3, <3>3, <3>4, ElsewhereSound
  <2> QED  BY <2>2, <2>3
<1>10. ASSUME NEW ids \in SUBSET TaskId, evict(ids), wire' = Append(wire, [op |-> "evict", ids |-> ids])
       PROVE  IdSound(id)'
  <2>1. PICK c \in Command : c = [op |-> "evict", ids |-> ids]
    BY SentCommands
  <2>2. WireStands(Bearing(id))
    <3>1. c \notin Bearing(id)
      BY <2>1 DEF Bearing, Cutting
    <3> QED  BY <1>2, <1>10, <2>1, <3>1, SendingStands
  <2>3. /\ activeTasks' = activeTasks
        /\ deadLetterTasks[id] = NoTask => deadLetterTasks'[id] = NoTask
        /\ Indexed(id)' => Indexed(id)
    BY <1>10 DEF evict, unindexContext, Indexed
  <2> QED  BY <1>1, <1>3, <2>2, <2>3, ElsewhereSound
<1>11. ASSUME NEW k \in Context, Drops(k), wire' = Append(wire, [op |-> "drop", ids |-> contextIndex[k]])
       PROVE  IdSound(id)'
  <2>0. /\ contextIndex[k] \in SUBSET TaskId
        /\ activeTasks' = Without(activeTasks, contextIndex[k])
        /\ deadLetterTasks' = Without(deadLetterTasks, contextIndex[k])
    BY <1>2, <1>11 DEF Drops
  <2>1. CASE id \in contextIndex[k]
    <3>1. Indexed(id) /\ activeTasks'[id] = NoTask
      BY <1>2, <2>0, <2>1, WithoutType DEF Indexed
    <3> QED  BY <1>1, <1>3, <3>1, UnsetActiveSound
  <2>2. CASE id \notin contextIndex[k]
    <3>1. PICK c \in Command : c = [op |-> "drop", ids |-> contextIndex[k]]
      BY <2>0, SentCommands
    <3>2. WireStands(Bearing(id))
      <4>1. c \notin Bearing(id)
        BY <2>2, <3>1 DEF Bearing, Cutting
      <4> QED  BY <1>2, <1>11, <3>1, <4>1, SendingStands
    <3>3. activeTasks'[id] = activeTasks[id] /\ deadLetterTasks'[id] = deadLetterTasks[id]
      BY <1>2, <2>0, <2>2, WithoutType
    <3>4. Indexed(id)' => Indexed(id)
      BY <1>2, <1>11 DEF Drops, Indexed
    <3> QED  BY <1>1, <1>3, <3>2, <3>3, <3>4, ElsewhereSound
  <2> QED  BY <2>1, <2>2
<1> QED  BY <1>7, <1>8, <1>9, <1>10, <1>11 DEF Writes

(* The oldest command is gone, executed or not.                            *)
HeadGone == /\ wire # <<>> /\ wire' = Tail(wire)
            /\ redis' \in {redis, Apply(redis, Head(wire))}

LEMMA HeadGoneAt ==
  ASSUME Base, HeadGone, NEW id \in TaskId
  PROVE  /\ wire \in Seq(Command) /\ redis \in RedisState /\ Head(wire) \in Command
         /\ redis' = redis \/ AppliesAt(redis', redis, Head(wire), id)
         /\ \A S : Some(wire, S) <=> Head(wire) \in S \/ Some(wire', S)
         /\ \A S, T : SomeThen(wire, S, T)
                        <=> SomeThen(wire', S, T) \/ (Head(wire) \in S /\ Some(wire', T))
<1>1. wire \in Seq(Command) /\ redis \in RedisState /\ Head(wire) \in Command
  BY BaseParts, WireFirst DEF RemoteTyped, HeadGone
<1> QED  BY <1>1, SomeOfTail, ApplyAt DEF HeadGone

LEMMA HeadGoneKeepsIds ==
  ASSUME Base, IdsSound, HeadGone, UNCHANGED mapVars,
         \A q \in Request : due'[q] = "unissued" => due[q] = "unissued"
  PROVE  IdsSound'
<1> SUFFICES ASSUME NEW id \in TaskId PROVE IdSound(id)'
  BY DEF IdsSound
<1>1. IdSound(id) /\ (Issued(id) => Issued(id)')
  BY IssuedStays DEF IdsSound
<1>2. /\ Some(wire', Cutting(id)) => Some(wire, Cutting(id))
      /\ Some(wire', Bearing(id)) => Some(wire, Bearing(id))
      /\ ~Some(wire, Bearing(id)) => Head(wire) \notin Bearing(id)
      /\ redis' = redis \/ AppliesAt(redis', redis, Head(wire), id)
  BY HeadGoneAt
<1>3. ~Issued(id) => Head(wire) \notin Bearing(id)
  BY <1>1, <1>2 DEF IdSound, UnissuedIsNew
<1>4. ~Issued(id) => /\ redis.active[id] = NoTask => redis'.active[id] = NoTask
                     /\ redis.dead[id] = NoTask => redis'.dead[id] = NoTask
  BY <1>2, <1>3 DEF AppliesAt
<1> QED  BY <1>1, <1>2, <1>4, StillSound DEF mapVars, Indexed

(* The workers, the loop and disconnect leave the keys and the maps.       *)
LEMMA NothingStoredKeepsIds ==
  ASSUME Base, IdsSound, UNCHANGED mapVars,
         redis'.active = redis.active, redis'.dead = redis.dead,
         \A id \in TaskId : WireStands(Bearing(id)),
         \A q \in Request : due'[q] = "unissued" => due[q] = "unissued"
  PROVE  IdsSound'
<1> SUFFICES ASSUME NEW id \in TaskId PROVE IdSound(id)'
  BY DEF IdsSound
<1>1. IdSound(id) /\ (Issued(id) => Issued(id)')
  BY IssuedStays DEF IdsSound
<1>2. /\ Some(wire', Bearing(id)) <=> Some(wire, Bearing(id))
      /\ Some(wire', Cutting(id)) <=> Some(wire, Cutting(id))
  <2>1. Bearing(id) \in SUBSET Bearing(id) /\ Cutting(id) \in SUBSET Bearing(id)
    BY DEF Bearing, Cutting
  <2> QED  BY <2>1 DEF WireStands
<1> QED  BY <1>1, <1>2, StillSound DEF mapVars, Indexed

-----------------------------------------------------------------------------
(* The steps that are not writes, as far as Redis, the loop and the ledger *)
(* go                                                                      *)

(* Nothing but the loop moves, and it starts to pop.                       *)
StaysPut ==
  /\ UNCHANGED <<mapVars, redis, wire, ledger>>
  /\ UNCHANGED loop \/ (loop.pc = "off" /\ loop.id = NoTask /\ loop' = Popping)

(* The loop goes idle: it has nothing, or gave back what it had, or what   *)
(* it had is lost.                                                         *)
LetsGo ==
  /\ UNCHANGED <<mapVars, redis, wire, handed>> /\ loop' \in {Off, Popping}
  /\ \A q \in Request :
       /\ due'[q] = "unissued" => due[q] = "unissued"
       /\ due'[q] = "owed" => /\ due[q] = "owed"
                              /\ loop.id = q[1] => \/ loop.pc = "restored"
                                                   \/ loop.pc = "fetched" /\ loop.task = NoTask

SendsAwaited(c, pc) ==
  /\ UNCHANGED <<mapVars, redis, ledger>> /\ wire' = Append(wire, c)
  /\ loop'.pc = pc /\ loop'.id = loop.id /\ loop'.task = loop.task

Fetches ==
  loop.pc = "popped" /\ \E c \in Asking(loop.id) : SendsAwaited(c, "fetching")

Deletes ==
  /\ loop.pc = "fetched" /\ loop.task # NoTask
  /\ \E c \in Deleting(loop.id) : SendsAwaited(c, "deleting")

Restores ==
  /\ loop.pc = "deleted" /\ loop.task \in Task /\ loop.task.id = loop.id
  /\ \E c \in Command : c.op = "restore" /\ c.task = loop.task /\ SendsAwaited(c, "restoring")

Delivers ==
  /\ loop.pc = "deleted" /\ loop.task \in Task /\ loop.task.id = loop.id
  /\ UNCHANGED <<mapVars, redis, wire>> /\ loop' \in {Off, Popping}
  /\ Handed(loop.task)

Pops ==
  /\ UNCHANGED <<mapVars, wire, ledger>>
  /\ loop.id = NoTask /\ redis.order # <<>> /\ redis'.order = Tail(redis.order)
  /\ redis'.active = redis.active /\ redis'.dead = redis.dead /\ redis'.items = redis.items
  /\ loop'.pc = "popped" /\ loop'.id = Head(redis.order) /\ loop'.task = NoTask

(* What the answer to a command makes of the loop that awaits it.          *)
Answers(c) ==
  /\ ~IsAwaited(c) => UNCHANGED loop
  /\ IsAwaited(c) => loop'.id = loop.id
  /\ c.op = "hget" => loop'.pc = "fetched" /\ loop'.task = redis.items[loop.id]
  /\ c.op = "hdel" => loop'.pc = "deleted" /\ loop'.task = loop.task
  /\ c.op = "restore" => loop'.pc = "restored" /\ loop'.task = loop.task

Awaits(c) ==
  /\ IsAwaited(c) => NoneAwaited' /\ loop.pc = AwaitedAt[c.op] /\ loop.id = SubjectOf(c)
  /\ ~IsAwaited(c) \/ loop.id \in TaskId

Executes ==
  /\ HeadGone /\ redis' = Apply(redis, Head(wire)) /\ UNCHANGED <<mapVars, ledger>>
  /\ Awaits(Head(wire)) /\ Answers(Head(wire))

Fails ==
  /\ HeadGone /\ UNCHANGED mapVars /\ Lost(Carried(Head(wire)))
  /\ Awaits(Head(wire))
  /\ \/ IsAwaited(Head(wire)) /\ loop' \in {Off, Popping}
     \/ ~IsAwaited(Head(wire)) /\ UNCHANGED loop

LEMMA HeadAwaits ==
  ASSUME Base, wire # <<>>, wire' = Tail(wire)
  PROVE  Awaits(Head(wire))
<1>1. wire \in Seq(Command) /\ AwaitsOne /\ LoopHolds /\ RemoteTyped
  BY BaseParts DEF RemoteTyped
<1>2. IsAwaited(Head(wire)) =>
        NoneAwaited' /\ loop.pc = AwaitedAt[Head(wire).op] /\ loop.id = SubjectOf(Head(wire))
  BY <1>1, AwaitsOnTail
<1>3. IsAwaited(Head(wire)) => loop.pc \in {"fetching", "deleting", "restoring"}
  BY <1>2 DEF IsAwaited, AwaitedAt
<1>4. IsAwaited(Head(wire)) => loop.id \in TaskId
  BY <1>1, <1>3, LoopFields DEF LoopHolds
<1> QED  BY <1>2, <1>4 DEF Awaits

LEMMA LoopKinds ==
  ASSUME Base, Loop
  PROVE  LetsGo \/ Fetches \/ Deletes \/ Restores \/ Delivers
<1>1. RemoteTyped /\ LoopHolds /\ LedgerTyped
  BY BaseParts DEF RemoteTyped
<1>2. loop.pc \notin {"off", "popping"} => loop.id \in TaskId
  BY <1>1, LoopFields DEF LoopHolds
<1>3. loop.pc = "deleted" => loop.task \in Task /\ loop.task.id = loop.id
  BY <1>1, LoopFields DEF LoopHolds
<1>4. UNCHANGED <<mapVars, redis>>
  BY DEF Loop, LoopStops, LoopFetches, LoopDeletes, LoopDelivers, LoopRestores, LoopEnds,
         LoopCloses, localVars, remoteVars
<1>5. ASSUME NEW c, NEW pc \in LoopPC, LoopSends(c, pc), UNCHANGED ledger
      PROVE  SendsAwaited(c, pc)
  BY <1>1, <1>4, <1>5, LoopFields DEF LoopSends, SendsAwaited
<1>6. CASE LoopStops \/ LoopEnds
  <2>1. /\ UNCHANGED <<wire, ledger>> /\ loop' \in {Off, Popping}
        /\ loop.pc \in {"popping", "restored"}
    BY <1>6, IdleLoop DEF LoopStops, LoopEnds, remoteVars
  <2>2. loop.pc = "popping" => \A q \in Request : loop.id # q[1]
    BY <1>1, UndefinedAssumption, RequestAssumption DEF LoopHolds
  <2> QED  BY <1>4, <2>1, <2>2 DEF LetsGo, ledger
<1>7. CASE LoopFetches
  <2>1. PICK c : c = [op |-> "hget", id |-> loop.id]
    OBVIOUS
  <2>2. loop.pc = "popped" /\ LoopSends(c, "fetching") /\ UNCHANGED ledger
    BY <1>7, <2>1 DEF LoopFetches
  <2>3. c \in Asking(loop.id)
    BY <1>2, <2>1, <2>2, SentCommands DEF Asking
  <2> QED  BY <1>5, <2>2, <2>3 DEF Fetches, LoopPC
<1>8. CASE LoopDeletes
  <2>1. loop.pc = "fetched" /\ UNCHANGED ledger
    BY <1>8 DEF LoopDeletes
  <2>2. CASE loop.task # NoTask
    <3>1. PICK c : c = [op |-> "hdel", id |-> loop.id]
      OBVIOUS
    <3>2. LoopSends(c, "deleting")
      BY <1>8, <2>2, <3>1 DEF LoopDeletes
    <3>3. c \in Deleting(loop.id)
      BY <1>2, <2>1, <3>1, SentCommands DEF Deleting
    <3> QED  BY <1>5, <2>1, <2>2, <3>2, <3>3 DEF Deletes, LoopPC
  <2>3. CASE loop.task = NoTask
    <3>1. UNCHANGED wire /\ loop' \in {Off, Popping}
      BY <1>8, <2>3, IdleLoop DEF LoopDeletes
    <3> QED  BY <1>4, <2>1, <2>3, <3>1 DEF LetsGo, ledger
  <2> QED  BY <2>2, <2>3
<1>9. CASE LoopDelivers
  BY <1>3, <1>4, <1>9, IdleLoop DEF LoopDelivers, Delivers, remoteVars
<1>10. CASE LoopRestores
  <2>1. PICK c : c = [op |-> "restore", task |-> loop.task]
    OBVIOUS
  <2>2. loop.pc = "deleted" /\ LoopSends(c, "restoring") /\ UNCHANGED ledger
    BY <1>10, <2>1 DEF LoopRestores
  <2>3. c \in Command /\ c.op = "restore" /\ c.task = loop.task
    BY <1>3, <2>1, <2>2, SentCommands DEF Carriers
  <2> QED  BY <1>3, <1>5, <2>2, <2>3 DEF Restores, LoopPC
<1>11. CASE LoopCloses
  <2>1. /\ UNCHANGED wire /\ loop' \in {Off, Popping}
        /\ \/ loop.pc = "restored" /\ Lost({})
           \/ Lost({loop.id})
    BY <1>11 DEF LoopCloses, remoteVars
  <2> QED  BY <1>1, <1>4, <2>1, LedgerMoves DEF LetsGo
<1> QED  BY <1>6, <1>7, <1>8, <1>9, <1>10, <1>11 DEF Loop

LEMMA PopKind ==
  ASSUME Base, RedisPops
  PROVE  Pops
<1>1. PICK o : o = Tail(redis.order)
  OBVIOUS
<1>2. /\ loop.pc = "popping" /\ redis.order # <<>> /\ redis' = [redis EXCEPT !.order = o]
      /\ loop' = [loop EXCEPT !.pc = "popped", !.id = Head(redis.order)]
      /\ UNCHANGED <<mapVars, wire, ledger>>
  BY <1>1 DEF RedisPops, localVars
<1>3. RemoteTyped /\ LoopHolds
  BY BaseParts
<1>4. loop.id = NoTask /\ loop.task = NoTask
  BY <1>2, <1>3 DEF LoopHolds
<1>5. redis \in RedisState
  BY <1>3 DEF RemoteTyped
<1>6. /\ redis'.order = o
      /\ redis'.active = redis.active /\ redis'.dead = redis.dead /\ redis'.items = redis.items
  BY <1>2, <1>5 DEF RedisState
<1>7. loop'.pc = "popped" /\ loop'.id = Head(redis.order) /\ loop'.task = loop.task
  BY <1>2, <1>3 DEF RemoteTyped
<1> QED  BY <1>1, <1>2, <1>4, <1>6, <1>7 DEF Pops

LEMMA ExecuteKind ==
  ASSUME Base, RedisExecutes
  PROVE  Executes
<1>1. PICK c : c = Head(wire)
  OBVIOUS
<1>2. /\ wire # <<>> /\ redis' = Apply(redis, c) /\ wire' = Tail(wire) /\ loop' = Answered(c)
      /\ UNCHANGED <<mapVars, ledger>>
  BY <1>1 DEF RedisExecutes, localVars
<1>3. RemoteTyped
  BY BaseParts
<1>4. HeadGone /\ Awaits(c)
  BY <1>1, <1>2, HeadAwaits DEF HeadGone
<1>5. Answers(c)
  <2>1. CASE ~IsAwaited(c)
    BY <1>2, <2>1 DEF Answered, Answers, IsAwaited
  <2>2. CASE c.op = "hget"
    <3>1. loop' = [loop EXCEPT !.pc = "fetched", !.task = redis.items[c.id]]
      BY <1>2, <2>2 DEF Answered
    <3>2. loop.id = c.id
      BY <1>4, <2>2 DEF Awaits, IsAwaited, SubjectOf
    <3> QED  BY <1>3, <2>2, <3>1, <3>2 DEF Answers, IsAwaited, RemoteTyped
  <2>3. CASE c.op = "hdel"
    <3>1. loop' = [loop EXCEPT !.pc = "deleted"]
      BY <1>2, <2>3 DEF Answered
    <3> QED  BY <1>3, <2>3, <3>1 DEF Answers, IsAwaited, RemoteTyped
  <2>4. CASE c.op = "restore"
    <3>1. loop' = [loop EXCEPT !.pc = "restored"]
      BY <1>2, <2>4 DEF Answered
    <3> QED  BY <1>3, <2>4, <3>1 DEF Answers, IsAwaited, RemoteTyped
  <2> QED  BY <2>1, <2>2, <2>3, <2>4 DEF IsAwaited
<1> QED  BY <1>1, <1>2, <1>4, <1>5 DEF Executes

LEMMA FailureKind ==
  ASSUME Base, CommandFails
  PROVE  Fails
<1>1. PICK c : c = Head(wire)
  OBVIOUS
<1>2. /\ wire # <<>> /\ redis' \in {redis, Apply(redis, Head(wire))} /\ wire' = Tail(wire)
      /\ Lost(Carried(c)) /\ UNCHANGED mapVars
  BY <1>1 DEF CommandFails
<1>3. \/ IsAwaited(c) /\ LoopAgain(waiters)
      \/ ~IsAwaited(c) /\ UNCHANGED loop
  BY <1>1 DEF CommandFails, IsAwaited
<1> QED  BY <1>1, <1>2, <1>3, HeadAwaits, IdleLoop DEF Fails, HeadGone

(* Every step is a write, a crash, a restart or one of these.              *)
LEMMA StepKinds ==
  ASSUME Base, [Next]_vars
  PROVE  \/ Writes \/ Crash \/ Restart
         \/ StaysPut \/ LetsGo \/ Fetches \/ Deletes \/ Restores \/ Delivers
         \/ Pops \/ Executes \/ Fails
<1>1. CASE Work
  <2>1. PICK w \in Worker : Dequeue(w) \/ Abort(w) \/ Use(w)
    BY <1>1 DEF Work
  <2>2. UNCHANGED <<mapVars, redis, wire, ledger>>
    BY <2>1 DEF Dequeue, Abort, Use, remoteVars
  <2>3. UNCHANGED loop \/ (loop.pc = "off" /\ loop' = Popping)
    BY <2>1 DEF Dequeue, Abort, Use
  <2>4. loop.pc = "off" => loop.id = NoTask
    BY BaseParts DEF LoopHolds
  <2> QED  BY <2>2, <2>3, <2>4 DEF StaysPut
<1>2. CASE Disconnect
  BY <1>2 DEF Disconnect, StaysPut, remoteVars
<1>3. CASE UNCHANGED vars
  BY <1>3 DEF vars, storageVars, mapVars, remoteVars, StaysPut
<1>4. CASE Write
  BY <1>4, WriteWrites
<1> QED  BY <1>1, <1>2, <1>3, <1>4, LoopKinds, PopKind, ExecuteKind, FailureKind DEF Next, Fail

LEMMA KindsStayIssued ==
  ASSUME Base, \/ StaysPut \/ LetsGo \/ Fetches \/ Deletes \/ Restores \/ Delivers
               \/ Pops \/ Executes \/ Fails \/ Crash \/ Restart
  PROVE  \A q \in Request : due'[q] = "unissued" => due[q] = "unissued"
<1>1. LedgerTyped
  BY BaseParts DEF RemoteTyped
<1> QED  BY <1>1, LedgerMoves
         DEF StaysPut, LetsGo, Fetches, Deletes, Restores, Delivers, Pops, Executes, Fails, Crash,
             Restart, SendsAwaited, ledger

LEMMA IdsKept == Base /\ IdsSound /\ [Next]_vars => IdsSound'
<1> SUFFICES ASSUME Base, IdsSound, [Next]_vars PROVE IdsSound'
  OBVIOUS
<1>1. wire \in Seq(Command) /\ redis \in RedisState /\ DownIsEmpty
  BY BaseParts DEF RemoteTyped
<1>2. CASE StaysPut \/ LetsGo \/ Delivers \/ Pops
  <2>1. /\ UNCHANGED <<mapVars, wire>>
        /\ redis'.active = redis.active /\ redis'.dead = redis.dead
    BY <1>2 DEF StaysPut, LetsGo, Delivers, Pops
  <2> QED  BY <1>2, <2>1, SameWireStands, KindsStayIssued, NothingStoredKeepsIds
<1>3. CASE Fetches \/ Deletes \/ Restores
  <2>1. PICK c \in Command : /\ c.op \in {"hget", "hdel", "restore"}
                             /\ UNCHANGED <<mapVars, redis>> /\ wire' = Append(wire, c)
    BY <1>3 DEF Fetches, Deletes, Restores, SendsAwaited, Asking, Deleting
  <2>2. \A id \in TaskId : c \notin Bearing(id)
    BY <2>1 DEF Bearing, Cutting
  <2>3. \A id \in TaskId : WireStands(Bearing(id))
    BY <1>1, <2>1, <2>2, SendingStands
  <2> QED  BY <1>3, <2>1, <2>3, KindsStayIssued, NothingStoredKeepsIds
<1>4. CASE Executes \/ Fails
  <2>1. HeadGone /\ UNCHANGED mapVars
    BY <1>4 DEF Executes, Fails
  <2> QED  BY <1>4, <2>1, KindsStayIssued, HeadGoneKeepsIds
<1>5. CASE Crash
  <2> SUFFICES ASSUME NEW id \in TaskId PROVE IdSound(id)'
    BY DEF IdsSound
  <2>1. IdSound(id) /\ (Issued(id) => Issued(id)')
    BY <1>5, KindsStayIssued, IssuedStays DEF IdsSound
  <2>2. /\ activeTasks'[id] = NoTask /\ deadLetterTasks'[id] = NoTask /\ ~Indexed(id)'
        /\ wire' = <<>> /\ redis' = redis
    BY <1>5 DEF Crash, Without, Indexed
  <2>3. ~Some(wire', Bearing(id)) /\ ~Some(wire', Cutting(id))
    BY <2>2, NothingOnEmptyWire
  <2> QED  BY <2>1, <2>2, <2>3, StillSound
<1>6. CASE Restart
  <2> SUFFICES ASSUME NEW id \in TaskId PROVE IdSound(id)'
    BY DEF IdsSound
  <2>1. IdSound(id) /\ (Issued(id) => Issued(id)')
    BY <1>6, KindsStayIssued, IssuedStays DEF IdsSound
  <2>2. wire' = <<>>
    BY <1>1, <1>6 DEF Restart, remoteVars, DownIsEmpty
  <2>3. ~Some(wire', Bearing(id)) /\ ~Some(wire', Cutting(id))
    BY <2>2, NothingOnEmptyWire
  <2>4. /\ redis' = redis /\ activeTasks' = redis.active /\ deadLetterTasks' = redis.dead
        /\ Indexed(id)' => redis.active[id] # NoTask \/ redis.dead[id] # NoTask
    BY <1>6 DEF Restart, remoteVars, Indexed
  <2> QED  BY <2>1, <2>3, <2>4 DEF IdSound, UnissuedIsNew, CutIsGone
<1> QED  BY <1>2, <1>3, <1>4, <1>5, <1>6, StepKinds, WritesKeepIds

LEMMA InitIds == Init => IdsSound
<1> SUFFICES ASSUME Init PROVE IdsSound
  OBVIOUS
<1>1. wire = <<>>
  BY DEF Init
<1>2. ASSUME NEW id \in TaskId
      PROVE  /\ activeTasks[id] = NoTask /\ deadLetterTasks[id] = NoTask /\ ~Indexed(id)
             /\ redis.active[id] = NoTask /\ redis.dead[id] = NoTask
  BY DEF Init, StorageInit, Indexed
<1> QED  BY <1>1, <1>2, NothingOnEmptyWire DEF IdsSound, IdSound, UnissuedIsNew, CutIsGone

-----------------------------------------------------------------------------
(* A message that has not come is known to nobody                          *)

Knows(r) ==
  \/ \E id \in TaskId : \/ Carries(activeTasks[id], r)
                        \/ Carries(redis.active[id], r) \/ Carries(redis.items[id], r)
  \/ Some(wire, Bringing(r))
  \/ Carries(loop.task, r)
  \/ \E s \in handed : r \in s.messages

KnownIsIssued(r) == Knows(r) => due[r] # "unissued"

AllKnownIssued == \A r \in Request : KnownIsIssued(r)

(* Storing a task makes its messages known, and no others.                 *)
LEMMA StoringMakesKnown ==
  ASSUME Base, NEW task \in Task, setActive(task), UNCHANGED <<redis, loop>>,
         NEW c \in Command, c.task = task, wire' = Append(wire, c),
         handed' \subseteq handed \cup {task}, NEW r, Knows(r)'
  PROVE  Knows(r) \/ r \in task.messages
<1>1. /\ \A id \in TaskId : activeTasks'[id] = activeTasks[id] \/ activeTasks'[id] = task
      /\ wire \in Seq(Command)
  BY BaseParts DEF setActive, MapsTyped, RemoteTyped
<1>2. Some(wire', Bringing(r)) => Some(wire, Bringing(r)) \/ c \in Bringing(r)
  BY <1>1, SomeAppended
<1>3. c \in Bringing(r) => r \in task.messages
  BY DEF Bringing
<1> QED  BY <1>1, <1>2, <1>3 DEF Knows, Carries

LEMMA StartsKnown ==
  ASSUME NEW task \in Task, task.id \in TaskId, NEW q \in Request, Starts(task, q),
         NEW r \in task.messages, r # q
  PROVE  Knows(r)
BY DEF Starts, Knows, Carries, isActive

(* Any other write makes nothing known.                                    *)
LEMMA UnsettingMakesUnknown ==
  ASSUME Base, NEW r, UNCHANGED <<redis, loop, handed>>, WireStands(Bringing(r)),
         \A id \in TaskId : activeTasks'[id] \in {activeTasks[id], NoTask},
         Knows(r)'
  PROVE  Knows(r)
<1>1. Some(wire', Bringing(r)) <=> Some(wire, Bringing(r))
  BY DEF WireStands
<1> QED  BY <1>1 DEF Knows, Carries

LEMMA WritesKeepKnown ==
  ASSUME Base, AllKnownIssued, Writes
  PROVE  AllKnownIssued'
<1> SUFFICES ASSUME NEW r \in Request, Knows(r)' PROVE due'[r] # "unissued"
  BY DEF AllKnownIssued, KnownIsIssued
<1>1. UNCHANGED <<redis, loop>> /\ (Knows(r) => due[r] # "unissued")
  BY DEF Writes, AllKnownIssued, KnownIsIssued
<1>2. /\ wire \in Seq(Command) /\ LedgerTyped /\ contextIndex \in [Context -> SUBSET TaskId]
      /\ activeTasks \in [TaskId -> Task \cup {NoTask}]
  BY BaseParts DEF RemoteTyped, MapsTyped
<1>3. due'[r] = "unissued" => due[r] = "unissued"
  BY <1>2, StaysIssued
<1>4. ASSUME NEW task \in Task, NEW op, NEW c \in Command, c = [op |-> op, task |-> task],
             wire' = Append(wire, c), setActive(task),
             NEW q \in Request, Starts(task, q), due'[q] # "unissued",
             handed' \subseteq handed \cup {task}
      PROVE  due'[r] # "unissued"
  <2>1. Knows(r) \/ r \in task.messages
    <3>1. c.task = task
      BY <1>4
    <3> QED  BY <1>1, <1>4, <3>1, StoringMakesKnown
  <2>2. task.id \in TaskId
    BY DEF Task
  <2> QED  BY <1>1, <1>3, <1>4, <2>1, <2>2, StartsKnown
<1>5. ASSUME NEW task \in Task, Queues(task), wire' = Append(wire, [op |-> "queue", task |-> task])
      PROVE  due'[r] # "unissued"
  <2>1. PICK c \in Command : c = [op |-> "queue", task |-> task]
    BY SentCommands DEF Carriers
  <2>2. PICK q \in Request : Starts(task, q) /\ Queued(task, q)
    BY <1>5 DEF Queues
  <2>3. due'[q] # "unissued" /\ handed' = handed
    BY <1>2, <2>2, LedgerMoves
  <2>4. setActive(task)
    BY <1>5 DEF Queues
  <2> QED  BY <1>4, <1>5, <2>1, <2>2, <2>3, <2>4
<1>6. ASSUME NEW task \in Task, Stores(task), wire' = Append(wire, [op |-> "store", task |-> task])
      PROVE  due'[r] # "unissued"
  <2>1. PICK c \in Command : c = [op |-> "store", task |-> task]
    BY SentCommands DEF Carriers
  <2>2. setActive(task) /\ task.id \in TaskId
    BY <1>6 DEF Stores, Task
  <2>3. CASE \E q \in Request : StoresNew(task, q)
    <3>1. PICK q \in Request : StoresNew(task, q)
      BY <2>3
    <3>2. Starts(task, q) /\ due'[q] # "unissued" /\ handed' \subseteq handed \cup {task}
      BY <1>2, <3>1, LedgerMoves DEF StoresNew, Starts
    <3> QED  BY <1>4, <1>6, <2>1, <2>2, <3>2
  <2>4. CASE /\ isActive(task.id) /\ task.messages \subseteq activeTasks[task.id].messages
             /\ UNCHANGED ledger
    <3>1. Knows(r) \/ r \in task.messages
      <4>1. c.task = task /\ wire' = Append(wire, c) /\ handed' = handed
        BY <1>6, <2>1, <2>4 DEF ledger
      <4> QED  BY <1>1, <2>2, <4>1, StoringMakesKnown
    <3>2. r \in task.messages => Knows(r)
      BY <2>2, <2>4 DEF Knows, Carries, isActive
    <3> QED  BY <1>1, <1>3, <3>1, <3>2
  <2> QED  BY <1>6, <2>3, <2>4 DEF Stores
<1>7. ASSUME UNCHANGED handed, WireStands(Bringing(r)),
             \A id \in TaskId : activeTasks'[id] \in {activeTasks[id], NoTask}
      PROVE  due'[r] # "unissued"
  BY <1>1, <1>3, <1>7, UnsettingMakesUnknown
<1>8. ASSUME NEW task \in Task,
             \/ Retires(task) /\ wire' = Append(wire, [op |-> "retire", task |-> task])
             \/ /\ RetiresQueued(task)
                /\ wire' = Append(Append(wire, [op |-> "unqueue", id |-> task.id]),
                                  [op |-> "retire", task |-> task])
      PROVE  due'[r] # "unissued"
  <2>1. PICK d \in Command : d = [op |-> "retire", task |-> task]
    BY SentCommands DEF Carriers
  <2>2. PICK c \in Command : c = [op |-> "unqueue", id |-> task.id]
    BY SentCommands DEF Task
  <2>3. WireStands(Bringing(r))
    <3>1. d \notin Bringing(r) /\ c \notin Bringing(r)
      BY <2>1, <2>2 DEF Bringing
    <3>2. wire' = Append(wire, d) \/ wire' = Append(Append(wire, c), d)
      BY <1>8, <2>1, <2>2
    <3> QED  BY <1>2, <3>1, <3>2, SendingStands, SendingTwoStands
  <2>4. \A id \in TaskId : activeTasks'[id] \in {activeTasks[id], NoTask}
    BY <1>2, <1>8 DEF Retires, RetiresQueued, storeDeadLetter
  <2>5. handed' = handed
    BY <1>2, <1>8, LedgerMoves DEF Retires, RetiresQueued, ledger
  <2> QED  BY <1>7, <2>3, <2>4, <2>5
<1>9. ASSUME NEW ids \in SUBSET TaskId, evict(ids), UNCHANGED ledger,
             wire' = Append(wire, [op |-> "evict", ids |-> ids])
      PROVE  due'[r] # "unissued"
  <2>1. PICK c \in Command : c = [op |-> "evict", ids |-> ids]
    BY SentCommands
  <2>2. WireStands(Bringing(r))
    <3>1. c \notin Bringing(r)
      BY <2>1 DEF Bringing
    <3> QED  BY <1>2, <1>9, <2>1, <3>1, SendingStands
  <2> QED  BY <1>7, <1>9, <2>2 DEF evict, ledger
<1>10. ASSUME NEW k \in Context, Drops(k), wire' = Append(wire, [op |-> "drop", ids |-> contextIndex[k]])
       PROVE  due'[r] # "unissued"
  <2>0. contextIndex[k] \in SUBSET TaskId
    BY <1>2
  <2>1. PICK c \in Command : c = [op |-> "drop", ids |-> contextIndex[k]]
    BY <2>0, SentCommands
  <2>2. WireStands(Bringing(r))
    <3>1. c \notin Bringing(r)
      BY <2>1 DEF Bringing
    <3> QED  BY <1>2, <1>10, <2>1, <3>1, SendingStands
  <2>3. \A id \in TaskId : activeTasks'[id] \in {activeTasks[id], NoTask}
    <3>1. activeTasks' = Without(activeTasks, contextIndex[k])
      BY <1>10 DEF Drops
    <3> QED  BY <1>2, <3>1, WithoutType
  <2>4. handed' = handed
    BY <1>2, <1>10, LedgerMoves DEF Drops
  <2> QED  BY <1>7, <2>2, <2>3, <2>4
<1> QED  BY <1>5, <1>6, <1>8, <1>9, <1>10 DEF Writes

(* What Redis learns was on its way to it.                                 *)
LEMMA HeadGoneKnows ==
  ASSUME Base, HeadGone, NEW id \in TaskId, NEW r,
         \/ Carries(redis'.active[id], r) \/ Carries(redis'.items[id], r)
         \/ Some(wire', Bringing(r))
  PROVE  Knows(r)
<1>1. /\ redis' = redis \/ AppliesAt(redis', redis, Head(wire), id)
      /\ Some(wire, Bringing(r)) <=> Head(wire) \in Bringing(r) \/ Some(wire', Bringing(r))
      /\ Head(wire) \in Command
  BY HeadGoneAt
<1>2. /\ Head(wire) \in Adding(id) /\ r \in Head(wire).task.messages => Head(wire) \in Bringing(r)
      /\ Head(wire) \in Storing(id) /\ r \in Head(wire).task.messages => Head(wire) \in Bringing(r)
  BY <1>1 DEF Adding, Storing, Bringing
<1>3. Carries(redis'.active[id], r) => Carries(redis.active[id], r) \/ Head(wire) \in Bringing(r)
  BY <1>1, <1>2 DEF AppliesAt, Carries
<1>4. Carries(redis'.items[id], r) => Carries(redis.items[id], r) \/ Head(wire) \in Bringing(r)
  BY <1>1, <1>2 DEF AppliesAt, Carries
<1> QED  BY <1>1, <1>3, <1>4 DEF Knows

LEMMA KnownKept == Base /\ AllKnownIssued /\ [Next]_vars => AllKnownIssued'
<1> SUFFICES ASSUME Base, AllKnownIssued, [Next]_vars PROVE AllKnownIssued'
  OBVIOUS
<1> SUFFICES ASSUME ~Writes, NEW r \in Request, Knows(r)' PROVE Knows(r)
  BY StepKinds, KindsStayIssued, WritesKeepKnown DEF AllKnownIssued, KnownIsIssued
<1>1. wire \in Seq(Command) /\ RemoteTyped /\ LedgerTyped /\ DownIsEmpty /\ LoopHolds
  BY BaseParts DEF RemoteTyped
<1>2. \A l \in {Off, Popping} : ~Carries(l.task, r)
  BY DEF Off, Popping, Carries
<1>3. CASE StaysPut \/ LetsGo \/ Delivers
  <2>1. UNCHANGED <<activeTasks, redis, wire>> /\ (loop' = loop \/ loop' \in {Off, Popping})
    BY <1>3 DEF StaysPut, LetsGo, Delivers, mapVars
  <2>2. handed' = handed \/ (handed' = handed \cup {loop.task} /\ loop.task \in Task)
    BY <1>1, <1>3, LedgerMoves DEF StaysPut, LetsGo, Delivers, ledger
  <2> QED  BY <1>2, <2>1, <2>2, NoTaskAssumption DEF Knows, Carries
<1>4. CASE Pops
  BY <1>4 DEF Pops, mapVars, ledger, Knows, Carries
<1>5. CASE Fetches \/ Deletes \/ Restores
  <2>1. PICK c \in Command : /\ c.op \in {"hget", "hdel", "restore"}
                             /\ c.op = "restore" => c.task = loop.task /\ loop.task \in Task
                             /\ UNCHANGED <<mapVars, redis, ledger>> /\ wire' = Append(wire, c)
                             /\ loop'.task = loop.task
    BY <1>5 DEF Fetches, Deletes, Restores, SendsAwaited, Asking, Deleting
  <2>2. Some(wire', Bringing(r)) => Some(wire, Bringing(r)) \/ c \in Bringing(r)
    BY <1>1, <2>1, SomeAppended
  <2>3. c \in Bringing(r) => Carries(loop.task, r)
    BY <2>1, NoTaskAssumption DEF Bringing, Carries
  <2> QED  BY <2>1, <2>2, <2>3 DEF Knows, mapVars, ledger
<1>6. CASE Executes \/ Fails
  <2>1. /\ HeadGone /\ UNCHANGED mapVars /\ handed' = handed
        /\ Carries(loop'.task, r) =>
             \/ Carries(loop.task, r)
             \/ loop.id \in TaskId /\ Carries(redis.items[loop.id], r)
    <3>1. CASE Executes
      BY <3>1 DEF Executes, Awaits, Answers, IsAwaited, ledger
    <3>2. CASE Fails
      BY <1>1, <1>2, <3>2, LedgerMoves DEF Fails
    <3> QED  BY <1>6, <3>1, <3>2
  <2>2. Carries(loop'.task, r) => Knows(r)
    BY <2>1 DEF Knows
  <2>3. (\E id \in TaskId : Carries(activeTasks'[id], r)) \/ (\E s \in handed' : r \in s.messages)
          => Knows(r)
    BY <2>1 DEF Knows, mapVars
  <2>4. Some(wire', Bringing(r)) => Some(wire, Bringing(r))
    BY <2>1, SomeOfTail, <1>1 DEF HeadGone
  <2>5. Some(wire', Bringing(r)) => Knows(r)
    BY <2>4 DEF Knows
  <2>6. \A id \in TaskId : Carries(redis'.active[id], r) \/ Carries(redis'.items[id], r) => Knows(r)
    BY <2>1, HeadGoneKnows
  <2> QED  BY <2>2, <2>3, <2>5, <2>6 DEF Knows
<1>7. CASE Crash
  <2>1. /\ \A id \in TaskId : activeTasks'[id] = NoTask
        /\ wire' = <<>> /\ redis' = redis /\ loop' = Off /\ handed' = handed
    BY <1>7 DEF Crash, Without, Lost
  <2> QED  BY <1>2, <2>1, NothingOnEmptyWire DEF Knows, Carries
<1>8. CASE Restart
  BY <1>8 DEF Restart, remoteVars, ledger, Knows
<1> QED  BY <1>3, <1>4, <1>5, <1>6, <1>7, <1>8, StepKinds

LEMMA InitKnown == Init => AllKnownIssued
BY DEF Init, AllKnownIssued, KnownIsIssued, Knows, Carries, Off, StorageInit, Some

-----------------------------------------------------------------------------
(* Writes, as far as the queue goes                                        *)

(* A message is queued with a snapshot that has it.                        *)
QueuesNew(task, r) ==
  /\ Starts(task, r) /\ Queued(task, r)
  /\ \E c \in Command : c.op = "queue" /\ c.task = task /\ wire' = Append(wire, c)

(* A message is handed over at once.                                       *)
HandsNew(task, r) ==
  /\ Starts(task, r) /\ Handed(task)
  /\ \E c \in Command : c.op = "store" /\ c.task = task /\ wire' = Append(wire, c)

(* The list, its payloads and what is owed of them stay, or a message is   *)
(* owed no longer.                                                         *)
QueueStays ==
  /\ UNCHANGED handed
  /\ \A id \in TaskId : WireStands(Adding(id) \cup Asking(id))
  /\ \A q \in Request : due'[q] = "owed" =>
       due[q] = "owed" /\ (Some(wire', Cutting(q[1])) => Some(wire, Cutting(q[1])))

LEMMA OwedAfterSending ==
  ASSUME Base, NEW c \in Command, wire' = Append(wire, c), c.op \notin {"queue", "restore", "hget"}
  PROVE  /\ \A id \in TaskId : WireStands(Adding(id) \cup Asking(id))
         /\ \A id : Some(wire', Cutting(id)) => Some(wire, Cutting(id)) \/ c \in Cutting(id)
<1>1. wire \in Seq(Command)
  BY BaseParts DEF RemoteTyped
<1>2. \A id \in TaskId : c \notin Adding(id) \cup Asking(id)
  BY DEF Adding, Asking
<1> QED  BY <1>1, <1>2, SendingStands, SomeAppended

LEMMA WriteKinds ==
  ASSUME Base, Writes
  PROVE  /\ UNCHANGED <<redis, loop>>
         /\ \/ QueueStays
            \/ \E task \in Task, r \in Request : QueuesNew(task, r) \/ HandsNew(task, r)
<1>1. UNCHANGED <<redis, loop>>
  BY DEF Writes
<1>2. wire \in Seq(Command) /\ LedgerTyped /\ contextIndex \in [Context -> SUBSET TaskId]
  BY BaseParts DEF RemoteTyped, MapsTyped
<1>3. ASSUME NEW task \in Task, Queues(task), wire' = Append(wire, [op |-> "queue", task |-> task])
      PROVE  \E r \in Request : QueuesNew(task, r)
  <2>1. PICK c \in Command : c = [op |-> "queue", task |-> task]
    BY SentCommands DEF Carriers
  <2> QED  BY <1>3, <2>1 DEF Queues, QueuesNew
<1>4. ASSUME NEW task \in Task, Stores(task), wire' = Append(wire, [op |-> "store", task |-> task])
      PROVE  QueueStays \/ \E r \in Request : HandsNew(task, r)
  <2>1. PICK c \in Command : c = [op |-> "store", task |-> task]
    BY SentCommands DEF Carriers
  <2>2. c.op = "store" /\ c.task = task /\ wire' = Append(wire, c) /\ \A id : c \notin Cutting(id)
    BY <1>4, <2>1 DEF Cutting
  <2>3. /\ \A id \in TaskId : WireStands(Adding(id) \cup Asking(id))
        /\ \A id : Some(wire', Cutting(id)) => Some(wire, Cutting(id))
    BY <2>2, OwedAfterSending
  <2>4. CASE UNCHANGED ledger
    BY <2>3, <2>4 DEF QueueStays, ledger
  <2>5. CASE \E r \in Request : StoresNew(task, r)
    <3>1. PICK r \in Request : StoresNew(task, r)
      BY <2>5
    <3>2. CASE Handed(task)
      BY <2>2, <3>1, <3>2 DEF StoresNew, HandsNew
    <3>3. CASE due' = [due EXCEPT ![r] = "none"] /\ UNCHANGED handed
      <4>1. \A q \in Request : due'[q] = "owed" => due[q] = "owed"
        BY <1>2, <3>3, LedgerMoves
      <4> QED  BY <2>3, <3>3, <4>1 DEF QueueStays
    <3> QED  BY <3>1, <3>2, <3>3 DEF StoresNew
  <2> QED  BY <1>4, <2>4, <2>5 DEF Stores
<1>5. ASSUME NEW task \in Task, Retires(task), wire' = Append(wire, [op |-> "retire", task |-> task])
      PROVE  QueueStays
  <2>1. PICK c \in Command : c = [op |-> "retire", task |-> task]
    BY SentCommands DEF Carriers
  <2>2. c.op = "retire" /\ wire' = Append(wire, c) /\ \A id : c \notin Cutting(id)
    BY <1>5, <2>1 DEF Cutting
  <2>3. /\ \A id \in TaskId : WireStands(Adding(id) \cup Asking(id))
        /\ \A id : Some(wire', Cutting(id)) => Some(wire, Cutting(id))
    BY <2>2, OwedAfterSending
  <2>4. UNCHANGED handed /\ \A q \in Request : due'[q] = "owed" => due[q] = "owed"
    BY <1>2, <1>5, LedgerMoves DEF Retires, ledger
  <2> QED  BY <2>3, <2>4 DEF QueueStays
<1>6. ASSUME NEW task \in Task, RetiresQueued(task),
             wire' = Append(Append(wire, [op |-> "unqueue", id |-> task.id]),
                            [op |-> "retire", task |-> task])
      PROVE  QueueStays
  <2>1. PICK d \in Command : d = [op |-> "retire", task |-> task]
    BY SentCommands DEF Carriers
  <2>2. PICK c \in Command : c = [op |-> "unqueue", id |-> task.id]
    BY SentCommands DEF Task
  <2>3. PICK v : v = Append(wire, c)
    OBVIOUS
  <2>4. wire' = Append(v, d) /\ v \in Seq(Command)
    BY <1>2, <1>6, <2>1, <2>2, <2>3, WireLast
  <2>5. \A id \in TaskId : WireStands(Adding(id) \cup Asking(id))
    <3>1. \A id \in TaskId : /\ c \notin Adding(id) \cup Asking(id)
                             /\ d \notin Adding(id) \cup Asking(id)
      BY <2>1, <2>2 DEF Adding, Asking
    <3> QED  BY <1>2, <2>3, <2>4, <3>1, SendingTwoStands
  <2>6. \A id : id # task.id => (Some(wire', Cutting(id)) => Some(wire, Cutting(id)))
    <3>1. \A id : Some(wire', Cutting(id)) <=> Some(v, Cutting(id)) \/ d \in Cutting(id)
      BY <2>4, SomeAppended
    <3>2. \A id : Some(v, Cutting(id)) <=> Some(wire, Cutting(id)) \/ c \in Cutting(id)
      BY <1>2, <2>3, SomeAppended
    <3>3. \A id : id # task.id => c \notin Cutting(id) /\ d \notin Cutting(id)
      BY <2>1, <2>2 DEF Cutting
    <3> QED  BY <3>1, <3>2, <3>3
  <2>7. /\ handed' = handed
        /\ \A q \in Request : due'[q] = "owed" => due[q] = "owed" /\ q[1] # task.id
    BY <1>2, <1>6, LedgerMoves DEF RetiresQueued
  <2> QED  BY <2>5, <2>6, <2>7 DEF QueueStays
<1>7. ASSUME NEW ids \in SUBSET TaskId, UNCHANGED ledger,
             wire' = Append(wire, [op |-> "evict", ids |-> ids])
      PROVE  QueueStays
  <2>1. PICK c \in Command : c = [op |-> "evict", ids |-> ids]
    BY SentCommands
  <2>2. c.op = "evict" /\ wire' = Append(wire, c) /\ \A id : c \notin Cutting(id)
    BY <1>7, <2>1 DEF Cutting
  <2>3. /\ \A id \in TaskId : WireStands(Adding(id) \cup Asking(id))
        /\ \A id : Some(wire', Cutting(id)) => Some(wire, Cutting(id))
    BY <2>2, OwedAfterSending
  <2> QED  BY <1>7, <2>3 DEF QueueStays, ledger
<1>8. ASSUME NEW k \in Context, Drops(k), wire' = Append(wire, [op |-> "drop", ids |-> contextIndex[k]])
      PROVE  QueueStays
  <2>1. PICK ids \in SUBSET TaskId : ids = contextIndex[k]
    BY <1>2
  <2>2. PICK c \in Command : c = [op |-> "drop", ids |-> ids]
    BY SentCommands
  <2>3. c.op = "drop" /\ wire' = Append(wire, c) /\ \A id : c \in Cutting(id) => id \in ids
    BY <1>8, <2>1, <2>2 DEF Cutting
  <2>4. /\ \A id \in TaskId : WireStands(Adding(id) \cup Asking(id))
        /\ \A id : Some(wire', Cutting(id)) => Some(wire, Cutting(id)) \/ id \in ids
    BY <2>3, OwedAfterSending
  <2>5. /\ handed' = handed
        /\ \A q \in Request : due'[q] = "owed" => due[q] = "owed" /\ q[1] \notin ids
    BY <1>2, <1>8, <2>1, LedgerMoves DEF Drops
  <2> QED  BY <2>4, <2>5 DEF QueueStays
<1>9. QueueStays \/ \E task \in Task, r \in Request : QueuesNew(task, r) \/ HandsNew(task, r)
  BY <1>3, <1>4, <1>5, <1>6, <1>7, <1>8 DEF Writes
<1> QED  BY <1>1, <1>9

-----------------------------------------------------------------------------
(* A snapshot is in one place, and in none once it is handed over          *)

Has(s) == loop.task = s /\ loop.pc \in Holding

Payload(s) == redis.items[s.id] = s

OnePlace(s) ==
  /\ ~SomeThen(wire, Giving(s), Giving(s))
  /\ ~(Payload(s) /\ Some(wire, Giving(s)))
  /\ ~(Has(s) /\ Some(wire, Giving(s)))
  /\ ~(Has(s) /\ loop.pc = "deleted" /\ Payload(s))

HandedIsNowhere(s) == s \in handed => ~Payload(s) /\ ~Has(s) /\ ~Some(wire, Giving(s))

SnapshotSound(s) == OnePlace(s) /\ HandedIsNowhere(s)

SnapshotsSound == \A s \in Task : SnapshotSound(s)

(* A step that puts the snapshot nowhere.                                  *)
LEMMA StillOnce ==
  ASSUME NEW s, SnapshotSound(s), s \in handed' => s \in handed,
         Some(wire', Giving(s)) => Some(wire, Giving(s)),
         SomeThen(wire', Giving(s), Giving(s)) => SomeThen(wire, Giving(s), Giving(s)),
         Payload(s)' => Payload(s),
         Has(s)' => Has(s), Has(s)' /\ loop'.pc = "deleted" /\ loop.pc # "deleted" => ~Payload(s)'
  PROVE  SnapshotSound(s)'
BY DEF SnapshotSound, OnePlace, HandedIsNowhere

(* A snapshot with a message that has just come is nowhere.                *)
LEMMA NewIsNowhere ==
  ASSUME AllKnownIssued, NEW task \in Task, NEW r \in Request, Starts(task, r)
  PROVE  task \notin handed /\ ~Payload(task) /\ ~Has(task) /\ ~Some(wire, Giving(task))
<1>1. ~Knows(r) /\ r \in task.messages /\ task.id \in TaskId
  BY DEF AllKnownIssued, KnownIsIssued, Starts, Task
<1>2. Giving(task) \subseteq Bringing(r)
  BY <1>1 DEF Giving, Bringing
<1>3. ~Some(wire, Giving(task))
  BY <1>1, <1>2, SomeWithin DEF Knows
<1>4. task \notin handed /\ ~Payload(task) /\ ~Has(task)
  BY <1>1, NoTaskAssumption DEF Knows, Carries, Payload, Has
<1> QED  BY <1>3, <1>4

LEMMA WritesKeepSnapshots ==
  ASSUME Base, AllKnownIssued, SnapshotsSound, Writes
  PROVE  SnapshotsSound'
<1> SUFFICES ASSUME NEW s \in Task PROVE SnapshotSound(s)'
  BY DEF SnapshotsSound
<1>1. SnapshotSound(s) /\ s.id \in TaskId
  BY DEF SnapshotsSound, Task
<1>2. UNCHANGED <<redis, loop>>
  BY WriteKinds
<1>3. wire \in Seq(Command) /\ LedgerTyped
  BY BaseParts DEF RemoteTyped
<1>4. /\ Payload(s)' <=> Payload(s)
      /\ Has(s)' <=> Has(s)
      /\ loop'.pc = loop.pc
  BY <1>2 DEF Payload, Has
<1>5. CASE QueueStays
  <2>1. Giving(s) \in SUBSET (Adding(s.id) \cup Asking(s.id))
    BY DEF Giving, Adding
  <2>2. /\ Some(wire', Giving(s)) <=> Some(wire, Giving(s))
        /\ SomeThen(wire', Giving(s), Giving(s)) <=> SomeThen(wire, Giving(s), Giving(s))
        /\ handed' = handed
    BY <1>1, <1>5, <2>1 DEF QueueStays, WireStands
  <2> QED  BY <1>1, <1>4, <2>2, StillOnce
<1>6. ASSUME NEW task \in Task, NEW r \in Request, QueuesNew(task, r) PROVE SnapshotSound(s)'
  <2>1. PICK c \in Command : c.op = "queue" /\ c.task = task /\ wire' = Append(wire, c)
    BY <1>6 DEF QueuesNew
  <2>2. /\ Some(wire', Giving(s)) <=> Some(wire, Giving(s)) \/ c \in Giving(s)
        /\ SomeThen(wire', Giving(s), Giving(s))
             <=> SomeThen(wire, Giving(s), Giving(s)) \/ (Some(wire, Giving(s)) /\ c \in Giving(s))
    BY <1>3, <2>1, SomeAppended
  <2>3. c \in Giving(s) => s = task
    BY <2>1 DEF Giving
  <2>4. handed' = handed
    BY <1>3, <1>6, LedgerMoves DEF QueuesNew
  <2>5. task \notin handed /\ ~Payload(task) /\ ~Has(task) /\ ~Some(wire, Giving(task))
    BY <1>6, NewIsNowhere DEF QueuesNew
  <2>6. CASE s = task
    BY <1>1, <1>4, <2>2, <2>4, <2>5, <2>6 DEF SnapshotSound, OnePlace, HandedIsNowhere
  <2>7. CASE s # task
    BY <1>1, <1>4, <2>2, <2>3, <2>4, <2>7, StillOnce
  <2> QED  BY <2>6, <2>7
<1>7. ASSUME NEW task \in Task, NEW r \in Request, HandsNew(task, r) PROVE SnapshotSound(s)'
  <2>1. PICK c \in Command : c.op = "store" /\ c.task = task /\ wire' = Append(wire, c)
    BY <1>7 DEF HandsNew
  <2>2. /\ Some(wire', Giving(s)) <=> Some(wire, Giving(s)) \/ c \in Giving(s)
        /\ SomeThen(wire', Giving(s), Giving(s))
             <=> SomeThen(wire, Giving(s), Giving(s)) \/ (Some(wire, Giving(s)) /\ c \in Giving(s))
    BY <1>3, <2>1, SomeAppended
  <2>3. c \notin Giving(s)
    BY <2>1 DEF Giving
  <2>4. handed' = handed \cup {task}
    BY <1>3, <1>7, LedgerMoves DEF HandsNew
  <2>5. task \notin handed /\ ~Payload(task) /\ ~Has(task) /\ ~Some(wire, Giving(task))
    BY <1>7, NewIsNowhere DEF HandsNew
  <2>6. CASE s = task
    BY <1>1, <1>4, <2>2, <2>3, <2>5, <2>6 DEF SnapshotSound, OnePlace, HandedIsNowhere
  <2>7. CASE s # task
    BY <1>1, <1>4, <2>2, <2>3, <2>4, <2>7, StillOnce
  <2> QED  BY <2>6, <2>7
<1> QED  BY <1>5, <1>6, <1>7, WriteKinds

(* The oldest command is gone: what it gave is the payload, or lost.       *)
LEMMA HeadGoneOnce ==
  ASSUME Base, NEW s \in Task, SnapshotSound(s), HeadGone
  PROVE  /\ Some(wire', Giving(s)) => Some(wire, Giving(s))
         /\ SomeThen(wire', Giving(s), Giving(s)) => SomeThen(wire, Giving(s), Giving(s))
         /\ Head(wire) \in Giving(s) => ~Some(wire', Giving(s)) /\ ~Has(s) /\ s \notin handed
         /\ Payload(s)' => Payload(s) \/ Head(wire) \in Giving(s)
         /\ Payload(s)' => ~Some(wire', Giving(s))
         /\ Head(wire) \in Deleting(s.id) => redis' = redis \/ ~Payload(s)'
<1>1. s.id \in TaskId /\ s # NoTask
  BY NoTaskAssumption DEF Task
<1>2. /\ redis' = redis \/ AppliesAt(redis', redis, Head(wire), s.id)
      /\ Some(wire, Giving(s)) <=> Head(wire) \in Giving(s) \/ Some(wire', Giving(s))
      /\ SomeThen(wire, Giving(s), Giving(s))
           <=> SomeThen(wire', Giving(s), Giving(s)) \/ (Head(wire) \in Giving(s) /\ Some(wire', Giving(s)))
  BY <1>1, HeadGoneAt
<1>3. Head(wire) \in Giving(s) => ~Some(wire', Giving(s)) /\ ~Has(s) /\ s \notin handed
  BY <1>2 DEF SnapshotSound, OnePlace, HandedIsNowhere
<1>4. Payload(s)' => Payload(s) \/ Head(wire) \in Giving(s)
  <2>1. Head(wire) \in Adding(s.id) /\ Head(wire).task = s => Head(wire) \in Giving(s)
    BY DEF Adding, Giving
  <2> QED  BY <1>1, <1>2, <2>1 DEF Payload, AppliesAt
<1>5. Payload(s)' => ~Some(wire', Giving(s))
  BY <1>2, <1>3, <1>4 DEF SnapshotSound, OnePlace
<1>6. Head(wire) \in Deleting(s.id) => redis' = redis \/ ~Payload(s)'
  BY <1>1, <1>2 DEF Payload, AppliesAt
<1> QED  BY <1>2, <1>3, <1>4, <1>5, <1>6

LEMMA SnapshotsKept == Base /\ AllKnownIssued /\ SnapshotsSound /\ [Next]_vars => SnapshotsSound'
<1> SUFFICES ASSUME Base, AllKnownIssued, SnapshotsSound, [Next]_vars PROVE SnapshotsSound'
  OBVIOUS
<1>0. CASE Writes
  BY <1>0, WritesKeepSnapshots
<1> SUFFICES ASSUME ~Writes, NEW s \in Task PROVE SnapshotSound(s)'
  BY <1>0 DEF SnapshotsSound
<1>1. SnapshotSound(s) /\ s.id \in TaskId /\ s # NoTask
  BY NoTaskAssumption DEF SnapshotsSound, Task
<1>2. wire \in Seq(Command) /\ RemoteTyped /\ LedgerTyped /\ LoopHolds
  BY BaseParts DEF RemoteTyped
<1>3. \A l \in {Off, Popping} : l.task = NoTask
  BY DEF Off, Popping
<1>4. CASE StaysPut \/ LetsGo
  <2>1. /\ redis' = redis /\ wire' = wire /\ handed' = handed
        /\ Has(s)' => Has(s) /\ loop' = loop
    BY <1>1, <1>3, <1>4 DEF StaysPut, LetsGo, ledger, Has
  <2> QED  BY <1>1, <2>1, StillOnce DEF Payload
<1>5. CASE Pops
  <2>1. redis'.items = redis.items /\ wire' = wire /\ handed' = handed /\ ~Has(s)'
    BY <1>1, <1>5 DEF Pops, ledger, Has
  <2> QED  BY <1>1, <2>1, StillOnce DEF Payload
<1>6. CASE Fetches \/ Deletes
  <2>1. PICK c \in Command : /\ c.op \in {"hget", "hdel"} /\ wire' = Append(wire, c)
                             /\ UNCHANGED <<redis, ledger>> /\ loop'.task = loop.task
                             /\ loop'.pc \in {"fetching", "deleting"}
                             /\ loop'.pc = "deleting" => loop.pc = "fetched"
    BY <1>6 DEF Fetches, Deletes, SendsAwaited, Asking, Deleting
  <2>2. c \notin Giving(s)
    BY <2>1 DEF Giving
  <2>3. /\ Some(wire', Giving(s)) => Some(wire, Giving(s))
        /\ SomeThen(wire', Giving(s), Giving(s)) => SomeThen(wire, Giving(s), Giving(s))
    BY <1>2, <2>1, <2>2, SomeAppended
  <2>4. Has(s)' => Has(s)
    BY <2>1 DEF Has, Holding
  <2> QED  BY <1>1, <2>1, <2>3, <2>4, StillOnce DEF Payload, ledger
<1>7. CASE Restores
  <2>1. PICK c \in Command : /\ c.op = "restore" /\ c.task = loop.task /\ wire' = Append(wire, c)
                             /\ UNCHANGED <<redis, ledger>> /\ loop'.pc = "restoring"
    BY <1>7 DEF Restores, SendsAwaited
  <2>2. /\ Some(wire', Giving(s)) <=> Some(wire, Giving(s)) \/ c \in Giving(s)
        /\ SomeThen(wire', Giving(s), Giving(s))
             <=> SomeThen(wire, Giving(s), Giving(s)) \/ (Some(wire, Giving(s)) /\ c \in Giving(s))
    BY <1>2, <2>1, SomeAppended
  <2>3. ~Has(s)' /\ handed' = handed /\ (Payload(s)' <=> Payload(s))
    BY <2>1 DEF Has, Holding, Payload, ledger
  <2>4. c \in Giving(s) => Has(s) /\ loop.pc = "deleted"
    BY <1>7, <2>1 DEF Giving, Has, Holding, Restores
  <2> QED  BY <1>1, <2>2, <2>3, <2>4 DEF SnapshotSound, OnePlace, HandedIsNowhere
<1>8. CASE Delivers
  <2>1. /\ redis' = redis /\ wire' = wire /\ ~Has(s)' /\ loop.pc = "deleted"
        /\ handed' = handed \cup {loop.task}
    BY <1>1, <1>2, <1>3, <1>8, LedgerMoves DEF Delivers, Has
  <2>2. s = loop.task => Has(s)
    BY <2>1 DEF Has, Holding
  <2>3. (Payload(s)' <=> Payload(s)) /\ (Some(wire', Giving(s)) <=> Some(wire, Giving(s)))
    BY <2>1 DEF Payload
  <2>4. OnePlace(s)'
    BY <1>1, <2>1, <2>3 DEF SnapshotSound, OnePlace
  <2>5. HandedIsNowhere(s)'
    BY <1>1, <2>1, <2>2, <2>3 DEF SnapshotSound, OnePlace, HandedIsNowhere
  <2> QED  BY <2>4, <2>5 DEF SnapshotSound
<1>9. CASE Fails
  <2>1. HeadGone /\ handed' = handed /\ (loop' = loop \/ ~Has(s)')
    BY <1>1, <1>2, <1>3, <1>9, LedgerMoves DEF Fails, Has
  <2>2. /\ Some(wire', Giving(s)) => Some(wire, Giving(s))
        /\ SomeThen(wire', Giving(s), Giving(s)) => SomeThen(wire, Giving(s), Giving(s))
        /\ Head(wire) \in Giving(s) => ~Some(wire', Giving(s)) /\ ~Has(s) /\ s \notin handed
        /\ Payload(s)' => Payload(s) \/ Head(wire) \in Giving(s)
        /\ Payload(s)' => ~Some(wire', Giving(s))
    BY <1>1, <2>1, HeadGoneOnce
  <2>3. Has(s)' => Has(s) /\ loop'.pc = loop.pc
    BY <2>1 DEF Has
  <2>4. OnePlace(s)'
    BY <1>1, <2>2, <2>3 DEF SnapshotSound, OnePlace
  <2>5. HandedIsNowhere(s)'
    BY <1>1, <2>1, <2>2, <2>3 DEF SnapshotSound, HandedIsNowhere
  <2> QED  BY <2>4, <2>5 DEF SnapshotSound
<1>10. CASE Executes
  <2>1. /\ HeadGone /\ redis' = Apply(redis, Head(wire)) /\ handed' = handed
        /\ Answers(Head(wire)) /\ Awaits(Head(wire))
    BY <1>10 DEF Executes, ledger
  <2>2. /\ Some(wire', Giving(s)) => Some(wire, Giving(s))
        /\ SomeThen(wire', Giving(s), Giving(s)) => SomeThen(wire, Giving(s), Giving(s))
        /\ Head(wire) \in Giving(s) => ~Some(wire', Giving(s)) /\ ~Has(s) /\ s \notin handed
        /\ Payload(s)' => Payload(s) \/ Head(wire) \in Giving(s)
        /\ Payload(s)' => ~Some(wire', Giving(s))
    BY <1>1, <2>1, HeadGoneOnce
  <2>3. CASE ~IsAwaited(Head(wire))
    <3>1. Has(s)' => Has(s) /\ loop'.pc = loop.pc
      BY <2>1, <2>3 DEF Answers, Has
    <3>2. OnePlace(s)'
      BY <1>1, <2>2, <3>1 DEF SnapshotSound, OnePlace
    <3>3. HandedIsNowhere(s)'
      BY <1>1, <2>1, <2>2, <3>1 DEF SnapshotSound, HandedIsNowhere
    <3> QED  BY <3>2, <3>3 DEF SnapshotSound
  <2>4. CASE Head(wire).op = "restore"
    <3>1. ~Has(s)'
      BY <2>1, <2>4 DEF Answers, Has, Holding
    <3>2. OnePlace(s)'
      BY <1>1, <2>2, <3>1 DEF SnapshotSound, OnePlace
    <3>3. HandedIsNowhere(s)'
      BY <1>1, <2>1, <2>2, <3>1 DEF SnapshotSound, HandedIsNowhere
    <3> QED  BY <3>2, <3>3 DEF SnapshotSound
  <2>5. CASE Head(wire).op = "hget"
    <3>1. loop.id \in TaskId /\ loop'.task = redis.items[loop.id] /\ loop'.pc = "fetched"
      BY <2>1, <2>5 DEF Answers, Awaits, IsAwaited
    <3>2. Has(s)' => Payload(s)
      <4>1. redis.items[loop.id] # NoTask => redis.items[loop.id].id = loop.id
        BY <3>1, BaseParts DEF AllFiled, Filed
      <4> QED  BY <1>1, <3>1, <4>1 DEF Has, Payload
    <3>3. Head(wire) \notin Giving(s)
      BY <2>5 DEF Giving
    <3>4. OnePlace(s)'
      BY <1>1, <2>2, <3>1, <3>2, <3>3 DEF SnapshotSound, OnePlace
    <3>5. HandedIsNowhere(s)'
      BY <1>1, <2>1, <2>2, <3>2, <3>3 DEF SnapshotSound, HandedIsNowhere
    <3> QED  BY <3>4, <3>5 DEF SnapshotSound
  <2>6. CASE Head(wire).op = "hdel"
    <3>1. loop'.task = loop.task /\ loop'.pc = "deleted" /\ loop.pc = "deleting"
      BY <2>1, <2>6 DEF Answers, Awaits, IsAwaited, AwaitedAt
    <3>2. Has(s)' => Has(s)
      BY <3>1 DEF Has, Holding
    <3>3. Has(s)' => ~Payload(s)'
      <4>1. Has(s) => s.id = loop.id
        BY <1>1, <1>2 DEF Has, LoopHolds
      <4>2. Head(wire) \in Command /\ Head(wire).id = loop.id
        BY <2>1, <2>6, HeadGoneAt, <1>1 DEF Awaits, IsAwaited, SubjectOf
      <4>3. /\ Head(wire) \notin Giving(s)
            /\ AppliesAt(redis', redis, Head(wire), s.id)
        BY <1>1, <1>2, <2>1, <2>6, <4>2, ApplyAt DEF Giving, RemoteTyped
      <4> QED  BY <1>1, <2>6, <3>2, <4>1, <4>2, <4>3 DEF Deleting, AppliesAt, Payload
    <3>4. Head(wire) \notin Giving(s)
      BY <2>6 DEF Giving
    <3>5. OnePlace(s)'
      BY <1>1, <2>2, <3>2, <3>3, <3>4 DEF SnapshotSound, OnePlace
    <3>6. HandedIsNowhere(s)'
      BY <1>1, <2>1, <2>2, <3>2, <3>4 DEF SnapshotSound, HandedIsNowhere
    <3> QED  BY <3>5, <3>6 DEF SnapshotSound
  <2> QED  BY <2>3, <2>4, <2>5, <2>6 DEF IsAwaited
<1>11. CASE Crash
  <2>1. wire' = <<>> /\ redis' = redis /\ handed' = handed /\ loop' = Off
    BY <1>11 DEF Crash, Lost
  <2>2. /\ ~Has(s)' /\ ~Some(wire', Giving(s)) /\ ~SomeThen(wire', Giving(s), Giving(s))
        /\ Payload(s)' <=> Payload(s)
    BY <1>1, <1>3, <2>1, NothingOnEmptyWire DEF Has, Payload
  <2> QED  BY <1>1, <2>1, <2>2, StillOnce
<1>12. CASE Restart
  <2>1. wire' = wire /\ redis' = redis /\ handed' = handed /\ loop' = loop
    BY <1>12 DEF Restart, remoteVars, ledger
  <2> QED  BY <1>1, <2>1, StillOnce DEF Payload, Has
<1> QED  BY <1>4, <1>5, <1>6, <1>7, <1>8, <1>9, <1>10, <1>11, <1>12, StepKinds

LEMMA InitSnapshots == Init => SnapshotsSound
<1> SUFFICES ASSUME Init, NEW s \in Task PROVE SnapshotSound(s)
  BY DEF SnapshotsSound
<1>1. s # NoTask /\ s.id \in TaskId
  BY NoTaskAssumption DEF Task
<1>2. wire = <<>> /\ handed = {} /\ redis.items[s.id] = NoTask /\ loop.task = NoTask
  BY <1>1 DEF Init, StorageInit, Off
<1> QED  BY <1>1, <1>2, NothingOnEmptyWire DEF SnapshotSound, OnePlace, HandedIsNowhere, Payload, Has

(* One enqueue, one hand-over (HandedOnce): the snapshot that the loop     *)
(* hands over is neither listed nor on its way, and none that was handed   *)
(* over is kept anywhere, over second entries of a task, failures, crashes *)
(* and restarts.                                                           *)
THEOREM HandsOverOnce == Spec => HandedOnce
<1> DEFINE Inv == Base /\ AllKnownIssued /\ SnapshotsSound
<1>1. Init => Inv
  BY InitBase, InitKnown, InitSnapshots
<1>2. Inv /\ [Next]_vars => Inv'
  BY BaseKept, KnownKept, SnapshotsKept
<1>3. Inv /\ [Next]_vars => [LoopDelivers => loop.task \notin handed]_vars
  <2> SUFFICES ASSUME Inv, LoopDelivers PROVE loop.task \notin handed
    OBVIOUS
  <2>1. loop.pc = "deleted"
    BY DEF LoopDelivers
  <2>2. loop.task \in Task
    BY <2>1, BaseParts, LoopFields DEF LoopHolds
  <2>3. Has(loop.task) /\ SnapshotSound(loop.task)
    BY <2>1, <2>2 DEF Has, Holding, SnapshotsSound
  <2> QED  BY <2>3 DEF SnapshotSound, HandedIsNowhere
<1> QED  BY <1>1, <1>2, <1>3, PTL DEF Spec, HandedOnce

-----------------------------------------------------------------------------
(* What is owed is queued                                                  *)

(* The loop has read a payload of the task, or has popped an entry.        *)
Taken(r) == loop.id = r[1] /\ loop.pc \in Holding

Popped(r) == loop.id = r[1] /\ loop.pc \in {"popped", "fetching"}

Listed(r) == Occurs(redis.order, r[1]) \/ Some(wire, Adding(r[1])) \/ Popped(r)

Paid(r) == Carries(redis.items[r[1]], r) \/ Some(wire, With(r))

(* What an owed message has, as long as it is owed: an entry and a payload *)
(* that it is in, which no later one of its task is without, or a loop that*)
(* has read it; and a loop that asks for a payload gets one that has it.   *)
OwedHas(r) ==
  /\ ~Some(wire, Cutting(r[1]))
  /\ Taken(r) => Carries(loop.task, r)
  /\ ~Taken(r) => Listed(r) /\ Paid(r)
  /\ Carries(redis.items[r[1]], r) => ~Some(wire, Sans(r))
  /\ ~SomeThen(wire, With(r), Sans(r))
  /\ loop.id = r[1] /\ loop.pc = "fetching" =>
       Carries(redis.items[r[1]], r) \/ SomeThen(wire, With(r), Asking(r[1]))

OwedSound(r) == due[r] = "owed" => OwedHas(r)

AllOwedSound == \A r \in Request : OwedSound(r)

(* A step that adds to the wire, and what it adds has the message.         *)
LEMMA StillHas ==
  ASSUME NEW r, OwedHas(r), UNCHANGED <<redis, loop>>,
         Some(wire', Cutting(r[1])) => Some(wire, Cutting(r[1])),
         Some(wire', Sans(r)) => Some(wire, Sans(r)),
         SomeThen(wire', With(r), Sans(r)) => SomeThen(wire, With(r), Sans(r)),
         Some(wire, Adding(r[1])) => Some(wire', Adding(r[1])),
         Some(wire, With(r)) => Some(wire', With(r)),
         SomeThen(wire, With(r), Asking(r[1])) => SomeThen(wire', With(r), Asking(r[1]))
  PROVE  OwedHas(r)'
BY DEF OwedHas, Taken, Popped, Listed, Paid

(* The loop moves, elsewhere or within what it has read.                   *)
LEMMA LoopHas ==
  ASSUME NEW r, OwedHas(r),
         redis'.items[r[1]] = redis.items[r[1]],
         Occurs(redis'.order, r[1]) <=> Occurs(redis.order, r[1]),
         WireStands(Cutting(r[1]) \cup Adding(r[1])),
         ~Popped(r) /\ ~Popped(r)', Taken(r)' <=> Taken(r),
         Taken(r) => loop'.task = loop.task
  PROVE  OwedHas(r)'
<1>1. /\ Cutting(r[1]) \in SUBSET (Cutting(r[1]) \cup Adding(r[1]))
      /\ Adding(r[1]) \in SUBSET (Cutting(r[1]) \cup Adding(r[1]))
      /\ With(r) \in SUBSET (Cutting(r[1]) \cup Adding(r[1]))
      /\ Sans(r) \in SUBSET (Cutting(r[1]) \cup Adding(r[1]))
  BY DEF With, Sans
<1>2. /\ Some(wire', Cutting(r[1])) <=> Some(wire, Cutting(r[1]))
      /\ Some(wire', Adding(r[1])) <=> Some(wire, Adding(r[1]))
      /\ Some(wire', With(r)) <=> Some(wire, With(r))
      /\ Some(wire', Sans(r)) <=> Some(wire, Sans(r))
      /\ SomeThen(wire', With(r), Sans(r)) <=> SomeThen(wire, With(r), Sans(r))
  BY <1>1 DEF WireStands
<1> QED  BY <1>2 DEF OwedHas, Popped, Listed, Paid

LEMMA QueuingKeepsOwed ==
  ASSUME Base, IdsSound, AllKnownIssued, NEW task \in Task, NEW q \in Request, QueuesNew(task, q),
         UNCHANGED <<redis, loop>>, NEW r \in Request, OwedSound(r)
  PROVE  OwedSound(r)'
<1> SUFFICES ASSUME due'[r] = "owed" PROVE OwedHas(r)'
  BY DEF OwedSound
<1>1. PICK c \in Command : c.op = "queue" /\ c.task = task /\ wire' = Append(wire, c)
  BY DEF QueuesNew
<1>2. wire \in Seq(Command) /\ LedgerTyped
  BY BaseParts DEF RemoteTyped
<1>3. /\ \A S : Some(wire', S) <=> Some(wire, S) \/ c \in S
      /\ \A S, T : SomeThen(wire', S, T) <=> SomeThen(wire, S, T) \/ (Some(wire, S) /\ c \in T)
  BY <1>1, <1>2, SomeAppended
<1>4. Starts(task, q) /\ Queued(task, q) /\ task.id \in TaskId
  BY DEF QueuesNew, Task
<1>5. CASE r = q
  <2>1. ~Taking(task.id) /\ r[1] = task.id /\ r \in task.messages
    BY <1>2, <1>4, <1>5, LedgerMoves DEF Starts
  <2>2. ~Taken(r) /\ ~(loop.id = r[1] /\ loop.pc = "fetching")
    BY <2>1 DEF Taking, Taken
  <2>3. ~Knows(r)
    BY <1>4, <1>5 DEF AllKnownIssued, KnownIsIssued, Starts
  <2>4. ~Carries(redis.items[r[1]], r) /\ ~Some(wire, With(r))
    <3>1. With(r) \subseteq Bringing(r)
      BY DEF With, Adding, Bringing
    <3>2. ~Some(wire, Bringing(r)) /\ ~Carries(redis.items[r[1]], r)
      BY <1>4, <2>1, <2>3 DEF Knows
    <3> QED  BY <3>1, <3>2, SomeWithin
  <2>5. ~Some(wire, Cutting(r[1]))
    <3>1. IdSound(r[1])
      BY <1>4, <2>1 DEF IdsSound
    <3> QED  BY <1>4, <2>1, <3>1, CuttingBears DEF Starts, IdSound, UnissuedIsNew, CutIsGone, isActive
  <2>6. c \in With(r) /\ c \in Adding(r[1]) /\ c \notin Sans(r) /\ c \notin Cutting(r[1])
    BY <1>1, <2>1 DEF With, Sans, Adding, Cutting
  <2>7. ~SomeThen(wire, With(r), Sans(r))
    BY <2>4 DEF Some, SomeThen
  <2> QED  BY <1>3, <2>2, <2>4, <2>5, <2>6, <2>7 DEF OwedHas, Taken, Listed, Paid
<1>6. CASE r # q
  <2>1. due[r] = "owed" /\ (r[1] = task.id => r \in task.messages)
    BY <1>2, <1>4, <1>6, LedgerMoves
  <2>2. c \notin Sans(r) /\ c \notin Cutting(r[1])
    BY <1>1, <2>1 DEF Sans, Adding, Cutting
  <2>3. OwedHas(r)
    BY <2>1 DEF OwedSound
  <2> QED  BY <1>3, <2>2, <2>3, StillHas
<1> QED  BY <1>5, <1>6

LEMMA WritesKeepOwed ==
  ASSUME Base, IdsSound, AllKnownIssued, AllOwedSound, Writes
  PROVE  AllOwedSound'
<1> SUFFICES ASSUME NEW r \in Request PROVE OwedSound(r)'
  BY DEF AllOwedSound
<1>1. UNCHANGED <<redis, loop>> /\ OwedSound(r) /\ r[1] \in TaskId
  BY WriteKinds, RequestAssumption DEF AllOwedSound
<1>2. wire \in Seq(Command) /\ LedgerTyped
  BY BaseParts DEF RemoteTyped
<1>3. CASE QueueStays
  <2> SUFFICES ASSUME due'[r] = "owed" PROVE OwedHas(r)'
    BY DEF OwedSound
  <2>1. due[r] = "owed" /\ (Some(wire', Cutting(r[1])) => Some(wire, Cutting(r[1])))
    BY <1>3 DEF QueueStays
  <2>2. WireStands(Adding(r[1]) \cup Asking(r[1]))
    BY <1>1, <1>3 DEF QueueStays
  <2>3. /\ Adding(r[1]) \in SUBSET (Adding(r[1]) \cup Asking(r[1]))
        /\ Asking(r[1]) \in SUBSET (Adding(r[1]) \cup Asking(r[1]))
        /\ With(r) \in SUBSET (Adding(r[1]) \cup Asking(r[1]))
        /\ Sans(r) \in SUBSET (Adding(r[1]) \cup Asking(r[1]))
    BY DEF With, Sans
  <2>4. /\ Some(wire', Sans(r)) <=> Some(wire, Sans(r))
        /\ Some(wire', With(r)) <=> Some(wire, With(r))
        /\ Some(wire', Adding(r[1])) <=> Some(wire, Adding(r[1]))
        /\ SomeThen(wire', With(r), Sans(r)) <=> SomeThen(wire, With(r), Sans(r))
        /\ SomeThen(wire', With(r), Asking(r[1])) <=> SomeThen(wire, With(r), Asking(r[1]))
    BY <2>2, <2>3 DEF WireStands
  <2>5. OwedHas(r)
    BY <1>1, <2>1 DEF OwedSound
  <2> QED  BY <1>1, <2>1, <2>4, <2>5, StillHas
<1>4. ASSUME NEW task \in Task, NEW q \in Request, QueuesNew(task, q) PROVE OwedSound(r)'
  BY <1>1, <1>4, QueuingKeepsOwed
<1>5. ASSUME NEW task \in Task, NEW q \in Request, HandsNew(task, q) PROVE OwedSound(r)'
  <2> SUFFICES ASSUME due'[r] = "owed" PROVE OwedHas(r)'
    BY DEF OwedSound
  <2>1. PICK c \in Command : c.op = "store" /\ c.task = task /\ wire' = Append(wire, c)
    BY <1>5 DEF HandsNew
  <2>2. /\ \A S : Some(wire', S) <=> Some(wire, S) \/ c \in S
        /\ \A S, T : SomeThen(wire', S, T) <=> SomeThen(wire, S, T) \/ (Some(wire, S) /\ c \in T)
    BY <1>2, <2>1, SomeAppended
  <2>3. c \notin Sans(r) /\ c \notin Cutting(r[1])
    BY <2>1 DEF Sans, Adding, Cutting
  <2>4. OwedHas(r)
    BY <1>1, <1>2, <1>5, LedgerMoves DEF HandsNew, OwedSound
  <2> QED  BY <1>1, <2>2, <2>3, <2>4, StillHas
<1> QED  BY <1>3, <1>4, <1>5, WriteKinds

LEMMA CarriedIds ==
  ASSUME NEW c \in Command, NEW id
  PROVE  /\ c \in Adding(id) \cup Asking(id) \cup Deleting(id) => id \in Carried(c)
         /\ IsAwaited(c) => SubjectOf(c) \in Carried(c)
BY DEF Adding, Asking, Deleting, Carried, IsAwaited, SubjectOf

(* The oldest command is executed, or fails.                               *)
LEMMA ExecutingKeepsOwed ==
  ASSUME Base, NEW r \in Request, OwedHas(r), Executes
  PROVE  OwedHas(r)'
<1>1. PICK c \in Command : c = Head(wire)
  BY HeadGoneAt, RequestAssumption DEF Executes
<1>2. /\ HeadGone /\ redis' = Apply(redis, c) /\ Awaits(c) /\ Answers(c)
      /\ r[1] \in TaskId /\ r[1] # NoTask
  BY <1>1, RequestAssumption, UndefinedAssumption DEF Executes
<1>3. AppliesAt(redis', redis, c, r[1])
  BY <1>2, ApplyAt, BaseParts DEF RemoteTyped
<1>4. /\ \A S : Some(wire, S) <=> c \in S \/ Some(wire', S)
      /\ \A S, T : SomeThen(wire, S, T) <=> SomeThen(wire', S, T) \/ (c \in S /\ Some(wire', T))
  BY <1>1, <1>2, HeadGoneAt
<1>5. c \notin Cutting(r[1]) /\ ~Some(wire', Cutting(r[1]))
  BY <1>4 DEF OwedHas
<1>6. ~SomeThen(wire', With(r), Sans(r))
  BY <1>4 DEF OwedHas
<1>7. With(r) \subseteq Adding(r[1]) /\ Sans(r) \subseteq Adding(r[1])
  BY DEF With, Sans
<1>8. loop.pc \in LoopPC
  BY BaseParts DEF RemoteTyped
<1>9. CASE c \in Adding(r[1])
  <2>1. redis'.items[r[1]] = c.task /\ Occurs(redis'.order, r[1]) /\ c.task # NoTask
    BY <1>3, <1>9, CommandFields, NoTaskAssumption DEF AppliesAt, Adding, Carriers
  <2>2. /\ Taken(r)' => Taken(r) /\ loop'.task = loop.task
        /\ ~Taken(r)' => ~Taken(r)
        /\ loop'.pc = "fetching" => UNCHANGED loop
    <3>1. CASE c.op = "queue"
      <4>1. UNCHANGED loop
        BY <1>2, <3>1 DEF Answers, IsAwaited
      <4> QED  BY <4>1 DEF Taken
    <3>2. CASE c.op = "restore"
      <4>1. loop.pc = "restoring" /\ loop'.pc = "restored"
        BY <1>2, <3>2 DEF Answers, Awaits, IsAwaited, AwaitedAt
      <4> QED  BY <4>1 DEF Taken, Holding
    <3> QED  BY <1>9, <3>1, <3>2 DEF Adding
  <2>3. CASE c \in With(r)
    <3>1. Carries(redis'.items[r[1]], r) /\ ~Some(wire', Sans(r))
      BY <1>4, <2>1, <2>3 DEF OwedHas, With, Carries
    <3> QED  BY <1>5, <1>6, <2>1, <2>2, <3>1 DEF OwedHas, Listed, Paid
  <2>4. CASE c \notin With(r)
    <3>1. c \in Sans(r)
      BY <1>9, <2>4 DEF With, Sans
    <3>2. ~Carries(redis.items[r[1]], r) /\ ~Carries(redis'.items[r[1]], r)
      BY <1>4, <2>1, <3>1 DEF OwedHas, Sans, Carries
    <3>3. ~Taken(r)' => Some(wire', With(r))
      BY <1>4, <2>2, <2>4, <3>2 DEF OwedHas, Paid
    <3>4. loop'.id = r[1] /\ loop'.pc = "fetching" => SomeThen(wire', With(r), Asking(r[1]))
      BY <1>4, <2>2, <2>4, <3>2 DEF OwedHas
    <3> QED  BY <1>5, <1>6, <2>1, <2>2, <3>2, <3>3, <3>4 DEF OwedHas, Listed, Paid
  <2> QED  BY <2>3, <2>4
<1>10. CASE c \in Deleting(r[1])
  <2>1. c.op = "hdel" /\ c.id = r[1]
    BY <1>10 DEF Deleting
  <2>2. loop.pc = "deleting" /\ loop.id = r[1] /\ loop'.pc = "deleted" /\ loop'.task = loop.task
        /\ loop'.id = r[1]
    BY <1>2, <2>1 DEF Answers, Awaits, IsAwaited, AwaitedAt, SubjectOf
  <2>3. redis'.items[r[1]] = NoTask
    BY <1>3, <1>10 DEF AppliesAt
  <2> QED  BY <1>5, <1>6, <2>2, <2>3 DEF OwedHas, Taken, Holding, Carries
<1>11. CASE c \notin Adding(r[1]) /\ c \notin Deleting(r[1])
  <2>1. /\ redis'.items[r[1]] = redis.items[r[1]]
        /\ Occurs(redis'.order, r[1]) <=> Occurs(redis.order, r[1])
    BY <1>3, <1>5, <1>11 DEF AppliesAt
  <2>2. /\ Some(wire', Adding(r[1])) <=> Some(wire, Adding(r[1]))
        /\ Some(wire', With(r)) <=> Some(wire, With(r))
        /\ Some(wire', Sans(r)) <=> Some(wire, Sans(r))
        /\ SomeThen(wire', With(r), Asking(r[1])) <=> SomeThen(wire, With(r), Asking(r[1]))
    BY <1>4, <1>7, <1>11
  <2>3. CASE c \in Asking(r[1])
    <3>1. c.op = "hget" /\ c.id = r[1]
      BY <2>3 DEF Asking
    <3>2. /\ loop.pc = "fetching" /\ loop.id = r[1] /\ NoneAwaited'
          /\ loop'.pc = "fetched" /\ loop'.id = r[1] /\ loop'.task = redis.items[r[1]]
      BY <1>2, <3>1 DEF Answers, Awaits, IsAwaited, AwaitedAt, SubjectOf
    <3>3. ~SomeThen(wire', With(r), Asking(r[1]))
      BY <3>2 DEF NoneAwaited, SomeThen, Asking, IsAwaited
    <3>4. Carries(loop'.task, r)
      BY <2>2, <3>2, <3>3 DEF OwedHas
    <3> QED  BY <1>5, <1>6, <2>1, <2>2, <3>2, <3>4 DEF OwedHas, Taken, Holding
  <2>4. CASE IsAwaited(c) /\ c \notin Asking(r[1])
    <3>1. loop'.id = loop.id /\ loop.id # r[1]
      BY <1>2, <1>11, <2>4 DEF Answers, Awaits, IsAwaited, SubjectOf, Asking, Adding, Deleting
    <3> QED  BY <1>5, <1>6, <2>1, <2>2, <3>1 DEF OwedHas, Taken, Popped, Listed, Paid
  <2>5. CASE ~IsAwaited(c)
    <3>1. UNCHANGED loop
      BY <1>2, <2>5 DEF Answers
    <3> QED  BY <1>5, <1>6, <2>1, <2>2, <3>1 DEF OwedHas, Taken, Popped, Listed, Paid
  <2> QED  BY <2>3, <2>4, <2>5
<1> QED  BY <1>9, <1>10, <1>11

LEMMA FailingKeepsOwed ==
  ASSUME Base, NEW r \in Request, OwedHas(r), Fails, r[1] \notin Carried(Head(wire))
  PROVE  OwedHas(r)'
<1>1. PICK c \in Command : c = Head(wire)
  BY HeadGoneAt, RequestAssumption DEF Fails
<1>2. /\ HeadGone /\ Awaits(c) /\ r[1] \in TaskId /\ r[1] # NoTask
      /\ \/ IsAwaited(c) /\ loop' \in {Off, Popping}
         \/ UNCHANGED loop
  BY <1>1, RequestAssumption, UndefinedAssumption DEF Fails
<1>3. /\ redis' = redis \/ AppliesAt(redis', redis, c, r[1])
      /\ \A S : Some(wire, S) <=> c \in S \/ Some(wire', S)
      /\ \A S, T : SomeThen(wire, S, T) <=> SomeThen(wire', S, T) \/ (c \in S /\ Some(wire', T))
  BY <1>1, <1>2, HeadGoneAt
<1>4. /\ c \notin Adding(r[1]) /\ c \notin Deleting(r[1])
      /\ IsAwaited(c) => SubjectOf(c) # r[1]
  BY <1>1, CarriedIds
<1>5. c \notin Cutting(r[1]) /\ With(r) \subseteq Adding(r[1]) /\ Sans(r) \subseteq Adding(r[1])
  BY <1>3 DEF OwedHas, With, Sans
<1>6. /\ redis'.items[r[1]] = redis.items[r[1]]
      /\ Occurs(redis'.order, r[1]) <=> Occurs(redis.order, r[1])
  BY <1>3, <1>4, <1>5 DEF AppliesAt
<1>7. /\ Some(wire', Adding(r[1])) <=> Some(wire, Adding(r[1]))
      /\ Some(wire', Cutting(r[1])) <=> Some(wire, Cutting(r[1]))
      /\ Some(wire', With(r)) <=> Some(wire, With(r))
      /\ Some(wire', Sans(r)) <=> Some(wire, Sans(r))
      /\ SomeThen(wire', With(r), Sans(r)) <=> SomeThen(wire, With(r), Sans(r))
      /\ SomeThen(wire', With(r), Asking(r[1])) <=> SomeThen(wire, With(r), Asking(r[1]))
  BY <1>3, <1>4, <1>5
<1>8. CASE UNCHANGED loop
  BY <1>6, <1>7, <1>8 DEF OwedHas, Taken, Popped, Listed, Paid
<1>9. CASE IsAwaited(c) /\ loop' \in {Off, Popping}
  <2>1. loop.id # r[1] /\ loop'.id # r[1]
    BY <1>2, <1>4, <1>9 DEF Awaits, Off, Popping
  <2> QED  BY <1>6, <1>7, <2>1 DEF OwedHas, Taken, Popped, Listed, Paid
<1> QED  BY <1>2, <1>8, <1>9

LEMMA OwedKept == Base /\ IdsSound /\ AllKnownIssued /\ AllOwedSound /\ [Next]_vars => AllOwedSound'
<1> SUFFICES ASSUME Base, IdsSound, AllKnownIssued, AllOwedSound, [Next]_vars PROVE AllOwedSound'
  OBVIOUS
<1>0. CASE Writes
  BY <1>0, WritesKeepOwed
<1> SUFFICES ASSUME ~Writes, NEW r \in Request, due'[r] = "owed" PROVE OwedHas(r)'
  BY <1>0 DEF AllOwedSound, OwedSound
<1>1. (due[r] = "owed" => OwedHas(r)) /\ r[1] \in TaskId /\ r[1] # NoTask
  BY RequestAssumption, UndefinedAssumption DEF AllOwedSound, OwedSound
<1>2. wire \in Seq(Command) /\ RemoteTyped /\ LedgerTyped /\ redis \in RedisState
      /\ redis.order \in Seq(TaskId)
  BY BaseParts, RedisFields DEF RemoteTyped
<1>3. \A l \in {Off, Popping} : l.id # r[1]
  BY <1>1 DEF Off, Popping
<1>4. UNCHANGED wire => WireStands(Cutting(r[1]) \cup Adding(r[1]))
  BY SameWireStands
<1>5. CASE StaysPut
  <2>1. OwedHas(r) /\ UNCHANGED <<redis, wire>>
    BY <1>1, <1>5 DEF StaysPut, ledger
  <2>2. CASE UNCHANGED loop
    BY <2>1, <2>2, StillHas
  <2>3. CASE loop.id = NoTask /\ loop' = Popping
    BY <1>1, <1>3, <1>4, <2>1, <2>3, LoopHas DEF Taken, Popped
  <2> QED  BY <1>5, <2>2, <2>3 DEF StaysPut
<1>6. CASE LetsGo
  <2>1. /\ OwedHas(r) /\ UNCHANGED <<redis, wire>> /\ loop'.id # r[1]
        /\ loop.id = r[1] => loop.pc = "restored" \/ (loop.pc = "fetched" /\ loop.task = NoTask)
    BY <1>1, <1>3, <1>6 DEF LetsGo
  <2>2. ~Taken(r)
    BY <2>1 DEF OwedHas, Taken, Holding, Carries
  <2>3. ~Popped(r) /\ ~Popped(r)' /\ ~Taken(r)'
    BY <2>1 DEF Popped, Taken
  <2> QED  BY <1>4, <2>1, <2>2, <2>3, LoopHas
<1>7. CASE Fetches
  <2>1. PICK c \in Asking(loop.id) :
          /\ loop.pc = "popped" /\ UNCHANGED <<redis, ledger>> /\ wire' = Append(wire, c)
          /\ loop'.pc = "fetching" /\ loop'.id = loop.id
    BY <1>7 DEF Fetches, SendsAwaited
  <2>2. c \in Command /\ c.op = "hget" /\ c.id = loop.id
    BY DEF Asking
  <2>3. /\ \A S : Some(wire', S) <=> Some(wire, S) \/ c \in S
        /\ \A S, T : SomeThen(wire', S, T) <=> SomeThen(wire, S, T) \/ (Some(wire, S) /\ c \in T)
    BY <1>2, <2>1, <2>2, SomeAppended
  <2>4. c \notin Cutting(r[1]) /\ c \notin Adding(r[1]) /\ c \notin With(r) /\ c \notin Sans(r)
    BY <2>2 DEF Cutting, Adding, With, Sans
  <2>5. OwedHas(r)
    BY <1>1, <2>1 DEF ledger
  <2>6. ~Taken(r) /\ ~Taken(r)' /\ (Popped(r)' <=> Popped(r))
    BY <2>1 DEF Taken, Popped, Holding
  <2>7. loop.id = r[1] => Carries(redis.items[r[1]], r) \/ SomeThen(wire', With(r), Asking(r[1]))
    BY <2>1, <2>3, <2>5, <2>6 DEF OwedHas, Paid
  <2> QED  BY <2>1, <2>3, <2>4, <2>5, <2>6, <2>7 DEF OwedHas, Listed, Paid
<1>8. CASE Deletes
  <2>1. PICK c \in Deleting(loop.id) :
          /\ loop.pc = "fetched" /\ UNCHANGED <<redis, ledger>> /\ wire' = Append(wire, c)
          /\ loop'.pc = "deleting" /\ loop'.id = loop.id /\ loop'.task = loop.task
    BY <1>8 DEF Deletes, SendsAwaited
  <2>2. c \in Command /\ c \notin Cutting(r[1]) \cup Adding(r[1])
    BY DEF Deleting, Cutting, Adding
  <2>3. WireStands(Cutting(r[1]) \cup Adding(r[1]))
    BY <1>2, <2>1, <2>2, SendingStands
  <2> QED  BY <1>1, <2>1, <2>3, LoopHas DEF Taken, Popped, Holding, ledger
<1>9. CASE Restores
  <2>1. PICK c \in Command :
          /\ c.op = "restore" /\ c.task = loop.task /\ wire' = Append(wire, c)
          /\ loop.pc = "deleted" /\ loop.task.id = loop.id /\ UNCHANGED <<redis, ledger>>
          /\ loop'.pc = "restoring" /\ loop'.id = loop.id
    BY <1>9 DEF Restores, SendsAwaited
  <2>2. OwedHas(r) /\ ~Taken(r)' /\ ~Popped(r) /\ ~Popped(r)'
    BY <1>1, <2>1 DEF Taken, Popped, Holding, ledger
  <2>3. CASE loop.id # r[1]
    <3>1. c \notin Cutting(r[1]) \cup Adding(r[1])
      BY <2>1, <2>3 DEF Cutting, Adding
    <3>2. WireStands(Cutting(r[1]) \cup Adding(r[1]))
      BY <1>2, <2>1, <3>1, SendingStands
    <3> QED  BY <2>1, <2>2, <2>3, <3>2, LoopHas DEF Taken
  <2>4. CASE loop.id = r[1]
    <3>1. Taken(r) /\ Carries(loop.task, r)
      BY <2>1, <2>2, <2>4 DEF Taken, Holding, OwedHas
    <3>2. c \in With(r) /\ c \in Adding(r[1]) /\ c \notin Sans(r) /\ c \notin Cutting(r[1])
      BY <2>1, <2>4, <3>1 DEF With, Sans, Adding, Cutting, Carries
    <3>3. /\ \A S : Some(wire', S) <=> Some(wire, S) \/ c \in S
          /\ \A S, T : SomeThen(wire', S, T) <=> SomeThen(wire, S, T) \/ (Some(wire, S) /\ c \in T)
      BY <1>2, <2>1, SomeAppended
    <3> QED  BY <2>1, <2>2, <3>2, <3>3 DEF OwedHas, Listed, Paid
  <2> QED  BY <2>3, <2>4
<1>10. CASE Delivers
  <2>1. /\ loop.pc = "deleted" /\ UNCHANGED <<redis, wire>> /\ loop'.id # r[1]
        /\ due[r] = "owed" /\ r \notin loop.task.messages
    BY <1>2, <1>3, <1>10, LedgerMoves DEF Delivers
  <2>2. OwedHas(r) /\ ~Taken(r) /\ ~Taken(r)' /\ ~Popped(r) /\ ~Popped(r)'
    BY <1>1, <2>1 DEF OwedHas, Taken, Popped, Carries
  <2> QED  BY <1>4, <2>1, <2>2, LoopHas
<1>11. CASE Pops
  <2>1. /\ OwedHas(r) /\ UNCHANGED wire /\ redis'.items = redis.items
        /\ loop.id # r[1] /\ redis.order # <<>> /\ redis'.order = Tail(redis.order)
        /\ loop'.pc = "popped" /\ loop'.id = Head(redis.order)
    BY <1>1, <1>11 DEF Pops, ledger
  <2>2. Occurs(redis.order, r[1]) <=> r[1] = Head(redis.order) \/ Occurs(redis'.order, r[1])
    BY <1>2, <2>1, TailOccurs
  <2>3. ~Taken(r) /\ ~Popped(r) /\ ~Taken(r)' /\ (Popped(r)' <=> r[1] = Head(redis.order))
    BY <2>1 DEF Taken, Popped, Holding
  <2> QED  BY <2>1, <2>2, <2>3 DEF OwedHas, Listed, Paid
<1>12. CASE Executes
  BY <1>1, <1>12, ExecutingKeepsOwed DEF Executes, ledger
<1>13. CASE Fails
  <2>1. due[r] = "owed" /\ r[1] \notin Carried(Head(wire))
    BY <1>2, <1>13, LedgerMoves DEF Fails
  <2> QED  BY <1>1, <1>13, <2>1, FailingKeepsOwed
<1>14. CASE Crash
  <2>1. due[r] = "owed" /\ r[1] \notin UnderWay
    BY <1>2, <1>14, LedgerMoves DEF Crash
  <2>2. wire' = <<>> /\ redis' = redis /\ loop' = Off
    BY <1>14 DEF Crash
  <2>3. OwedHas(r) /\ ~Taken(r) /\ ~Popped(r) /\ ~Taken(r)' /\ ~Popped(r)'
    BY <1>1, <1>3, <2>1, <2>2 DEF UnderWay, Taken, Popped
  <2>4. ~Some(wire, Adding(r[1]))
    <3> SUFFICES ASSUME NEW i \in 1..Len(wire), wire[i] \in Adding(r[1]) PROVE FALSE
      BY DEF Some
    <3>1. i \in DOMAIN wire /\ wire[i] \in Command
      BY <1>2
    <3> QED  BY <2>1, <3>1, CarriedIds DEF UnderWay
  <2>5. ~Some(wire, With(r))
    BY <2>4 DEF With, Some
  <2> QED  BY <1>3, <2>2, <2>3, <2>4, <2>5, NothingOnEmptyWire DEF OwedHas, Listed, Paid
<1>15. CASE Restart
  <2>1. OwedHas(r) /\ UNCHANGED <<redis, wire, loop>>
    BY <1>1, <1>15 DEF Restart, remoteVars, ledger
  <2> QED  BY <2>1, StillHas
<1> QED  BY <1>5, <1>6, <1>7, <1>8, <1>9, <1>10, <1>11, <1>12, <1>13, <1>14, <1>15, StepKinds

(* What the wire makes of a payload that has the message, or is about to.  *)
LEMMA ExecutedHas ==
  ASSUME NEW q \in RedisState, NEW w \in Seq(Command), NEW r \in Request,
         ~Some(w, Cutting(r[1])), ~Some(w, Deleting(r[1])), ~SomeThen(w, With(r), Sans(r)),
         Carries(q.items[r[1]], r) => ~Some(w, Sans(r))
  PROVE  /\ Carries(q.items[r[1]], r) \/ Some(w, With(r)) => Carries(Executed(q, w).items[r[1]], r)
         /\ Occurs(q.order, r[1]) \/ Some(w, Adding(r[1])) => Occurs(Executed(q, w).order, r[1])
<1>0. PICK id \in TaskId : id = r[1]
  BY RequestAssumption
<1>1. PICK n \in Nat : n = Len(w) /\ \A i \in 1..n : w[i] \in Command
  BY LenProperties, ElementOfSeq
<1>2. PICK f \in [0..n -> RedisState] : Traces(f, q, w)
  BY <1>1, ExecutedUnfolds
<1>3. /\ f[0] = q /\ Executed(q, w) = f[n]
      /\ \A k \in 1..n : f[k] = Apply(f[k - 1], w[k])
  BY <1>1, <1>2 DEF Traces
<1> DEFINE Has1(k) == Carries(q.items[id], r) \/ (\E i \in 1..k : w[i] \in With(r))
           In1(k) == Occurs(q.order, id) \/ (\E i \in 1..k : w[i] \in Adding(id))
           Good == {k \in 0..n : /\ Has1(k) => Carries(f[k].items[id], r)
                                 /\ In1(k) => Occurs(f[k].order, id)}
<1>4. 0 \in Good
  <2>1. 0 \in 0..n /\ 1..0 = {}
    BY <1>1
  <2> QED  BY <1>3, <2>1
<1>5. ASSUME NEW k \in 1..n, k - 1 \in Good PROVE k \in Good
  <2>1. k \in 0..n /\ k - 1 \in 0..n /\ \A i \in 1..k : i \in 1..(k - 1) \/ i = k
    BY <1>1
  <2>2. w[k] \notin Cutting(id) /\ w[k] \notin Deleting(id) /\ w[k] \in Command
    BY <1>0, <1>1 DEF Some
  <2>3. AppliesAt(f[k], f[k - 1], w[k], id)
    BY <1>2, <1>3, <2>1, <2>2, ApplyAt
  <2>4. In1(k) => Occurs(f[k].order, id)
    <3>1. In1(k) => In1(k - 1) \/ w[k] \in Adding(id)
      BY <2>1
    <3> QED  BY <1>5, <2>2, <2>3, <3>1 DEF AppliesAt
  <2>5. ASSUME Has1(k) PROVE Carries(f[k].items[id], r)
    <3>1. CASE w[k] \in Adding(id)
      <4>1. f[k].items[id] = w[k].task /\ w[k].task # NoTask
        BY <2>3, <3>1, CommandFields, NoTaskAssumption DEF AppliesAt, Adding, Carriers
      <4>2. w[k] \notin Sans(r)
        <5>1. CASE Carries(q.items[id], r)
          BY <1>0, <1>1, <5>1 DEF Some
        <5>2. CASE \E i \in 1..k : w[i] \in With(r)
          <6>1. PICK i \in 1..k : w[i] \in With(r)
            BY <5>2
          <6>2. CASE i = k
            BY <6>1, <6>2 DEF With, Sans
          <6>3. CASE i # k
            <7>1. i < k /\ i \in 1..Len(w) /\ k \in 1..Len(w)
              BY <1>1, <6>3
            <7> QED  BY <6>1, <7>1 DEF SomeThen
          <6> QED  BY <6>2, <6>3
        <5> QED  BY <2>5, <5>1, <5>2
      <4> QED  BY <1>0, <3>1, <4>1, <4>2 DEF Sans, Carries
    <3>2. CASE w[k] \notin Adding(id)
      <4>1. w[k] \notin With(r)
        BY <1>0, <3>2 DEF With
      <4>2. Has1(k - 1)
        BY <2>1, <2>5, <4>1
      <4>3. Carries(f[k - 1].items[id], r)
        BY <1>5, <4>2
      <4> QED  BY <2>2, <2>3, <3>2, <4>3 DEF AppliesAt
    <3> QED  BY <3>1, <3>2
  <2> QED  BY <2>1, <2>4, <2>5
<1>6. 0..n \subseteq Good
  <2> HIDE DEF Good
  <2> QED  BY <1>1, <1>4, <1>5, InductionUpTo
<1>7. n \in Good
  BY <1>1, <1>6
<1> QED  BY <1>0, <1>1, <1>3, <1>7 DEF Some

(* An enqueued message that nothing has touched since is in a payload of   *)
(* its task in Redis, with an entry, or will be once what is under way is  *)
(* executed, or the loop has read it (OwedIsQueued): nothing is lost       *)
(* between the write-behind queue, the loop that pops it, later enqueues of*)
(* the same task and a hydrated mirror.                                    *)
THEOREM OwedTasksQueued == Spec => []OwedIsQueued
<1> DEFINE Inv == Base /\ IdsSound /\ AllKnownIssued /\ AllOwedSound
<1>1. Init => Inv
  BY InitBase, InitIds, InitKnown DEF Init, AllOwedSound, OwedSound
<1>2. Inv /\ [Next]_vars => Inv'
  BY BaseKept, IdsKept, KnownKept, OwedKept
<1>3. Inv => OwedIsQueued
  <2> SUFFICES ASSUME Inv, NEW r \in Request, due[r] = "owed" PROVE StillThere(r)
    BY DEF OwedIsQueued
  <2>1. OwedHas(r) /\ r[1] \in TaskId
    BY RequestAssumption DEF AllOwedSound, OwedSound
  <2>2. AwaitsOne /\ redis \in RedisState /\ wire \in Seq(Command)
    BY BaseParts DEF RemoteTyped
  <2>3. CASE Taken(r)
    BY <2>1, <2>3 DEF OwedHas, Taken, StillThere
  <2>4. CASE ~Taken(r)
    <3>1. ~Some(wire, Deleting(r[1]))
      <4> SUFFICES ASSUME NEW i \in 1..Len(wire), wire[i] \in Deleting(r[1]) PROVE FALSE
        BY DEF Some
      <4>1. wire[i].op = "hdel" /\ wire[i].id = r[1]
        BY DEF Deleting
      <4>2. loop.pc = "deleting" /\ loop.id = r[1]
        BY <2>2, <4>1 DEF AwaitsOne, IsAwaited, AwaitedAt, SubjectOf
      <4> QED  BY <2>4, <4>2 DEF Taken, Holding
    <3>2. /\ Carries(Settled.items[r[1]], r)
          /\ Occurs(Settled.order, r[1]) \/ Popped(r)
      BY <2>1, <2>2, <2>4, <3>1, ExecutedHas, SettledIsExecuted DEF OwedHas, Listed, Paid
    <3> QED  BY <3>2 DEF StillThere, Popped, Occurs, Contains
  <2> QED  BY <2>3, <2>4
<1> QED  BY <1>1, <1>2, <1>3, PTL DEF Spec

-----------------------------------------------------------------------------
(* A task is active or dead, in the mirror and in Redis                    *)

Retiring(id) == {c \in Command : c.op = "retire" /\ c.task.id = id}

(* The mirror may come from the keys at any crash: an active task is not   *)
(* dead in Redis, nor about to be, and what retires is not stored again.   *)
Located(id) ==
  /\ activeTasks[id] # NoTask =>
       deadLetterTasks[id] = NoTask /\ redis.dead[id] = NoTask /\ ~Some(wire, Retiring(id))
  /\ redis.dead[id] # NoTask => redis.active[id] = NoTask /\ ~Some(wire, Storing(id))
  /\ ~SomeThen(wire, Retiring(id), Storing(id))

AllLocated == \A id \in TaskId : Located(id)

LEMMA RetiringKinds ==
  \A id : /\ Retiring(id) \subseteq Bearing(id) /\ Storing(id) \subseteq Bearing(id)
          /\ Retiring(id) \cap Storing(id) = {}
BY DEF Retiring, Storing, Bearing, Carriers

(* What a command makes of the keys of one task.                           *)
LEMMA ApplyLocates ==
  ASSUME NEW r \in RedisState, NEW c \in Command, NEW id \in TaskId
  PROVE  /\ Apply(r, c).active[id] # NoTask => r.active[id] # NoTask \/ c \in Storing(id)
         /\ Apply(r, c).dead[id] # NoTask => r.dead[id] # NoTask \/ c \in Retiring(id)
         /\ c \in Retiring(id) => Apply(r, c).active[id] = NoTask
<1>1. r.active \in [TaskId -> Task \cup {NoTask}] /\ r.dead \in [TaskId -> Task \cup {NoTask}]
  BY RedisFields
<1>2. PICK q : q = Apply(r, c)
  OBVIOUS
<1>3. CASE c.op \in Carriers
  <2>1. c.task \in Task /\ c.task.id \in TaskId
    BY <1>3, CommandFields DEF Task
  <2>2. /\ c.op \in {"store", "queue"} => q.active = [r.active EXCEPT ![c.task.id] = c.task] /\ q.dead = r.dead
        /\ c.op = "restore" => q.active = r.active /\ q.dead = r.dead
        /\ c.op = "retire" => /\ q.active = [r.active EXCEPT ![c.task.id] = NoTask]
                              /\ q.dead = [r.dead EXCEPT ![c.task.id] = c.task]
    BY <1>2, ApplyEffects DEF Leaves
  <2> QED  BY <1>1, <1>2, <1>3, <2>1, <2>2 DEF Carriers, Retiring, Storing
<1>4. CASE c.op \in {"unqueue", "hget", "hdel"}
  <2>1. q.active = r.active /\ q.dead = r.dead
    BY <1>2, <1>4, ApplyEffects DEF Leaves
  <2> QED  BY <1>2, <1>4, <2>1 DEF Retiring
<1>5. CASE c.op \in {"evict", "drop"}
  <2>1. /\ q.active = r.active \/ q.active = Without(r.active, c.ids)
        /\ q.dead = Without(r.dead, c.ids)
    BY <1>2, <1>5, ApplyEffects DEF Leaves
  <2> QED  BY <1>1, <1>2, <1>5, <2>1, WithoutType DEF Retiring
<1> QED  BY <1>3, <1>4, <1>5, CommandFields

(* A step that stores nothing more of the task.                            *)
LEMMA StillLocated ==
  ASSUME NEW id \in TaskId, Located(id),
         UNCHANGED <<redis.active, redis.dead>>,
         Some(wire', Storing(id)) => Some(wire, Storing(id)),
         SomeThen(wire', Retiring(id), Storing(id)) => SomeThen(wire, Retiring(id), Storing(id)),
         activeTasks'[id] # NoTask =>
           /\ activeTasks[id] # NoTask
           /\ Some(wire', Retiring(id)) => Some(wire, Retiring(id))
           /\ deadLetterTasks[id] = NoTask => deadLetterTasks'[id] = NoTask
  PROVE  Located(id)'
BY DEF Located

(* A task is stored as active.                                             *)
LEMMA StoringKeepsLocated ==
  ASSUME Base, NEW task \in Task, IdSound(task.id), Located(task.id), UNCHANGED redis,
         setActive(task), ~Issued(task.id) \/ isActive(task.id), NEW c \in Storing(task.id),
         wire' = Append(wire, c)
  PROVE  Located(task.id)'
<1>1. PICK id \in TaskId : id = task.id
  BY DEF Task
<1>2. wire \in Seq(Command) /\ c \in Command /\ c \notin Retiring(id) /\ c \in Storing(id)
  BY <1>1, BaseParts, RetiringKinds DEF RemoteTyped, Storing
<1>3. Some(wire, Retiring(id)) => Some(wire, Bearing(id))
  BY RetiringKinds DEF Some
<1>4. deadLetterTasks[id] = NoTask /\ redis.dead[id] = NoTask /\ ~Some(wire, Retiring(id))
  BY <1>1, <1>3 DEF isActive, IdSound, UnissuedIsNew, Located
<1>5. /\ \A S : Some(wire', S) <=> Some(wire, S) \/ c \in S
      /\ \A S, T : SomeThen(wire', S, T) <=> SomeThen(wire, S, T) \/ (Some(wire, S) /\ c \in T)
  BY <1>2, SomeAppended
<1>6. deadLetterTasks' = deadLetterTasks
  BY DEF setActive
<1> QED  BY <1>1, <1>2, <1>4, <1>5, <1>6 DEF Located

LEMMA WritesKeepLocated ==
  ASSUME Base, IdsSound, AllLocated, Writes
  PROVE  AllLocated'
<1> SUFFICES ASSUME NEW id \in TaskId PROVE Located(id)'
  BY DEF AllLocated
<1>1. UNCHANGED redis /\ IdSound(id) /\ Located(id)
  BY DEF Writes, IdsSound, AllLocated
<1>2. /\ wire \in Seq(Command) /\ contextIndex \in [Context -> SUBSET TaskId]
      /\ activeTasks \in [TaskId -> Task \cup {NoTask}]
      /\ deadLetterTasks \in [TaskId -> Task \cup {NoTask}]
  BY BaseParts DEF RemoteTyped, MapsTyped
(* Sending a command that does not store it.                               *)
<1>3. ASSUME NEW c \in Command, c \notin Storing(id), wire' = Append(wire, c),
             activeTasks'[id] # NoTask =>
               /\ activeTasks[id] # NoTask /\ c \notin Retiring(id)
               /\ deadLetterTasks[id] = NoTask => deadLetterTasks'[id] = NoTask
      PROVE  Located(id)'
  <2>1. /\ \A S : Some(wire', S) <=> Some(wire, S) \/ c \in S
        /\ \A S, T : SomeThen(wire', S, T) <=> SomeThen(wire, S, T) \/ (Some(wire, S) /\ c \in T)
    BY <1>2, <1>3, SomeAppended
  <2> QED  BY <1>1, <1>3, <2>1, StillLocated
<1>4. ASSUME NEW task \in Task, setActive(task), ~Issued(task.id) \/ isActive(task.id),
             NEW c \in Command, c.op \in {"store", "queue"}, c.task = task, wire' = Append(wire, c)
      PROVE  Located(id)'
  <2>1. CASE task.id = id
    <3>1. c \in Storing(task.id)
      BY <1>4 DEF Storing
    <3> QED  BY <1>1, <1>4, <2>1, <3>1, StoringKeepsLocated
  <2>2. CASE task.id # id
    <3>1. c \notin Storing(id) /\ c \notin Retiring(id)
      BY <1>4, <2>2 DEF Storing, Retiring
    <3>2. activeTasks'[id] = activeTasks[id] /\ deadLetterTasks' = deadLetterTasks
      BY <1>2, <1>4, <2>2 DEF setActive
    <3> QED  BY <1>3, <1>4, <3>1, <3>2
  <2> QED  BY <2>1, <2>2
<1>5. ASSUME NEW task \in Task, Queues(task), wire' = Append(wire, [op |-> "queue", task |-> task])
      PROVE  Located(id)'
  <2>1. PICK c \in Command : c = [op |-> "queue", task |-> task]
    BY SentCommands DEF Carriers
  <2> QED  BY <1>4, <1>5, <2>1 DEF Queues, Starts
<1>6. ASSUME NEW task \in Task, Stores(task), wire' = Append(wire, [op |-> "store", task |-> task])
      PROVE  Located(id)'
  <2>1. PICK c \in Command : c = [op |-> "store", task |-> task]
    BY SentCommands DEF Carriers
  <2> QED  BY <1>4, <1>6, <2>1 DEF Stores, StoresNew, Starts
<1>7. ASSUME NEW task \in Task,
             \/ Retires(task) /\ wire' = Append(wire, [op |-> "retire", task |-> task])
             \/ /\ RetiresQueued(task)
                /\ wire' = Append(Append(wire, [op |-> "unqueue", id |-> task.id]),
                                  [op |-> "retire", task |-> task])
      PROVE  Located(id)'
  <2>1. PICK d \in Command : d = [op |-> "retire", task |-> task]
    BY SentCommands DEF Carriers
  <2>2. PICK c \in Command : c = [op |-> "unqueue", id |-> task.id]
    BY SentCommands DEF Task
  <2>3. /\ c \notin Storing(id) /\ c \notin Retiring(id) /\ d \notin Storing(id)
        /\ d \in Retiring(id) => task.id = id
    BY <2>1, <2>2 DEF Storing, Retiring
  <2>4. storeDeadLetter(task)
    BY <1>7 DEF Retires, RetiresQueued
  <2>5. /\ task.id = id => activeTasks'[id] = NoTask
        /\ task.id # id => activeTasks'[id] = activeTasks[id] /\ deadLetterTasks'[id] = deadLetterTasks[id]
    BY <1>2, <2>4 DEF storeDeadLetter
  <2>6. CASE wire' = Append(wire, d)
    BY <1>3, <2>3, <2>5, <2>6
  <2>7. CASE wire' = Append(Append(wire, c), d)
    <3>1. PICK v : v = Append(wire, c)
      OBVIOUS
    <3>2. v \in Seq(Command)
      BY <1>2, <3>1, WireLast
    <3>3. /\ \A S : Some(v, S) <=> Some(wire, S) \/ c \in S
          /\ \A S, T : SomeThen(v, S, T) <=> SomeThen(wire, S, T) \/ (Some(wire, S) /\ c \in T)
      BY <1>2, <3>1, SomeAppended
    <3>4. /\ \A S : Some(wire', S) <=> Some(v, S) \/ d \in S
          /\ \A S, T : SomeThen(wire', S, T) <=> SomeThen(v, S, T) \/ (Some(v, S) /\ d \in T)
      BY <2>7, <3>1, <3>2, SomeAppended
    <3>5. /\ Some(wire', Storing(id)) => Some(wire, Storing(id))
          /\ SomeThen(wire', Retiring(id), Storing(id)) => SomeThen(wire, Retiring(id), Storing(id))
          /\ task.id # id => (Some(wire', Retiring(id)) => Some(wire, Retiring(id)))
      BY <2>3, <3>3, <3>4
    <3> QED  BY <1>1, <2>5, <3>5, StillLocated
  <2> QED  BY <1>7, <2>1, <2>2, <2>6, <2>7
<1>8. ASSUME NEW ids \in SUBSET TaskId, evict(ids), wire' = Append(wire, [op |-> "evict", ids |-> ids])
      PROVE  Located(id)'
  <2>1. PICK c \in Command : c = [op |-> "evict", ids |-> ids]
    BY SentCommands
  <2>2. c \notin Storing(id) /\ c \notin Retiring(id)
    BY <2>1 DEF Storing, Retiring
  <2>3. activeTasks' = activeTasks /\ (deadLetterTasks[id] = NoTask => deadLetterTasks'[id] = NoTask)
    BY <1>8 DEF evict
  <2> QED  BY <1>3, <1>8, <2>1, <2>2, <2>3
<1>9. ASSUME NEW k \in Context, Drops(k), wire' = Append(wire, [op |-> "drop", ids |-> contextIndex[k]])
      PROVE  Located(id)'
  <2>0. contextIndex[k] \in SUBSET TaskId
    BY <1>2
  <2>1. PICK c \in Command : c = [op |-> "drop", ids |-> contextIndex[k]]
    BY <2>0, SentCommands
  <2>2. c \notin Storing(id) /\ c \notin Retiring(id)
    BY <2>1 DEF Storing, Retiring
  <2>3. /\ activeTasks' = Without(activeTasks, contextIndex[k])
        /\ deadLetterTasks' = Without(deadLetterTasks, contextIndex[k])
    BY <1>9 DEF Drops
  <2>4. /\ activeTasks'[id] # NoTask => activeTasks[id] # NoTask
        /\ deadLetterTasks[id] = NoTask => deadLetterTasks'[id] = NoTask
    BY <1>2, <2>3, WithoutType
  <2> QED  BY <1>3, <1>9, <2>1, <2>2, <2>4
<1> QED  BY <1>5, <1>6, <1>7, <1>8, <1>9 DEF Writes

(* The oldest command is gone, executed or not.                            *)
LEMMA HeadGoneLocated ==
  ASSUME Base, NEW id \in TaskId, Located(id), HeadGone, UNCHANGED mapVars
  PROVE  Located(id)'
<1>1. PICK c : c = Head(wire)
  OBVIOUS
<1>2. redis \in RedisState /\ c \in Command
  BY <1>1, HeadGoneAt
<1>3. /\ \A S : Some(wire, S) <=> c \in S \/ Some(wire', S)
      /\ \A S, T : SomeThen(wire, S, T) <=> SomeThen(wire', S, T) \/ (c \in S /\ Some(wire', T))
  BY <1>1, HeadGoneAt
<1>4. activeTasks' = activeTasks /\ deadLetterTasks' = deadLetterTasks
  BY DEF mapVars
<1>5. CASE redis' = redis
  BY <1>3, <1>4, <1>5 DEF Located
<1>6. CASE redis' = Apply(redis, c)
  <2>1. /\ redis'.active[id] # NoTask => redis.active[id] # NoTask \/ c \in Storing(id)
        /\ redis'.dead[id] # NoTask => redis.dead[id] # NoTask \/ c \in Retiring(id)
        /\ c \in Retiring(id) => redis'.active[id] = NoTask
    BY <1>2, <1>6, ApplyLocates
  <2> QED  BY <1>3, <1>4, <2>1 DEF Located
<1> QED  BY <1>1, <1>5, <1>6 DEF HeadGone

LEMMA LocatedKept == Base /\ IdsSound /\ AllLocated /\ [Next]_vars => AllLocated'
<1> SUFFICES ASSUME Base, IdsSound, AllLocated, [Next]_vars PROVE AllLocated'
  OBVIOUS
<1>1. CASE Writes
  BY <1>1, WritesKeepLocated
<1> SUFFICES ASSUME NEW id \in TaskId, ~Writes PROVE Located(id)'
  BY <1>1 DEF AllLocated
<1>2. Located(id) /\ wire \in Seq(Command)
  BY BaseParts DEF AllLocated, RemoteTyped
<1>3. CASE StaysPut \/ LetsGo \/ Delivers \/ Pops
  <2>1. redis'.active = redis.active /\ redis'.dead = redis.dead /\ UNCHANGED <<mapVars, wire>>
    BY <1>3 DEF StaysPut, LetsGo, Delivers, Pops
  <2> QED  BY <1>2, <2>1 DEF Located, mapVars
<1>4. CASE Fetches \/ Deletes \/ Restores
  <2>1. PICK c \in Command : /\ c.op \in {"hget", "hdel", "restore"}
                             /\ UNCHANGED <<mapVars, redis>> /\ wire' = Append(wire, c)
    BY <1>4 DEF Fetches, Deletes, Restores, SendsAwaited, Asking, Deleting
  <2>2. c \notin Storing(id) /\ c \notin Retiring(id)
    BY <2>1 DEF Storing, Retiring
  <2>3. /\ \A S : Some(wire', S) <=> Some(wire, S) \/ c \in S
        /\ \A S, T : SomeThen(wire', S, T) <=> SomeThen(wire, S, T) \/ (Some(wire, S) /\ c \in T)
    BY <1>2, <2>1, SomeAppended
  <2> QED  BY <1>2, <2>1, <2>2, <2>3 DEF Located, mapVars
<1>5. CASE Executes \/ Fails
  BY <1>2, <1>5, HeadGoneLocated DEF Executes, Fails
<1>6. CASE Crash
  <2>1. activeTasks' = Without(activeTasks, TaskId) /\ wire' = <<>> /\ UNCHANGED redis
    BY <1>6 DEF Crash
  <2>2. activeTasks'[id] = NoTask
    BY <2>1 DEF Without
  <2> QED  BY <1>2, <2>1, <2>2, NothingOnEmptyWire DEF Located
<1>7. CASE Restart
  <2>1. /\ mode = "down" /\ activeTasks' = redis.active /\ deadLetterTasks' = redis.dead
        /\ UNCHANGED <<redis, wire>>
    BY <1>7 DEF Restart, remoteVars
  <2>2. wire' = <<>>
    BY <2>1, BaseParts DEF DownIsEmpty
  <2> QED  BY <1>2, <2>1, <2>2, NothingOnEmptyWire DEF Located
<1> QED  BY <1>3, <1>4, <1>5, <1>6, <1>7, StepKinds

(* No id is both active and dead, over failed writes, crashes and restarts *)
(* too: a mirror hydrated from Redis counts each task once (OneLocation),  *)
(* because what storeDeadLetter retires is never stored again.             *)
THEOREM EachLocatedOnce == Spec => []OneLocation
<1>1. Init => AllLocated
  <2> SUFFICES ASSUME Init, NEW id \in TaskId PROVE Located(id)
    BY DEF AllLocated
  <2>1. /\ activeTasks[id] = NoTask /\ redis.dead[id] = NoTask /\ wire = <<>>
    BY DEF Init, StorageInit
  <2> QED  BY <2>1, NothingOnEmptyWire DEF Located
<1>2. AllLocated => OneLocation
  BY DEF AllLocated, Located, OneLocation, isActive
<1> QED  BY <1>1, <1>2, InitBase, InitIds, BaseKept, IdsKept, LocatedKept, PTL DEF Spec

-----------------------------------------------------------------------------
(* The loop and those who wait                                             *)

(* What the loop holds is always such a record, so that an update of one   *)
(* field keeps the others.                                                 *)
LoopShape == loop = [pc |-> loop.pc, id |-> loop.id, task |-> loop.task]

(* disconnect and a crash leave no waiter behind, and none joins.          *)
ClosedToWaiters == mode # "open" => waiters = <<>>

ServedInvariant == LoopShape /\ ClosedToWaiters /\ WaitersAreServed

(* Workers: a dequeue starts the loop if it is off; an abort and a use     *)
(* only shorten the line.                                                  *)
LEMMA WorkKeepsServed == ServedInvariant /\ Work => ServedInvariant'
<1> SUFFICES ASSUME ServedInvariant, Work PROVE ServedInvariant'
  OBVIOUS
<1>1. PICK w \in Worker : Dequeue(w) \/ Abort(w) \/ Use(w)
  BY DEF Work
<1>2. CASE Dequeue(w)
  <2>1. CASE loop.pc = "off"
    BY <1>2, <2>1 DEF Dequeue, statusVars, ServedInvariant, LoopShape,
                      ClosedToWaiters, WaitersAreServed, Popping, Off
  <2>2. CASE loop.pc # "off"
    BY <1>2, <2>2 DEF Dequeue, statusVars, ServedInvariant, LoopShape,
                      ClosedToWaiters, WaitersAreServed
  <2> QED BY <2>1, <2>2
<1>3. CASE Abort(w)
  <2>1. waiters # <<>>
    BY <1>3 DEF Abort, abortDequeue
  <2>2. UNCHANGED <<loop, mode>>
    BY <1>3 DEF Abort, statusVars
  <2> QED BY <2>1, <2>2 DEF ServedInvariant, LoopShape, ClosedToWaiters, WaitersAreServed
<1>4. CASE Use(w)
  BY <1>4 DEF Use, useResolved, statusVars, ServedInvariant, LoopShape,
              ClosedToWaiters, WaitersAreServed
<1> QED BY <1>1, <1>2, <1>3, <1>4

(* Writes: they touch neither loop nor mode; the fast path of enqueue only *)
(* takes a waiter away.                                                    *)
LEMMA WriteKeepsServed == ServedInvariant /\ Write => ServedInvariant'
<1> SUFFICES ASSUME ServedInvariant, Write PROVE ServedInvariant'
  OBVIOUS
<1> DEFINE Quiet == UNCHANGED <<loop, mode>> /\ (waiters' # <<>> => waiters # <<>>)
<1>1. Quiet => ServedInvariant'
  BY DEF ServedInvariant, LoopShape, ClosedToWaiters, WaitersAreServed
<1>2. ASSUME NEW task, NEW r, Enqueue(task, r) PROVE Quiet
  <2>1. UNCHANGED <<loop, mode>>
    BY <1>2 DEF Enqueue, execAsync, statusVars
  <2>2. offer(task)
    BY <1>2 DEF Enqueue, enqueue
  <2> QED BY <2>1, <2>2 DEF offer
<1>3. ASSUME NEW r, NEW c, EnqueueNew(r, c) PROVE Quiet
  BY <1>2, <1>3 DEF EnqueueNew
<1>4. ASSUME NEW r, EnqueueResumed(r) PROVE Quiet
  BY <1>2, <1>4 DEF EnqueueResumed
<1>5. ASSUME NEW r, NEW c, Create(r, c) PROVE Quiet
  BY <1>5 DEF Create, execAsync, statusVars, queueVars
<1>6. ASSUME NEW id, NEW state, NEW last, Update(id, state, last) PROVE Quiet
  BY <1>6 DEF Update, execAsync, statusVars, queueVars
<1>7. ASSUME NEW id, NEW state, Retire(id, state) PROVE Quiet
  BY <1>7 DEF Retire, execAsync, statusVars, queueVars
<1>8. ASSUME NEW id, CancelPending(id) PROVE Quiet
  <2>1. UNCHANGED <<loop, mode>>
    BY <1>8 DEF CancelPending, execAsync, statusVars
  <2>2. UNCHANGED waiters
    BY <1>8 DEF CancelPending, removeFromQueue, queueVars
  <2> QED BY <2>1, <2>2
<1>9. ASSUME CleanUp PROVE Quiet
  BY <1>9 DEF CleanUp, execAsync, statusVars, queueVars
<1>10. ASSUME NEW c, DropContext(c) PROVE Quiet
  BY <1>10 DEF DropContext, deleteContext, keepInQueue, execAsync, statusVars
<1> HIDE DEF Quiet
<1>11. \/ \E r, c : EnqueueNew(r, c) \/ Create(r, c)
       \/ \E r : EnqueueResumed(r)
       \/ \E id : CancelPending(id)
       \/ \E id, state, last : Update(id, state, last)
       \/ \E id, state : Retire(id, state)
       \/ CleanUp
       \/ \E c : DropContext(c)
  BY DEF Write
<1> QED BY <1>1, <1>3, <1>4, <1>5, <1>6, <1>7, <1>8, <1>9, <1>10, <1>11

(* The loop: it goes off only when it sees nobody waiting, or closed.      *)
LEMMA LoopKeepsServed == ServedInvariant /\ Loop => ServedInvariant'
<1> SUFFICES ASSUME ServedInvariant, Loop PROVE ServedInvariant'
  OBVIOUS
<1> USE DEF ServedInvariant, LoopShape, ClosedToWaiters, WaitersAreServed
<1>1. CASE LoopStops
  BY <1>1 DEF LoopStops, localVars, statusVars, queueVars, Off
<1>2. CASE LoopFetches
  BY <1>2 DEF LoopFetches, LoopSends, localVars, statusVars, queueVars
<1>3. CASE LoopDeletes
  BY <1>3 DEF LoopDeletes, LoopSends, LoopAgain, localVars, statusVars, queueVars, Popping, Off
<1>4. CASE LoopDelivers
  BY <1>4 DEF LoopDelivers, LoopAgain, localVars, statusVars, Popping, Off
<1>5. CASE LoopRestores
  BY <1>5 DEF LoopRestores, LoopSends, localVars, statusVars
<1>6. CASE LoopEnds
  BY <1>6 DEF LoopEnds, LoopAgain, localVars, statusVars, queueVars, Popping, Off
<1>7. CASE LoopCloses
  BY <1>7 DEF LoopCloses, localVars, statusVars, queueVars, Off
<1> QED BY <1>1, <1>2, <1>3, <1>4, <1>5, <1>6, <1>7 DEF Loop

(* Redis: an answer moves the loop on, and never to off.                   *)
LEMMA RedisKeepsServed == ServedInvariant /\ (RedisPops \/ RedisExecutes) => ServedInvariant'
<1> SUFFICES ASSUME ServedInvariant, RedisPops \/ RedisExecutes PROVE ServedInvariant'
  OBVIOUS
<1> USE DEF ServedInvariant, LoopShape, ClosedToWaiters, WaitersAreServed
<1>1. CASE RedisPops
  BY <1>1 DEF RedisPops, localVars, statusVars, queueVars
<1>2. CASE RedisExecutes
  <2>1. UNCHANGED <<mode, waiters>>
    BY <1>2 DEF RedisExecutes, localVars, statusVars, queueVars
  <2>2. loop' = Answered(Head(wire))
    BY <1>2 DEF RedisExecutes
  <2> QED BY <2>1, <2>2 DEF Answered
<1> QED BY <1>1, <1>2

(* Failures: the loop is started again while somebody waits; a closed or   *)
(* dead process has no waiters.                                            *)
LEMMA FailKeepsServed == ServedInvariant /\ Fail => ServedInvariant'
<1> SUFFICES ASSUME ServedInvariant, Fail PROVE ServedInvariant'
  OBVIOUS
<1> USE DEF ServedInvariant, LoopShape, ClosedToWaiters, WaitersAreServed
<1>1. CASE CommandFails
  BY <1>1 DEF CommandFails, LoopAgain, queueVars, Popping, Off
<1>2. CASE Disconnect
  BY <1>2 DEF Disconnect
<1>3. CASE Crash
  BY <1>3 DEF Crash, Off
<1>4. CASE Restart
  BY <1>4 DEF Restart
<1> QED BY <1>1, <1>2, <1>3, <1>4 DEF Fail

(* No worker ever waits beside a loop that has stopped (startDequeueLoop,  *)
(* and the finally block of runDequeueLoop).                               *)
THEOREM ServedAlways == Spec => []WaitersAreServed
<1>1. Init => ServedInvariant
  BY DEF Init, StorageInit, Off, ServedInvariant, LoopShape, ClosedToWaiters, WaitersAreServed
<1>2. ServedInvariant /\ [Next]_vars => ServedInvariant'
  <2>1. ServedInvariant /\ UNCHANGED vars => ServedInvariant'
    BY DEF vars, storageVars, queueVars, statusVars, ServedInvariant, LoopShape,
           ClosedToWaiters, WaitersAreServed
  <2> QED BY <2>1, WorkKeepsServed, WriteKeepsServed, LoopKeepsServed, RedisKeepsServed,
             FailKeepsServed DEF Next
<1>3. ServedInvariant => WaitersAreServed
  BY DEF ServedInvariant
<1> QED BY <1>1, <1>2, <1>3, PTL DEF Spec
=============================================================================
