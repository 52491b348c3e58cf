------------------------- MODULE PushDelivery_proofs -------------------------
(***************************************************************************)
(* What the push notification sender promises of every delivery, for any   *)
(* configs, limits and numbers of updates, and any receivers.              *)
(***************************************************************************)
EXTENDS PushDelivery, FiniteSetTheorems, SequenceTheorems, TLAPS

Phases == {"waiting"} \cup Posting \cup Ended
Entries == [config : PushConfigId, phase : Phases, attempt : Nat \ {0}]

PushTyped ==
  /\ bucket \in Seq(PushConfigId) /\ update \in 0 .. Updates
  /\ delivery \in [1 .. Updates -> UNION {[1 .. n -> Entries] : n \in Nat}]
  /\ served \in [PushConfigId -> [1 .. Updates -> Nat]]

(* A config that waits was never posted to; one being posted to has been   *)
(* served by earlier attempts only; one that sleeps has a retry left; and  *)
(* the configs that wait are the last ones.                                *)
DeliveryInvariant(u) ==
  LET entries == delivery[u]
  IN  /\ \A i, j \in DOMAIN entries : entries[i].config = entries[j].config => i = j
      /\ \A c \in PushConfigId :
           served[c][u] > 0 => \E i \in DOMAIN entries : entries[i].config = c
      /\ Cardinality(InFlight(u)) <= Concurrency
      /\ Waiting(entries) # {} => Cardinality(InFlight(u)) = Concurrency
      /\ \E k \in Nat : \A i \in DOMAIN entries : entries[i].phase = "waiting" <=> i >= k
      /\ \A i \in DOMAIN entries :
           /\ entries[i].attempt <= PushRetries + 1
           /\ served[entries[i].config][u] <= entries[i].attempt
           /\ entries[i].phase = "waiting" => entries[i].attempt = 1 /\ served[entries[i].config][u] = 0
           /\ entries[i].phase = "posting" => served[entries[i].config][u] < entries[i].attempt
           /\ entries[i].phase = "sleeping" => entries[i].attempt <= PushRetries
           /\ entries[i].phase = "ok" => served[entries[i].config][u] >= 1

BucketOnce == \A i, j \in DOMAIN bucket : bucket[i] = bucket[j] => i = j

(* Nothing is served of an update that is not recorded yet.                *)
FutureUntold ==
  \A u \in 1 .. Updates :
    u > update => delivery[u] = <<>> /\ \A c \in PushConfigId : served[c][u] = 0

PushInvariant ==
  /\ PushTyped /\ BucketOnce /\ FutureUntold
  /\ \A u \in 1 .. Updates : DeliveryInvariant(u)

-----------------------------------------------------------------------------
(* A delivery nobody touches keeps its invariant.                          *)
LEMMA OthersRest ==
  ASSUME NEW u \in 1 .. Updates, DeliveryInvariant(u), delivery'[u] = delivery[u],
         PushTyped, \A c \in PushConfigId : served'[c][u] = served[c][u]
  PROVE  DeliveryInvariant(u)'
<1>1. InFlight(u)' = InFlight(u)
  BY DEF InFlight
<1>2. \A i \in DOMAIN delivery[u] : delivery[u][i].config \in PushConfigId
  BY DEF PushTyped, Entries
<1> QED BY <1>1, <1>2 DEF DeliveryInvariant, Waiting

LEMMA DeliveryShape ==
  ASSUME NEW u \in 1 .. Updates, PushTyped
  PROVE  \E n \in Nat : delivery[u] \in [1 .. n -> Entries]
BY DEF PushTyped

LEMMA EntryTyped ==
  ASSUME NEW u \in 1 .. Updates, NEW i \in DOMAIN delivery[u], PushTyped
  PROVE  /\ delivery[u][i] \in Entries /\ delivery[u][i].config \in PushConfigId
         /\ delivery[u][i].attempt \in Nat /\ served[delivery[u][i].config][u] \in Nat
<1>1. PICK n \in Nat : delivery[u] \in [1 .. n -> Entries]
  BY DeliveryShape
<1>2. delivery[u][i] \in Entries
  BY <1>1
<1>3. delivery[u][i].config \in PushConfigId /\ delivery[u][i].attempt \in Nat
  BY <1>2 DEF Entries
<1>4. served \in [PushConfigId -> [1 .. Updates -> Nat]]
  BY DEF PushTyped
<1> QED BY <1>2, <1>3, <1>4

LEMMA InFlightFinite ==
  ASSUME NEW u \in 1 .. Updates, PushTyped
  PROVE  IsFiniteSet(InFlight(u)) /\ Cardinality(InFlight(u)) \in Nat
<1>1. PICK n \in Nat : delivery[u] \in [1 .. n -> Entries]
  BY DeliveryShape
<1>2. InFlight(u) \subseteq 1 .. n /\ IsFiniteSet(1 .. n)
  BY <1>1, FS_Interval DEF InFlight
<1> QED BY <1>2, FS_Subset, FS_CardinalityType

(* What a step on one entry does: `Touched` says which delivery it changes *)
(* and how the count of its receiver may move.                             *)
Touched(u, i) ==
  LET c == delivery[u][i].config
  IN  /\ \A v \in 1 .. Updates : v # u => delivery'[v] = delivery[v]
      /\ \A d \in PushConfigId, v \in 1 .. Updates :
           (d # c \/ v # u) => served'[d][v] = served[d][v]
      /\ served'[c][u] \in {served[c][u], served[c][u] + 1}
      /\ UNCHANGED <<bucket, update>> /\ PushTyped'

LEMMA TouchedKeeps ==
  ASSUME PushInvariant, NEW u \in 1 .. Updates, NEW i \in DOMAIN delivery[u],
         Touched(u, i), DeliveryInvariant(u)'
  PROVE  PushInvariant'
<1>1. ASSUME NEW v \in 1 .. Updates PROVE DeliveryInvariant(v)'
  <2>1. CASE v = u
    BY <2>1
  <2>2. CASE v # u
    BY <2>2, OthersRest DEF PushInvariant, Touched
  <2> QED BY <2>1, <2>2
<1>2. u <= update
  <2>1. delivery[u] # <<>>
    OBVIOUS
  <2> QED BY <2>1 DEF PushInvariant, FutureUntold, PushTyped
<1>3. FutureUntold'
  BY <1>2 DEF FutureUntold, Touched, PushInvariant, PushTyped
<1>4. PushTyped' /\ BucketOnce'
  BY DEF Touched, BucketOnce, PushInvariant
<1> QED BY <1>1, <1>3, <1>4 DEF PushInvariant

(* A post that stays with its worker: it backs off, or is tried again.     *)
LEMMA StaysWithWorker ==
  ASSUME PushInvariant, NEW u \in 1 .. Updates, NEW i \in DOMAIN delivery[u],
         delivery[u][i].phase \in Posting, Touched(u, i), NEW x \in Entries,
         DOMAIN delivery'[u] = DOMAIN delivery[u],
         \A j \in DOMAIN delivery[u] : delivery'[u][j] = IF j = i THEN x ELSE delivery[u][j],
         x.config = delivery[u][i].config, x.phase \in Posting,
         x.attempt <= PushRetries + 1, served'[x.config][u] <= x.attempt,
         x.phase = "posting" => served'[x.config][u] < x.attempt,
         x.phase = "sleeping" => x.attempt <= PushRetries
  PROVE  PushInvariant'
<1> USE DEF Posting
<1>1. InFlight(u)' = InFlight(u)
  BY DEF InFlight
<1>2. Waiting(delivery'[u]) = Waiting(delivery[u])
  BY DEF Waiting
<1>3. \A j \in DOMAIN delivery[u] :
        /\ delivery'[u][j].config = delivery[u][j].config
        /\ delivery[u][j].config \in PushConfigId
        /\ j # i => delivery'[u][j] = delivery[u][j] /\ delivery[u][j].config # x.config
  BY DEF PushInvariant, PushTyped, Entries, DeliveryInvariant
<1>4. \A j \in DOMAIN delivery[u] :
        j # i => served'[delivery[u][j].config][u] = served[delivery[u][j].config][u]
  BY <1>3 DEF Touched
<1>5. DeliveryInvariant(u)
  BY DEF PushInvariant
<1>6. \A j \in DOMAIN delivery'[u] :
        /\ delivery'[u][j].attempt <= PushRetries + 1
        /\ served'[delivery'[u][j].config][u] <= delivery'[u][j].attempt
        /\ delivery'[u][j].phase = "waiting" =>
             delivery'[u][j].attempt = 1 /\ served'[delivery'[u][j].config][u] = 0
        /\ delivery'[u][j].phase = "posting" => served'[delivery'[u][j].config][u] < delivery'[u][j].attempt
        /\ delivery'[u][j].phase = "sleeping" => delivery'[u][j].attempt <= PushRetries
        /\ delivery'[u][j].phase = "ok" => served'[delivery'[u][j].config][u] >= 1
  BY <1>3, <1>4, <1>5 DEF DeliveryInvariant
<1>7. \A c \in PushConfigId :
        served'[c][u] > 0 => \E j \in DOMAIN delivery'[u] : delivery'[u][j].config = c
  BY <1>3, <1>5 DEF DeliveryInvariant, Touched
<1>8. \E k \in Nat : \A j \in DOMAIN delivery'[u] : delivery'[u][j].phase = "waiting" <=> j >= k
  <2>1. PICK k \in Nat : \A j \in DOMAIN delivery[u] : delivery[u][j].phase = "waiting" <=> j >= k
    BY <1>5 DEF DeliveryInvariant
  <2>2. \A j \in DOMAIN delivery'[u] : delivery'[u][j].phase = "waiting" <=> j >= k
    BY <1>3, <2>1
  <2> QED BY <2>2
<1>9. DeliveryInvariant(u)'
  BY <1>1, <1>2, <1>3, <1>5, <1>6, <1>7, <1>8 DEF DeliveryInvariant
<1> QED BY <1>9, TouchedKeeps

LEMMA StepTouches ==
  ASSUME PushTyped, NEW u \in 1 .. Updates, NEW i \in DOMAIN delivery[u], NEW n \in Nat,
         NEW e \in [1 .. n -> Entries], Becomes(u, e),
         Serves(u, i) \/ UNCHANGED served, UNCHANGED <<bucket, update>>
  PROVE  /\ Touched(u, i) /\ delivery'[u] = e
         /\ Serves(u, i) => served'[delivery[u][i].config][u] = served[delivery[u][i].config][u] + 1
         /\ UNCHANGED served => served'[delivery[u][i].config][u] = served[delivery[u][i].config][u]
<1> DEFINE c == delivery[u][i].config
<1>1. c \in PushConfigId
  BY DEF PushTyped, Entries
<1>2. /\ delivery' \in [1 .. Updates -> UNION {[1 .. m -> Entries] : m \in Nat}]
      /\ delivery'[u] = e /\ \A v \in 1 .. Updates : v # u => delivery'[v] = delivery[v]
  BY DEF PushTyped, Becomes
<1>3. Serves(u, i) => /\ served' \in [PushConfigId -> [1 .. Updates -> Nat]]
                      /\ served'[c][u] = served[c][u] + 1
                      /\ \A d \in PushConfigId, v \in 1 .. Updates :
                           (d # c \/ v # u) => served'[d][v] = served[d][v]
  <2> SUFFICES ASSUME Serves(u, i)
               PROVE  /\ served' \in [PushConfigId -> [1 .. Updates -> Nat]]
                      /\ served'[c][u] = served[c][u] + 1
                      /\ \A d \in PushConfigId, v \in 1 .. Updates :
                           (d # c \/ v # u) => served'[d][v] = served[d][v]
    OBVIOUS
  <2>1. served' = [served EXCEPT ![c] = [served[c] EXCEPT ![u] = served[c][u] + 1]]
    BY DEF Serves
  <2> HIDE DEF c
  <2>2. served[c] \in [1 .. Updates -> Nat] /\ served[c][u] + 1 \in Nat
    <3>1. served \in [PushConfigId -> [1 .. Updates -> Nat]]
      BY DEF PushTyped
    <3>2. served[c] \in [1 .. Updates -> Nat]
      BY <1>1, <3>1
    <3>3. served[c][u] \in Nat
      BY <3>2, Zenon
    <3> QED BY <3>2, <3>3
  <2>3. [served[c] EXCEPT ![u] = served[c][u] + 1] \in [1 .. Updates -> Nat]
    BY <2>2
  <2> QED BY <1>1, <2>1, <2>2, <2>3 DEF PushTyped
<1> HIDE DEF c
<1>4. PushTyped'
  BY <1>2, <1>3 DEF PushTyped
<1>5. Touched(u, i)
  BY <1>1, <1>2, <1>3, <1>4 DEF Touched, c
<1> QED BY <1>2, <1>3, <1>5 DEF c

(* The worker takes the first config that waits, if any does.              *)
LEMMA ConcludedTakesNext ==
  ASSUME PushTyped, NEW u \in 1 .. Updates, NEW i \in DOMAIN delivery[u],
         delivery[u][i].phase # "waiting", NEW result \in Ended,
         NEW k \in Nat, \A j \in DOMAIN delivery[u] : delivery[u][j].phase = "waiting" <=> j >= k
  PROVE  Concluded(u, i, result) =
           [j \in DOMAIN delivery[u] |->
              IF j = i THEN [delivery[u][i] EXCEPT !.phase = result]
              ELSE IF j = k THEN [delivery[u][k] EXCEPT !.phase = "posting"]
              ELSE delivery[u][j]]
<1> DEFINE entries == [delivery[u] EXCEPT ![i].phase = result]
           next == {j \in Waiting(entries) : \A m \in Waiting(entries) : j <= m}
<1>1. PICK n \in Nat : delivery[u] \in [1 .. n -> Entries]
  BY DeliveryShape
<1>2. /\ DOMAIN entries = 1 .. n /\ entries[i] = [delivery[u][i] EXCEPT !.phase = result]
      /\ \A j \in 1 .. n : j # i => entries[j] = delivery[u][j]
  BY <1>1
<1>3. entries[i].phase = result /\ result # "waiting" /\ ~(i >= k)
  BY <1>1, <1>2 DEF Ended, Entries
<1>4. Waiting(entries) = {j \in 1 .. n : j >= k}
  BY <1>1, <1>2, <1>3 DEF Waiting
<1>5. next = {k} \cap 1 .. n
  <2> HIDE DEF entries
  <2>1. CASE k \in 1 .. n
    BY <1>4, <2>1
  <2>2. CASE k \notin 1 .. n
    <3>1. i \in 1 .. n /\ i < k
      BY <1>1, <1>3
    <3> QED BY <1>4, <2>2, <3>1
  <2> QED BY <2>1, <2>2
<1>6. Concluded(u, i, result) =
        [j \in 1 .. n |-> IF j \in next THEN [entries[j] EXCEPT !.phase = "posting"] ELSE entries[j]]
  BY <1>2 DEF Concluded
<1> HIDE DEF entries, next
<1> QED BY <1>1, <1>2, <1>3, <1>5, <1>6

(* A post that ends: its worker goes on to the next config.                *)
LEMMA ConcludedKeeps ==
  ASSUME PushInvariant, NEW u \in 1 .. Updates, NEW i \in DOMAIN delivery[u],
         delivery[u][i].phase \in Posting, NEW result \in Ended,
         Becomes(u, Concluded(u, i, result)), Serves(u, i) \/ UNCHANGED served,
         UNCHANGED <<bucket, update>>,
         result = "ok" => Serves(u, i), Serves(u, i) => delivery[u][i].phase = "posting"
  PROVE  PushInvariant'
<1> DEFINE e == delivery[u]  f == delivery'[u]
<1>1. PushTyped /\ DeliveryInvariant(u)
  BY DEF PushInvariant
<1>2. PICK n \in Nat : e \in [1 .. n -> Entries]
  BY <1>1, DeliveryShape
<1>3. PICK k \in Nat : \A j \in DOMAIN e : e[j].phase = "waiting" <=> j >= k
  BY <1>1 DEF DeliveryInvariant
<1>4. e[i].phase # "waiting" /\ result # "waiting" /\ result \notin Posting
  BY DEF Posting, Ended
<1>5. Concluded(u, i, result) =
        [j \in DOMAIN e |->
           IF j = i THEN [e[i] EXCEPT !.phase = result]
           ELSE IF j = k THEN [e[k] EXCEPT !.phase = "posting"] ELSE e[j]]
  BY <1>1, <1>3, <1>4, ConcludedTakesNext
<1>6. Concluded(u, i, result) \in [1 .. n -> Entries]
  <2>1. /\ [e[i] EXCEPT !.phase = result] \in Entries
        /\ \A j \in 1 .. n : e[j] \in Entries /\ [e[j] EXCEPT !.phase = "posting"] \in Entries
    BY <1>2 DEF Entries, Phases, Posting
  <2> QED BY <1>2, <1>5, <2>1
<1>7. /\ Touched(u, i) /\ f = Concluded(u, i, result)
      /\ Serves(u, i) => served'[e[i].config][u] = served[e[i].config][u] + 1
      /\ UNCHANGED served => served'[e[i].config][u] = served[e[i].config][u]
  BY <1>1, <1>6, StepTouches
<1>8. i \in 1 .. n /\ i < k /\ \A j \in 1 .. n : e[j] \in Entries
  BY <1>2, <1>3, <1>4
<1>9. /\ DOMAIN f = 1 .. n
      /\ f[i].config = e[i].config /\ f[i].attempt = e[i].attempt /\ f[i].phase = result
      /\ k \in 1 .. n => f[k].config = e[k].config /\ f[k].attempt = e[k].attempt /\ f[k].phase = "posting"
      /\ \A j \in 1 .. n : j # i /\ j # k => f[j] = e[j]
  BY <1>2, <1>5, <1>7, <1>8 DEF Entries
<1> HIDE DEF e, f
<1>10. \A j \in 1 .. n : f[j].config = e[j].config /\ f[j].attempt = e[j].attempt
  BY <1>9
<1>11. InFlight(u)' = (InFlight(u) \ {i}) \cup ({k} \cap 1 .. n)
  BY <1>2, <1>4, <1>8, <1>9 DEF InFlight, e, f, Posting
<1>12. \A j \in DOMAIN f : f[j].phase = "waiting" <=> j >= k + 1
  BY <1>2, <1>3, <1>4, <1>8, <1>9
<1>13. /\ Cardinality(InFlight(u)') <= Concurrency
       /\ Waiting(f) # {} => Cardinality(InFlight(u)') = Concurrency
  <2>1. IsFiniteSet(InFlight(u)) /\ Cardinality(InFlight(u)) \in Nat /\ i \in InFlight(u)
    BY <1>1, InFlightFinite DEF InFlight
  <2>2. /\ Cardinality(InFlight(u) \ {i}) = Cardinality(InFlight(u)) - 1
        /\ IsFiniteSet(InFlight(u) \ {i})
    BY <2>1, FS_RemoveElement
  <2>3. Concurrency \in Nat /\ Cardinality(InFlight(u)) <= Concurrency
    BY <1>1, PushConstants DEF DeliveryInvariant
  <2>4. CASE k \in 1 .. n
    <3>1. k \in Waiting(e) /\ k \notin InFlight(u)
      BY <1>2, <1>3, <2>4 DEF Waiting, InFlight, e, Posting
    <3>2. Cardinality(InFlight(u)) = Concurrency
      BY <1>1, <3>1 DEF DeliveryInvariant, e
    <3>3. InFlight(u)' = (InFlight(u) \ {i}) \cup {k}
      BY <1>11, <2>4
    <3>4. Cardinality(InFlight(u)') = (Concurrency - 1) + 1
      BY <2>2, <3>1, <3>2, <3>3, FS_AddElement
    <3> QED BY <2>3, <3>4
  <2>5. CASE k \notin 1 .. n
    <3>1. InFlight(u)' = InFlight(u) \ {i}
      BY <1>11, <2>5
    <3>2. Waiting(f) = {}
      BY <1>8, <1>9, <1>12, <2>5 DEF Waiting
    <3> QED BY <2>1, <2>2, <2>3, <3>1, <3>2
  <2> QED BY <2>4, <2>5
<1>14. \A j \in 1 .. n : e[j].config \in PushConfigId /\ (j # i => e[j].config # e[i].config)
  BY <1>1, <1>2, <1>8 DEF DeliveryInvariant, Entries, e
<1>15. \A j \in 1 .. n : j # i => served'[e[j].config][u] = served[e[j].config][u]
  BY <1>7, <1>14 DEF Touched, e
<1>16. \A j \in DOMAIN e :
         /\ e[j].attempt <= PushRetries + 1
         /\ served[e[j].config][u] <= e[j].attempt
         /\ e[j].phase = "waiting" => e[j].attempt = 1 /\ served[e[j].config][u] = 0
         /\ e[j].phase = "posting" => served[e[j].config][u] < e[j].attempt
         /\ e[j].phase = "sleeping" => e[j].attempt <= PushRetries
         /\ e[j].phase = "ok" => served[e[j].config][u] >= 1
  BY <1>1 DEF DeliveryInvariant, e
<1>17. \A j \in 1 .. n : served[e[j].config][u] \in Nat /\ e[j].attempt \in Nat
  BY <1>1, <1>8, <1>14 DEF PushTyped, Entries
<1>18. \A j \in 1 .. n :
         /\ f[j].attempt <= PushRetries + 1
         /\ served'[f[j].config][u] <= f[j].attempt
         /\ f[j].phase = "waiting" => f[j].attempt = 1 /\ served'[f[j].config][u] = 0
         /\ f[j].phase = "posting" => served'[f[j].config][u] < f[j].attempt
         /\ f[j].phase = "sleeping" => f[j].attempt <= PushRetries
         /\ f[j].phase = "ok" => served'[f[j].config][u] >= 1
  <2> SUFFICES ASSUME NEW j \in 1 .. n
               PROVE  /\ f[j].attempt <= PushRetries + 1
                      /\ served'[f[j].config][u] <= f[j].attempt
                      /\ f[j].phase = "waiting" => f[j].attempt = 1 /\ served'[f[j].config][u] = 0
                      /\ f[j].phase = "posting" => served'[f[j].config][u] < f[j].attempt
                      /\ f[j].phase = "sleeping" => f[j].attempt <= PushRetries
                      /\ f[j].phase = "ok" => served'[f[j].config][u] >= 1
    OBVIOUS
  <2>1. CASE j = i
    <3>1. result \in {"ok", "failed"} /\ e[i].phase \in Posting
      BY DEF Ended, e
    <3>2. Serves(u, i) => e[i].phase = "posting"
      BY DEF e
    <3> QED BY <1>2, <1>7, <1>8, <1>9, <1>16, <1>17, <2>1, <3>1, <3>2
  <2>2. CASE j # i /\ j = k
    <3>1. e[k].phase = "waiting"
      BY <1>2, <1>3, <2>2
    <3> QED BY <1>2, <1>9, <1>15, <1>16, <1>17, <2>2, <3>1
  <2>3. CASE j # i /\ j # k
    BY <1>2, <1>9, <1>15, <1>16, <2>3
  <2> QED BY <2>1, <2>2, <2>3
<1>19. \A c \in PushConfigId : served'[c][u] > 0 => \E j \in DOMAIN f : f[j].config = c
  <2> SUFFICES ASSUME NEW c \in PushConfigId, served'[c][u] > 0
               PROVE  \E j \in DOMAIN f : f[j].config = c
    OBVIOUS
  <2>1. CASE c = e[i].config
    BY <1>8, <1>9, <2>1
  <2>2. CASE c # e[i].config
    <3>1. served[c][u] > 0
      BY <1>7, <2>2 DEF Touched, e
    <3>2. PICK j \in DOMAIN e : e[j].config = c
      BY <1>1, <3>1 DEF DeliveryInvariant, e
    <3> QED BY <1>2, <1>9, <1>10, <3>2
  <2> QED BY <2>1, <2>2
<1>20. \A j, m \in DOMAIN f : f[j].config = f[m].config => j = m
  BY <1>1, <1>2, <1>9, <1>10 DEF DeliveryInvariant, e
<1>21. \E m \in Nat : \A j \in DOMAIN f : f[j].phase = "waiting" <=> j >= m
  <2>1. k + 1 \in Nat
    OBVIOUS
  <2> QED BY <1>12, <2>1
<1>22. DeliveryInvariant(u)'
  BY <1>9, <1>13, <1>18, <1>19, <1>20, <1>21 DEF DeliveryInvariant, f
<1> QED BY <1>7, <1>22, TouchedKeeps

LEMMA TransientFailureKeeps ==
  ASSUME PushInvariant, NEW u \in 1 .. Updates, NEW i \in DOMAIN delivery[u],
         delivery[u][i].phase = "posting", TransientFailure(u, i),
         Serves(u, i) \/ UNCHANGED served, UNCHANGED <<bucket, update>>
  PROVE  PushInvariant'
<1>1. PushTyped /\ DeliveryInvariant(u) /\ delivery[u][i].phase \in Posting
  BY DEF PushInvariant, Posting
<1>2. CASE delivery[u][i].attempt <= PushRetries
  <2> DEFINE x == [delivery[u][i] EXCEPT !.phase = "sleeping"]
             e == [delivery[u] EXCEPT ![i].phase = "sleeping"]
  <2>1. PICK n \in Nat : delivery[u] \in [1 .. n -> Entries]
    BY <1>1, DeliveryShape
  <2>2. /\ x \in Entries /\ x.config = delivery[u][i].config
        /\ x.attempt = delivery[u][i].attempt /\ x.phase = "sleeping"
    BY <2>1 DEF Entries, Phases, Posting
  <2>3. /\ e \in [1 .. n -> Entries] /\ DOMAIN e = DOMAIN delivery[u]
        /\ \A j \in DOMAIN delivery[u] : e[j] = IF j = i THEN x ELSE delivery[u][j]
    BY <2>1, <2>2
  <2>4. Becomes(u, e)
    BY <1>2 DEF TransientFailure
  <2> HIDE DEF x, e
  <2>5. /\ Touched(u, i) /\ delivery'[u] = e
        /\ Serves(u, i) => served'[delivery[u][i].config][u] = served[delivery[u][i].config][u] + 1
        /\ UNCHANGED served => served'[delivery[u][i].config][u] = served[delivery[u][i].config][u]
    BY <1>1, <2>3, <2>4, StepTouches
  <2>6. served[x.config][u] < x.attempt
    BY <1>1, <2>2 DEF DeliveryInvariant
  <2>7. served[x.config][u] \in Nat /\ x.attempt \in Nat
    BY <1>1, <2>2 DEF PushTyped, Entries
  <2>8. served'[x.config][u] <= x.attempt
    BY <2>2, <2>5, <2>6, <2>7
  <2>9. x.attempt <= PushRetries /\ x.attempt <= PushRetries + 1 /\ x.phase \in Posting
    BY <1>2, <2>2, <2>7, PushConstants DEF Posting
  <2> QED BY <1>1, <2>2, <2>3, <2>5, <2>8, <2>9, StaysWithWorker
<1>3. CASE ~(delivery[u][i].attempt <= PushRetries)
  <2>1. Becomes(u, Concluded(u, i, "failed")) /\ "failed" \in Ended
    BY <1>3 DEF TransientFailure, Ended
  <2> QED BY <1>1, <2>1, ConcludedKeeps
<1> QED BY <1>2, <1>3

LEMMA PostEndsKeeps ==
  ASSUME PushInvariant, NEW u \in 1 .. Updates, NEW i \in DOMAIN delivery[u], PostEnds(u, i)
  PROVE  PushInvariant'
<1>1. delivery[u][i].phase = "posting" /\ delivery[u][i].phase \in Posting /\ UNCHANGED <<bucket, update>>
  BY DEF PostEnds, Posting
<1>2. CASE Serves(u, i) /\ Becomes(u, Concluded(u, i, "ok"))
  BY <1>1, <1>2, ConcludedKeeps DEF Ended
<1>3. CASE UNCHANGED served /\ Becomes(u, Concluded(u, i, "failed"))
  <2>1. "failed" \in Ended /\ "failed" # "ok"
    BY DEF Ended
  <2> QED BY <1>1, <1>3, <2>1, ConcludedKeeps
<1>4. CASE (Serves(u, i) \/ UNCHANGED served) /\ TransientFailure(u, i)
  BY <1>1, <1>4, TransientFailureKeeps
<1> QED BY <1>2, <1>3, <1>4 DEF PostEnds

LEMMA BackoffEndsKeeps ==
  ASSUME PushInvariant, NEW u \in 1 .. Updates, NEW i \in DOMAIN delivery[u], BackoffEnds(u, i)
  PROVE  PushInvariant'
<1>1. /\ PushTyped /\ DeliveryInvariant(u)
      /\ delivery[u][i].phase = "sleeping" /\ delivery[u][i].phase \in Posting
      /\ UNCHANGED <<bucket, update, served>>
  BY DEF PushInvariant, Posting, BackoffEnds
<1>2. CASE u \in halted
  <2>1. Becomes(u, Concluded(u, i, "failed")) /\ "failed" \in Ended /\ "failed" # "ok"
    BY <1>2 DEF BackoffEnds, Ended
  <2>2. ~Serves(u, i)
    <3> SUFFICES ASSUME Serves(u, i) PROVE FALSE
      OBVIOUS
    <3>1. /\ delivery[u][i].config \in PushConfigId /\ served' = served
          /\ served[delivery[u][i].config][u] \in Nat
      BY <1>1, EntryTyped
    <3>2. served \in [PushConfigId -> [1 .. Updates -> Nat]]
      BY <1>1 DEF PushTyped
    <3>3. served'[delivery[u][i].config][u] = served[delivery[u][i].config][u] + 1
      BY <3>1, <3>2 DEF Serves
    <3> QED BY <3>1, <3>3
  <2> QED BY <1>1, <2>1, <2>2, ConcludedKeeps
<1>3. CASE u \notin halted
  <2> DEFINE x == [delivery[u][i] EXCEPT !.phase = "posting", !.attempt = @ + 1]
             e == [delivery[u] EXCEPT ![i].phase = "posting", ![i].attempt = @ + 1]
  <2>1. PICK n \in Nat : delivery[u] \in [1 .. n -> Entries]
    BY <1>1, DeliveryShape
  <2>2. /\ x \in Entries /\ x.config = delivery[u][i].config
        /\ x.attempt = delivery[u][i].attempt + 1 /\ x.phase = "posting"
    <3>1. delivery[u][i] \in Entries /\ delivery[u][i].attempt + 1 \in Nat \ {0}
      BY <1>1, EntryTyped
    <3> QED BY <3>1 DEF Entries, Phases, Posting
  <2>3. /\ e \in [1 .. n -> Entries] /\ DOMAIN e = DOMAIN delivery[u]
        /\ \A j \in DOMAIN delivery[u] : e[j] = IF j = i THEN x ELSE delivery[u][j]
    BY <2>1, <2>2
  <2>4. Becomes(u, e)
    BY <1>3 DEF BackoffEnds
  <2> HIDE DEF x, e
  <2>5. Touched(u, i) /\ delivery'[u] = e
    BY <1>1, <2>3, <2>4, StepTouches
  <2>6. served[x.config][u] <= delivery[u][i].attempt /\ delivery[u][i].attempt <= PushRetries
    BY <1>1, <2>2 DEF DeliveryInvariant
  <2>7. served[x.config][u] \in Nat /\ delivery[u][i].attempt \in Nat
    BY <1>1, <2>2, EntryTyped
  <2>8. /\ served'[x.config][u] <= x.attempt /\ served'[x.config][u] < x.attempt
        /\ x.attempt <= PushRetries + 1 /\ x.phase \in Posting
    BY <1>1, <2>2, <2>6, <2>7, PushConstants DEF Posting
  <2> QED BY <1>1, <2>2, <2>3, <2>5, <2>8, StaysWithWorker
<1> QED BY <1>2, <1>3

LEMMA PostAbortedKeeps ==
  ASSUME PushInvariant, NEW u \in 1 .. Updates, NEW i \in DOMAIN delivery[u], PostAborted(u, i)
  PROVE  PushInvariant'
<1>1. /\ delivery[u][i].phase = "posting" /\ delivery[u][i].phase \in Posting
      /\ Becomes(u, Concluded(u, i, "failed")) /\ "failed" \in Ended /\ "failed" # "ok"
      /\ UNCHANGED <<bucket, update, served>>
  BY DEF PostAborted, Posting, Ended
<1> QED BY <1>1, ConcludedKeeps

(* A step that leaves the deliveries alone.                                *)
LEMMA ConfigsKeep ==
  ASSUME PushInvariant, UNCHANGED <<update, delivery, served>>,
         bucket' \in Seq(PushConfigId), BucketOnce'
  PROVE  PushInvariant'
<1>1. PushTyped' /\ FutureUntold'
  BY DEF PushInvariant, PushTyped, FutureUntold
<1>2. \A u \in 1 .. Updates : DeliveryInvariant(u)'
  BY OthersRest DEF PushInvariant
<1> QED BY <1>1, <1>2 DEF PushInvariant

LEMMA SetConfigKeeps ==
  ASSUME PushInvariant, NEW id \in PushConfigId, SetConfig(id)
  PROVE  PushInvariant'
<1>1. /\ bucket \in Seq(PushConfigId) /\ BucketOnce /\ bucket' = Append(bucket, id)
      /\ \A i \in DOMAIN bucket : bucket[i] # id /\ UNCHANGED <<update, delivery, served>>
  BY DEF SetConfig, ToSet, PushInvariant, PushTyped
<1>2. bucket' \in Seq(PushConfigId) /\ BucketOnce'
  BY <1>1 DEF BucketOnce
<1> QED BY <1>2, ConfigsKeep DEF SetConfig

LEMMA DeleteConfigKeeps ==
  ASSUME PushInvariant, NEW id \in PushConfigId, DeleteConfig(id)
  PROVE  PushInvariant'
<1>1. PICK i \in DOMAIN bucket : bucket' = RemoveAt(bucket, i)
  BY DEF DeleteConfig
<1>2. bucket \in Seq(PushConfigId) /\ BucketOnce /\ i \in 1 .. Len(bucket)
  BY DEF PushInvariant, PushTyped
<1> DEFINE front == SubSeq(bucket, 1, i - 1)  back == SubSeq(bucket, i + 1, Len(bucket))
<1>3. /\ front \in Seq(PushConfigId) /\ Len(front) = i - 1
      /\ \A j \in 1 .. i - 1 : front[j] = bucket[j]
  BY <1>2
<1>4. /\ back \in Seq(PushConfigId) /\ Len(back) = Len(bucket) - i
      /\ \A j \in 1 .. Len(bucket) - i : back[j] = bucket[j + i]
  BY <1>2
<1>5. bucket' = front \o back
  BY <1>1 DEF RemoveAt
<1> HIDE DEF front, back
<1>6. /\ bucket' \in Seq(PushConfigId) /\ DOMAIN bucket' = 1 .. Len(bucket) - 1
      /\ \A j \in 1 .. Len(bucket) - 1 : bucket'[j] = bucket[IF j < i THEN j ELSE j + 1]
  <2>1. bucket' \in Seq(PushConfigId) /\ Len(bucket') = Len(bucket) - 1
    BY <1>2, <1>3, <1>4, <1>5
  <2>2. \A j \in 1 .. Len(front) + Len(back) :
          bucket'[j] = IF j <= Len(front) THEN front[j] ELSE back[j - Len(front)]
    BY <1>3, <1>4, <1>5, ConcatProperties
  <2>3. ASSUME NEW j \in 1 .. Len(bucket) - 1
        PROVE  bucket'[j] = bucket[IF j < i THEN j ELSE j + 1]
    <3>1. CASE j < i
      <4>1. j \in 1 .. Len(front) + Len(back) /\ j <= Len(front) /\ j \in 1 .. i - 1
        BY <1>2, <1>3, <1>4, <3>1
      <4>2. bucket'[j] = front[j]
        BY <2>2, <4>1
      <4> QED BY <1>3, <3>1, <4>1, <4>2
    <3>2. CASE ~(j < i)
      <4>1. /\ j \in 1 .. Len(front) + Len(back) /\ ~(j <= Len(front))
            /\ j - Len(front) = j - (i - 1) /\ j - (i - 1) \in 1 .. Len(bucket) - i
            /\ j - (i - 1) + i = j + 1
        BY <1>2, <1>3, <1>4, <3>2
      <4>2. bucket'[j] = back[j - Len(front)]
        BY <2>2, <4>1
      <4>3. back[j - (i - 1)] = bucket[j - (i - 1) + i]
        BY <1>4, <4>1
      <4> QED BY <3>2, <4>1, <4>2, <4>3
    <3> QED BY <3>1, <3>2
  <2> QED BY <1>2, <2>1, <2>3
<1>7. BucketOnce'
  <2> DEFINE at(j) == IF j < i THEN j ELSE j + 1
  <2>1. ASSUME NEW j \in 1 .. Len(bucket) - 1, NEW k \in 1 .. Len(bucket) - 1, at(j) = at(k) PROVE j = k
    BY <1>2, <2>1
  <2>2. \A j \in 1 .. Len(bucket) - 1 : at(j) \in DOMAIN bucket
    BY <1>2
  <2>3. \A j \in 1 .. Len(bucket) - 1 : bucket'[j] = bucket[at(j)]
    BY <1>6
  <2> HIDE DEF at
  <2> QED BY <1>2, <1>6, <2>1, <2>2, <2>3 DEF BucketOnce
<1> QED BY <1>6, <1>7, ConfigsKeep DEF DeleteConfig

LEMMA RecordKeeps ==
  ASSUME PushInvariant, Record
  PROVE  PushInvariant'
<1>0. PushTyped /\ FutureUntold /\ BucketOnce
  BY DEF PushInvariant
<1>1. PICK u \in 1 .. Updates : u = update + 1
  BY <1>0, PushConstants DEF Record, PushTyped
<1> DEFINE n == Len(bucket)  f == delivery'[u]
<1>2. /\ update' = u /\ update \in 0 .. Updates /\ UNCHANGED <<bucket, served>>
      /\ bucket \in Seq(PushConfigId) /\ n \in Nat /\ Concurrency \in Nat \ {0}
      /\ PushRetries \in Nat /\ Updates \in Nat
  BY <1>1, <1>0, PushConstants DEF Record, PushTyped
<1>3. \A i \in 1 .. n : Entry(bucket[i]) \in Entries /\ [Entry(bucket[i]) EXCEPT !.phase = "posting"] \in Entries
  BY <1>2 DEF Entry, Entries, Phases, Posting
<1>4. /\ f = [i \in 1 .. n |-> IF i <= Concurrency THEN [Entry(bucket[i]) EXCEPT !.phase = "posting"]
                               ELSE Entry(bucket[i])]
      /\ \A v \in 1 .. Updates : v # u => delivery'[v] = delivery[v]
      /\ delivery' = [delivery EXCEPT ![u] = f]
  <2>1. delivery' = [delivery EXCEPT ![u] = FannedOut([i \in DOMAIN bucket |-> Entry(bucket[i])])]
    BY <1>1 DEF Record
  <2>2. FannedOut([i \in DOMAIN bucket |-> Entry(bucket[i])]) =
          [i \in 1 .. n |-> IF i <= Concurrency THEN [Entry(bucket[i]) EXCEPT !.phase = "posting"]
                            ELSE Entry(bucket[i])]
    BY <1>2 DEF FannedOut
  <2> QED BY <1>0, <1>2, <2>1, <2>2 DEF PushTyped
<1> HIDE DEF n, f
<1>5. f \in [1 .. n -> Entries]
  BY <1>3, <1>4
<1>6. PushTyped'
  <2>1. f \in UNION {[1 .. m -> Entries] : m \in Nat}
    BY <1>2, <1>5
  <2>2. delivery' \in [1 .. Updates -> UNION {[1 .. m -> Entries] : m \in Nat}]
    BY <1>0, <1>4, <2>1 DEF PushTyped
  <2>3. bucket' \in Seq(PushConfigId) /\ update' \in 0 .. Updates
        /\ served' \in [PushConfigId -> [1 .. Updates -> Nat]]
    BY <1>0, <1>2 DEF PushTyped
  <2> QED BY <2>2, <2>3 DEF PushTyped
<1>7. /\ DOMAIN f = 1 .. n
      /\ \A i \in 1 .. n : /\ f[i].config = bucket[i] /\ f[i].attempt = 1
                           /\ f[i].phase = IF i <= Concurrency THEN "posting" ELSE "waiting"
  BY <1>4 DEF Entry
<1>8. \A c \in PushConfigId : served'[c][u] = 0
  BY <1>1, <1>0, <1>2 DEF FutureUntold
<1>9. InFlight(u)' = 1 .. (IF n <= Concurrency THEN n ELSE Concurrency)
  <2>1. InFlight(u)' = {i \in 1 .. n : i <= Concurrency}
    BY <1>7 DEF InFlight, f, Posting
  <2> QED BY <1>2, <2>1
<1>10. Cardinality(InFlight(u)') = IF n <= Concurrency THEN n ELSE Concurrency
  BY <1>2, <1>9, FS_Interval
<1>11. n <= Concurrency => Waiting(f) = {}
  BY <1>2, <1>7 DEF Waiting
<1>12. DeliveryInvariant(u)'
  <2>1. \A i, j \in DOMAIN f : f[i].config = f[j].config => i = j
    BY <1>0, <1>2, <1>7 DEF BucketOnce, n
  <2>2. \A i \in DOMAIN f : f[i].config \in PushConfigId /\ served'[f[i].config][u] = 0
    BY <1>2, <1>7, <1>8 DEF n
  <2>3. \E k \in Nat : \A i \in DOMAIN f : f[i].phase = "waiting" <=> i >= k
    <3>1. Concurrency + 1 \in Nat /\ \A i \in DOMAIN f : f[i].phase = "waiting" <=> i >= Concurrency + 1
      BY <1>2, <1>7
    <3> QED BY <3>1
  <2>4. \A c \in PushConfigId : ~(served'[c][u] > 0)
    BY <1>8
  <2>5. /\ Cardinality(InFlight(u)') <= Concurrency
        /\ Waiting(f) # {} => Cardinality(InFlight(u)') = Concurrency
    BY <1>2, <1>10, <1>11
  <2>6. \A i \in DOMAIN f :
          /\ f[i].attempt <= PushRetries + 1
          /\ served'[f[i].config][u] <= f[i].attempt
          /\ f[i].phase = "waiting" => f[i].attempt = 1 /\ served'[f[i].config][u] = 0
          /\ f[i].phase = "posting" => served'[f[i].config][u] < f[i].attempt
          /\ f[i].phase = "sleeping" => f[i].attempt <= PushRetries
          /\ f[i].phase = "ok" => served'[f[i].config][u] >= 1
    BY <1>2, <1>7, <2>2
  <2> QED BY <2>1, <2>3, <2>4, <2>5, <2>6 DEF DeliveryInvariant, f
<1>13. \A v \in 1 .. Updates : DeliveryInvariant(v)'
  <2> SUFFICES ASSUME NEW v \in 1 .. Updates, v # u PROVE DeliveryInvariant(v)'
    BY <1>12
  <2>1. DeliveryInvariant(v) /\ delivery'[v] = delivery[v] /\ \A c \in PushConfigId : served'[c][v] = served[c][v]
    BY <1>2, <1>4 DEF PushInvariant
  <2> QED BY <1>0, <2>1, OthersRest
<1>14. FutureUntold'
  <2> SUFFICES ASSUME NEW v \in 1 .. Updates, v > u
               PROVE  delivery'[v] = <<>> /\ \A c \in PushConfigId : served'[c][v] = 0
    BY <1>2 DEF FutureUntold
  <2>1. v > update /\ v # u
    BY <1>1, <1>2
  <2> QED BY <1>0, <1>2, <1>4, <2>1 DEF FutureUntold
<1>15. BucketOnce'
  BY <1>0, <1>2 DEF BucketOnce
<1> QED BY <1>6, <1>13, <1>14, <1>15 DEF PushInvariant

LEMMA PushInitHolds == PushInit => PushInvariant
<1> SUFFICES ASSUME PushInit PROVE PushInvariant
  OBVIOUS
<1>1. /\ bucket = <<>> /\ update = 0
      /\ delivery = [u \in 1 .. Updates |-> <<>>]
      /\ served = [c \in PushConfigId |-> [u \in 1 .. Updates |-> 0]]
  BY DEF PushInit
<1>2. \A u \in 1 .. Updates : delivery[u] = <<>> /\ \A c \in PushConfigId : served[c][u] = 0
  BY <1>1
<1>3. PushTyped
  <2>1. <<>> \in [1 .. 0 -> Entries]
    OBVIOUS
  <2>2. <<>> \in UNION {[1 .. n -> Entries] : n \in Nat}
    BY <2>1
  <2> QED BY <1>1, <2>2, PushConstants DEF PushTyped
<1>4. ASSUME NEW u \in 1 .. Updates PROVE DeliveryInvariant(u)
  <2>1. InFlight(u) = {} /\ Waiting(delivery[u]) = {}
    BY <1>2 DEF InFlight, Waiting
  <2>2. Cardinality(InFlight(u)) <= Concurrency
    BY <2>1, FS_EmptySet, PushConstants
  <2>3. \E k \in Nat : \A i \in DOMAIN delivery[u] : delivery[u][i].phase = "waiting" <=> i >= k
    BY <1>2
  <2> QED BY <1>2, <2>1, <2>2, <2>3 DEF DeliveryInvariant
<1> QED BY <1>1, <1>2, <1>3, <1>4 DEF PushInvariant, BucketOnce, FutureUntold

LEMMA PushStays == PushInvariant /\ [PushNext]_pushVars => PushInvariant'
<1> SUFFICES ASSUME PushInvariant, [PushNext]_pushVars PROVE PushInvariant'
  OBVIOUS
<1>1. CASE Record
  BY <1>1, RecordKeeps
<1>2. ASSUME NEW id \in PushConfigId, SetConfig(id) \/ DeleteConfig(id) PROVE PushInvariant'
  BY <1>2, SetConfigKeeps, DeleteConfigKeeps
<1>3. ASSUME NEW u \in 1 .. Updates, SenderStep(u) PROVE PushInvariant'
  BY <1>3, PostEndsKeeps, BackoffEndsKeeps, PostAbortedKeeps DEF SenderStep
<1>4. ASSUME NEW u \in 1 .. Updates, Halt(u) PROVE PushInvariant'
  <2>1. UNCHANGED <<bucket, update, delivery, served>>
    BY <1>4 DEF Halt
  <2> QED BY <2>1, ConfigsKeep DEF PushInvariant, PushTyped, BucketOnce
<1>5. CASE UNCHANGED pushVars
  <2>1. UNCHANGED <<bucket, update, delivery, served>>
    BY <1>5 DEF pushVars
  <2> QED BY <2>1, ConfigsKeep DEF PushInvariant, PushTyped, BucketOnce
<1> QED BY <1>1, <1>2, <1>3, <1>4, <1>5 DEF PushNext

LEMMA DeliveriesOf == PushInvariant => DeliveriesSound
<1> SUFFICES ASSUME PushInvariant, NEW u \in 1 .. Updates
             PROVE  LET entries == delivery[u]
                    IN  /\ \A i, j \in DOMAIN entries : entries[i].config = entries[j].config => i = j
                        /\ \A c \in PushConfigId :
                             served[c][u] > 0 => \E i \in DOMAIN entries : entries[i].config = c
                        /\ Cardinality(InFlight(u)) <= Concurrency
                        /\ Waiting(entries) # {} => Cardinality(InFlight(u)) = Concurrency
                        /\ \A i \in DOMAIN entries :
                             /\ entries[i].attempt <= PushRetries + 1
                             /\ served[entries[i].config][u] <= entries[i].attempt
                             /\ entries[i].phase = "ok" => served[entries[i].config][u] >= 1
                             /\ entries[i].phase = "waiting" =>
                                  \A j \in DOMAIN entries : j > i => entries[j].phase = "waiting"
  BY DEF DeliveriesSound
<1>1. DeliveryInvariant(u) /\ PushTyped
  BY DEF PushInvariant
<1>2. PICK n \in Nat : DOMAIN delivery[u] = 1 .. n
  BY <1>1, DeliveryShape
<1>3. \A i, j \in DOMAIN delivery[u] :
        delivery[u][i].phase = "waiting" /\ j > i => delivery[u][j].phase = "waiting"
  <2>1. PICK k \in Nat : \A i \in DOMAIN delivery[u] : delivery[u][i].phase = "waiting" <=> i >= k
    BY <1>1 DEF DeliveryInvariant
  <2> QED BY <1>2, <2>1
<1> QED BY <1>1, <1>3 DEF DeliveryInvariant

(* Whatever the receivers do, posts in flight stay within `concurrency`, no*)
(* config waits beside a free worker, no update is posted, and so served,  *)
(* more than maxRetries + 1 times, and ok is only said of a served one.    *)
THEOREM DeliveriesCorrect == PushSpec => []DeliveriesSound
BY PushInitHolds, PushStays, DeliveriesOf, PTL DEF PushSpec
=============================================================================
