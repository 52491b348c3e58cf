---------------------------- MODULE PushDelivery ----------------------------
(***************************************************************************)
(* Push notifications of one task: the configs clients register for it, the*)
(* worker of src/examples/tck-sut/server.ts that fires a delivery for every*)
(* state it records and does not wait for it, and PushNotificationSender,  *)
(* which posts each update to every config with a bounded number of posts  *)
(* in flight and retries what may have failed in passing.  The receivers   *)
(* are external: they serve a post or not, and their answer may be lost.   *)
(* Delays, headers, tokens and urls are left out.                          *)
(***************************************************************************)
EXTENDS Naturals, FiniteSets, SequencesExt

CONSTANTS
  PushConfigId,     \* bound: ids of configs
  PushRetries,      \* retryConfig.maxRetries
  Concurrency,      \* posts of a delivery in flight
  Updates           \* bound: the updates 1 .. Updates of the task

ASSUME PushConstants ==
  /\ PushRetries \in Nat /\ Updates \in Nat /\ Concurrency \in Nat \ {0}
  /\ IsFiniteSet(PushConfigId)

VARIABLES
  bucket,    \* the stored configs, in insertion order
  update,    \* updates recorded so far
  delivery,  \* deliveries: per config of the listing, where its post is
  halted,    \* deliveries whose caller aborted them
  served     \* how often the receiver served an update

pushVars == <<bucket, update, delivery, halted, served>>

PushInit ==
  /\ bucket = <<>> /\ update = 0
  /\ delivery = [u \in 1 .. Updates |-> <<>>]
  /\ halted = {}
  /\ served = [c \in PushConfigId |-> [u \in 1 .. Updates |-> 0]]

-----------------------------------------------------------------------------
(* The handlers of push-notification-config.ts; get and list change nothing*)

(* Bound: no delivery would see a change after the last update.            *)
ConfigsMatter == update < Updates

SetConfig(id) ==
  /\ ConfigsMatter
  /\ id \notin ToSet(bucket)   \* else the stored config is replaced in its place
  /\ bucket' = Append(bucket, id)
  /\ UNCHANGED <<update, delivery, halted, served>>

DeleteConfig(id) ==
  /\ ConfigsMatter
  /\ \E i \in DOMAIN bucket :   \* else deleting succeeds and changes nothing
       bucket[i] = id /\ bucket' = RemoveAt(bucket, i)
  /\ UNCHANGED <<update, delivery, halted, served>>

-----------------------------------------------------------------------------
(* deliverTaskUpdate                                                       *)

Posting == {"posting", "sleeping"}
Ended == {"ok", "failed"}

Entry(id) == [config |-> id, phase |-> "waiting", attempt |-> 1]

(* Faulty variant: one worker too many is started.                         *)
FannedOutWide(entries) ==
  [i \in DOMAIN entries |->
     IF i <= Concurrency + 1 THEN [entries[i] EXCEPT !.phase = "posting"] ELSE entries[i]]

(* min(concurrency, length) workers take the first configs.                *)
FannedOut(entries) ==
  [i \in DOMAIN entries |->
     IF i <= Concurrency THEN [entries[i] EXCEPT !.phase = "posting"] ELSE entries[i]]

(* The worker records a state and fires the delivery of it to the configs  *)
(* of that moment.                                                         *)
Record ==
  /\ update < Updates
  /\ update' = update + 1
  /\ delivery' = [delivery EXCEPT ![update + 1] = FannedOut([i \in DOMAIN bucket |-> Entry(bucket[i])])]
  /\ UNCHANGED <<bucket, halted, served>>

Waiting(entries) == {i \in DOMAIN entries : entries[i].phase = "waiting"}

(* The config's result is in; the worker takes the next config, if any.    *)
Concluded(u, i, result) ==
  LET entries == [delivery[u] EXCEPT ![i].phase = result]
      next == {j \in Waiting(entries) : \A k \in Waiting(entries) : j <= k}
  IN  [j \in DOMAIN entries |->
         IF j \in next THEN [entries[j] EXCEPT !.phase = "posting"] ELSE entries[j]]

Becomes(u, entries) == delivery' = [delivery EXCEPT ![u] = entries]

Serves(u, i) == served' = [served EXCEPT ![delivery[u][i].config][u] = @ + 1]

(* Faulty variant: one retry too many.                                     *)
TransientFailureOnceMore(u, i) ==
  IF delivery[u][i].attempt <= PushRetries + 1
  THEN Becomes(u, [delivery[u] EXCEPT ![i].phase = "sleeping"])
  ELSE Becomes(u, Concluded(u, i, "failed"))

(* A failure that may pass: back off and retry while retries are left.     *)
TransientFailure(u, i) ==
  IF delivery[u][i].attempt <= PushRetries
  THEN Becomes(u, [delivery[u] EXCEPT ![i].phase = "sleeping"])
  ELSE Becomes(u, Concluded(u, i, "failed"))

(* What a post comes to: accepted (2xx); refused (another status), which is*)
(* final; answered with 429 or 5xx, lost or timed out, and then the        *)
(* receiver may or may not have served it.                                 *)
PostEnds(u, i) ==
  /\ delivery[u][i].phase = "posting"
  /\ \/ Serves(u, i) /\ Becomes(u, Concluded(u, i, "ok"))
     \/ UNCHANGED served /\ Becomes(u, Concluded(u, i, "failed"))
     \/ UNCHANGED served /\ TransientFailure(u, i)
     \/ Serves(u, i) /\ TransientFailure(u, i)
  /\ UNCHANGED <<bucket, update, halted>>

(* The backoff is over: the next attempt.  An aborted delivery gives up.   *)
BackoffEnds(u, i) ==
  /\ delivery[u][i].phase = "sleeping"
  /\ IF u \in halted
     THEN Becomes(u, Concluded(u, i, "failed"))
     ELSE Becomes(u, [delivery[u] EXCEPT ![i].phase = "posting", ![i].attempt = @ + 1])
  /\ UNCHANGED <<bucket, update, halted, served>>

(* An abort ends a post in flight; the configs not taken yet fail at their *)
(* first check, one by one, as the workers reach them.                     *)
PostAborted(u, i) ==
  /\ u \in halted
  /\ delivery[u][i].phase = "posting"
  /\ Becomes(u, Concluded(u, i, "failed"))
  /\ UNCHANGED <<bucket, update, halted, served>>

Halt(u) ==
  /\ u \notin halted /\ u <= update
  /\ \E i \in DOMAIN delivery[u] : delivery[u][i].phase \in Posting
  /\ halted' = halted \cup {u}
  /\ UNCHANGED <<bucket, update, delivery, served>>

SenderStep(u) ==
  \E i \in DOMAIN delivery[u] : PostEnds(u, i) \/ BackoffEnds(u, i) \/ PostAborted(u, i)

PushNext ==
  \/ Record
  \/ \E id \in PushConfigId : SetConfig(id) \/ DeleteConfig(id)
  \/ \E u \in 1 .. Updates : SenderStep(u) \/ Halt(u)

PushSpec == PushInit /\ [][PushNext]_pushVars

(* A post ends by the sender's timeout at the latest, timers fire.         *)
PushFairness == \A u \in 1 .. Updates : WF_pushVars(SenderStep(u))

-----------------------------------------------------------------------------
PushTypeOK ==
  /\ bucket \in SeqOf(PushConfigId, Cardinality(PushConfigId)) /\ update \in 0 .. Updates
  /\ \A u \in 1 .. Updates :
       \A i \in DOMAIN delivery[u] :
         delivery[u][i] \in [config : PushConfigId, phase : {"waiting"} \cup Posting \cup Ended, attempt : Nat]

InFlight(u) == {i \in DOMAIN delivery[u] : delivery[u][i].phase \in Posting}

(* What the sender promises of every delivery, whatever the receivers do   *)
(* and however deliveries of successive updates overlap: at most           *)
(* `concurrency` posts are in flight and no config waits while a worker is *)
(* free; a config is posted to at most maxRetries + 1 times, so that is    *)
(* how often a receiver can be told the same update; ok is only said of an *)
(* update the receiver served; no config waits while a later one is taken; *)
(* only configs registered when the update was recorded are told of it,    *)
(* each once (sendTaskUpdate, deliverTaskUpdate).                          *)
DeliveriesSound ==
  \A u \in 1 .. Updates :
    LET entries == delivery[u]
    IN  /\ \A i, j \in DOMAIN entries : entries[i].config = entries[j].config => i = j
        /\ \A c \in PushConfigId :
             served[c][u] > 0 => \E i \in DOMAIN entries : entries[i].config = c
        /\ Cardinality(InFlight(u)) <= Concurrency
        /\ Waiting(entries) # {} => Cardinality(InFlight(u)) = Concurrency
        /\ \A i \in DOMAIN entries :
             /\ entries[i].attempt <= PushRetries + 1
             /\ served[entries[i].config][u] <= entries[i].attempt
             /\ entries[i].phase = "ok" => served[entries[i].config][u] >= 1
             /\ entries[i].phase = "waiting" =>
                  \A j \in DOMAIN entries : j > i => entries[j].phase = "waiting"

(* Every delivery ends with a result for every config (deliverTaskUpdate   *)
(* never throws and never hangs on a slow or broken webhook).              *)
DeliveriesSettle ==
  \A u \in 1 .. Updates :
    update >= u ~> \A i \in DOMAIN delivery[u] : delivery[u][i].phase \in Ended
=============================================================================
