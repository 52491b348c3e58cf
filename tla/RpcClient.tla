----------------------------- MODULE RpcClient -----------------------------
(***************************************************************************)
(* A2AClient: one JSON-RPC call over a network that loses and delays, with *)
(* the retry policy of retry.ts.  Every attempt posts the same request     *)
(* anew; the agent may serve a request whose answer the client no longer   *)
(* waits for, even after the call has ended.  The agent is external: it    *)
(* serves a request (for SendMessage, creates a task) and answers with a   *)
(* result, a JSON-RPC error, an HTTP error or something undecodable.       *)
(***************************************************************************)
EXTENDS Naturals, Sequences

CONSTANTS
  ClientCall,   \* calls of the client
  CallRetries   \* retry.maxRetries; 0 when retrying is switched off

ASSUME ClientConstants == CallRetries \in Nat

VARIABLES
  rpc,       \* where a call is
  attempts,  \* what its attempts came to
  userAbort, \* calls whose caller aborted them
  wire,      \* attempts whose request has not been served
  effects    \* attempts the agent has served

clientVars == <<rpc, attempts, userAbort, wire, effects>>

(* How an attempt may end, and which ends are worth another one.           *)
Retryable == {"timeout", "network", "busy"}
Final == {"result", "rpcError", "refused", "undecodable", "abort"}

isRetryableError(error) == error \in Retryable

ClientInit ==
  /\ rpc = [c \in ClientCall |-> "none"]
  /\ attempts = [c \in ClientCall |-> <<>>]
  /\ userAbort = {}
  /\ wire = [c \in ClientCall |-> {}]
  /\ effects = [c \in ClientCall |-> {}]

(* One of the methods is called.                                           *)
Invoke(c) ==
  /\ rpc[c] = "none"
  /\ rpc' = [rpc EXCEPT ![c] = "idle"]
  /\ UNCHANGED <<attempts, userAbort, wire, effects>>

(* withRetry's loop: no attempt is made for an aborted call.               *)
Attempt(c) ==
  /\ rpc[c] = "idle"
  /\ IF c \in userAbort
     THEN /\ rpc' = [rpc EXCEPT ![c] = "abort"]
          /\ UNCHANGED wire
     ELSE /\ rpc' = [rpc EXCEPT ![c] = "posted"]
          /\ wire' = [wire EXCEPT ![c] = @ \cup {Len(attempts[c]) + 1}]
  /\ UNCHANGED <<attempts, userAbort, effects>>

(* Faulty variant: one attempt more than the limit.                        *)
AttemptEndsLate(c, error) ==
  /\ attempts' = [attempts EXCEPT ![c] = Append(@, error)]
  /\ rpc' = [rpc EXCEPT ![c] =
       IF Len(attempts[c]) > CallRetries \/ ~isRetryableError(error) THEN error ELSE "sleeping"]

(* An attempt has failed: the call fails with it, or backs off.            *)
AttemptEnds(c, error) ==
  /\ attempts' = [attempts EXCEPT ![c] = Append(@, error)]
  /\ rpc' = [rpc EXCEPT ![c] =
       IF Len(attempts[c]) >= CallRetries \/ ~isRetryableError(error) THEN error ELSE "sleeping"]

(* classifyFetchError: fetch rejected; if the caller aborted, that is why. *)
(* The errors an injected fetch may make up (an A2AClientError, or an      *)
(* AbortError though nobody aborted) are left out.                         *)
classifyFetchError(c) == IF c \in userAbort THEN {"abort"} ELSE {"timeout", "network"}

FetchFails(c) ==
  /\ rpc[c] = "posted"
  /\ \E error \in classifyFetchError(c) : AttemptEnds(c, error)
  /\ UNCHANGED <<userAbort, wire, effects>>

Latest(c) == Len(attempts[c]) + 1

(* Status and headers have come back; only a request that was served brings*)
(* a body worth reading, any gateway on the way may answer with an error.  *)
Responds(c) ==
  /\ rpc[c] = "posted"
  /\ \/ AttemptEnds(c, "busy")
     \/ AttemptEnds(c, "refused")
     \/ /\ Latest(c) \in effects[c]
        /\ rpc' = [rpc EXCEPT ![c] = "reading"]
        /\ UNCHANGED attempts
  /\ UNCHANGED <<userAbort, wire, effects>>

(* The body: lost, cut off by a timeout or an abort, or no JSON-RPC answer,*)
(* it is undecodable; else it is the result or the error of the method.    *)
BodyRead(c) ==
  /\ rpc[c] = "reading"
  /\ \E end \in {"result", "rpcError", "undecodable"} : AttemptEnds(c, end)
  /\ UNCHANGED <<userAbort, wire, effects>>

(* Faulty variant: the sleep swallows the abort.                           *)
BackoffOverDeaf(c) ==
  /\ rpc[c] = "sleeping"
  /\ rpc' = [rpc EXCEPT ![c] = "posted"]
  /\ wire' = [wire EXCEPT ![c] = @ \cup {Len(attempts[c]) + 1}]
  /\ UNCHANGED <<attempts, userAbort, effects>>

(* The backoff is over, or ended by an abort.                              *)
BackoffOver(c) ==
  /\ rpc[c] = "sleeping"
  /\ IF c \in userAbort
     THEN rpc' = [rpc EXCEPT ![c] = "abort"] /\ UNCHANGED wire
     ELSE /\ rpc' = [rpc EXCEPT ![c] = "posted"]
          /\ wire' = [wire EXCEPT ![c] = @ \cup {Len(attempts[c]) + 1}]
  /\ UNCHANGED <<attempts, userAbort, effects>>

UserAborts(c) ==
  /\ c \notin userAbort /\ rpc[c] \notin Retryable \cup Final
  /\ userAbort' = userAbort \cup {c}
  /\ UNCHANGED <<rpc, attempts, wire, effects>>

(* The agent serves a request, in whatever order they reach it.            *)
AgentServes(c) ==
  \E n \in wire[c] :
    /\ wire' = [wire EXCEPT ![c] = @ \ {n}]
    /\ effects' = [effects EXCEPT ![c] = @ \cup {n}]
    /\ UNCHANGED <<rpc, attempts, userAbort>>

(* The network loses a request.                                            *)
RequestLost(c) ==
  \E n \in wire[c] :
    /\ wire' = [wire EXCEPT ![c] = @ \ {n}]
    /\ UNCHANGED <<rpc, attempts, userAbort, effects>>

ClientStep(c) == Attempt(c) \/ FetchFails(c) \/ Responds(c) \/ BodyRead(c) \/ BackoffOver(c)

ClientNext ==
  \E c \in ClientCall : Invoke(c) \/ ClientStep(c) \/ UserAborts(c) \/ AgentServes(c) \/ RequestLost(c)

ClientSpec == ClientInit /\ [][ClientNext]_clientVars

(* fetch settles by the timeout at the latest, the backoff timer fires.    *)
ClientFairness == \A c \in ClientCall : WF_clientVars(ClientStep(c))

-----------------------------------------------------------------------------
ClientTypeOK ==
  /\ rpc \in [ClientCall -> {"none", "idle", "posted", "reading", "sleeping"} \cup Retryable \cup Final]
  /\ userAbort \subseteq ClientCall
  /\ attempts \in [ClientCall -> Seq(Retryable \cup Final)]
  /\ {wire, effects} \subseteq [ClientCall -> SUBSET (1 .. CallRetries + 1)]

Over(c) == rpc[c] \in Retryable \cup Final

(* What a caller may conclude: a result or a JSON-RPC error means the agent*)
(* served the request; a call is posted at most maxRetries + 1 times, and  *)
(* so often may its effect happen, although requests overtake each other   *)
(* and are served after the call failed; only failures worth a retry were  *)
(* retried; the error the caller sees is that of the last attempt, or an   *)
(* abort it asked for (withRetry, isRetryableError, executeJSONRPC).       *)
CallsSound ==
  \A c \in ClientCall :
    /\ rpc[c] \in {"result", "rpcError"} => Len(attempts[c]) \in effects[c]
    /\ effects[c] \cup wire[c] \subseteq 1 .. CallRetries + 1
    /\ \A i \in DOMAIN attempts[c] : i < Len(attempts[c]) => attempts[c][i] \in Retryable
    /\ Over(c) => rpc[c] = "abort" \/ rpc[c] = attempts[c][Len(attempts[c])]
    /\ rpc[c] = "abort" => c \in userAbort

(* After the caller's abort the call makes no further attempt (the checks  *)
(* of withRetry before an attempt and in the sleep; classifyFetchError).   *)
NoAttemptAfterAbort ==
  [][\A c \in userAbort : wire'[c] \subseteq wire[c]]_clientVars

(* A call ends, whatever the network and the agent do.                     *)
CallsEnd == \A c \in ClientCall : rpc[c] = "idle" ~> Over(c)
=============================================================================
