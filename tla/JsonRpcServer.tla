--------------------------- MODULE JsonRpcServer ---------------------------
(***************************************************************************)
(* A2AServer's JSON-RPC endpoint: authentication, the version check, the   *)
(* streaming methods and dispatch, with batches whose items run at the same*)
(* time, while methods are registered and unregistered.  A request body is *)
(* no JSON ("garbage"), a single item or a batch of items.  The handlers   *)
(* of methods are external: they return, throw a JSONRPCError or throw.    *)
(***************************************************************************)
EXTENDS Naturals, SequencesExt

CONSTANTS
  Exchange,         \* bound: HTTP requests on the endpoint
  Bodies,           \* bodies they may carry
  Methods,          \* method names, for either registry
  AuthEnabled       \* an enabled authenticator is configured

(* An item: well formed ("good"), a request with a wrong id or wrong params*)
(* ("badParams") or none ("bad"); whether it has an id, and its method.    *)
Item(form, hasId, method) == [form |-> form, hasId |-> hasId, method |-> method]

ASSUME ServerConstants ==
  /\ AuthEnabled \in BOOLEAN
  /\ \A body \in Bodies : /\ body.items \in Seq(ToSet(body.items))
                           /\ \A item \in ToSet(body.items) : item.hasId \in BOOLEAN

VARIABLES
  registry,           \* regular methods
  streamingRegistry,  \* streaming methods
  exchange            \* the requests being served

rpcServerVars == <<registry, streamingRegistry, exchange>>

Unused == [phase |-> "unused"]

RpcServerInit ==
  /\ registry = Methods /\ streamingRegistry = {}
  /\ exchange = [x \in Exchange |-> Unused]

(* registerMethod and registerStreamingMethod; a name may be in both.      *)
Register(m) ==
  /\ \/ registry' = registry \cup {m} /\ UNCHANGED streamingRegistry
     \/ streamingRegistry' = streamingRegistry \cup {m} /\ UNCHANGED registry
  /\ UNCHANGED exchange

unregisterMethod(m) ==
  /\ registry' = registry \ {m}
  /\ streamingRegistry' = streamingRegistry \ {m}
  /\ UNCHANGED exchange

(* A request arrives, with or without good credentials and a known version.*)
Arrives(x, body, credentials, version) ==
  /\ exchange[x] = Unused
  /\ exchange' = [exchange EXCEPT ![x] =
       [phase |-> "arrived", body |-> body, credentials |-> credentials, version |-> version,
        items |-> <<>>, answers |-> <<>>, status |-> 0]]
  /\ UNCHANGED <<registry, streamingRegistry>>

Answered(x, status, answers) ==
  [exchange[x] EXCEPT !.phase = "answered", !.status = status, !.answers = answers]

(* Faulty variant: the credentials are not looked at.                      *)
AuthenticatesNobody(x) ==
  /\ exchange[x].phase = "arrived"
  /\ exchange' = [exchange EXCEPT ![x].phase = "authenticated"]
  /\ UNCHANGED <<registry, streamingRegistry>>

(* The authenticator's middleware: 401, or the endpoint's own handler.     *)
Authenticates(x) ==
  /\ exchange[x].phase = "arrived"
  /\ exchange' = [exchange EXCEPT ![x] =
       IF AuthEnabled /\ ~exchange[x].credentials THEN Answered(x, 401, <<>>)
       ELSE [exchange[x] EXCEPT !.phase = "authenticated"]]
  /\ UNCHANGED <<registry, streamingRegistry>>

(* dispatchSingle up to its await: what is not to be run is settled.       *)
dispatchSingle(item) ==
  IF item.form # "good" THEN "invalid"
  ELSE IF item.method \in registry THEN "running"
  ELSE IF item.hasId THEN "notFound" ELSE "silent"

(* tryDispatchStreaming takes a single request of a streaming method and   *)
(* does not look at its id and params; a handler that throws is answered   *)
(* like any other.                                                         *)
Streams(body) ==
  /\ body.kind = "single"
  /\ Head(body.items).form # "bad" /\ Head(body.items).method \in streamingRegistry

Dispatches(x) ==
  /\ exchange[x].phase = "authenticated"
  /\ LET body == exchange[x].body
     IN  IF ~exchange[x].version
         THEN exchange' = [exchange EXCEPT ![x] = Answered(x, 200, <<"versionNotSupported">>)]
         ELSE IF Streams(body)
         THEN \E ran \in {[exchange[x] EXCEPT !.phase = "streaming"],
                          Answered(x, 200, <<"error">>)} :
                exchange' = [exchange EXCEPT ![x] = ran]
         ELSE IF body.kind = "garbage"
         THEN exchange' = [exchange EXCEPT ![x] = Answered(x, 200, <<"parseError">>)]
         ELSE IF body.items = <<>>
         THEN exchange' = [exchange EXCEPT ![x] = Answered(x, 200, <<"invalid">>)]
         ELSE exchange' = [exchange EXCEPT ![x] =
                [exchange[x] EXCEPT !.phase = "running",
                   !.items = [i \in DOMAIN body.items |-> dispatchSingle(body.items[i])]]]
  /\ UNCHANGED <<registry, streamingRegistry>>

(* Faulty variant: a failing notification is answered.                     *)
OutcomeTold(item, outcome) == outcome

(* A notification's handler ends without an answer, whatever it does.      *)
Outcome(item, outcome) == IF item.hasId THEN outcome ELSE "silent"

HandlerEnds(x, i) ==
  /\ exchange[x].phase = "running" /\ exchange[x].items[i] = "running"
  /\ \E outcome \in {"result", "error", "internal"} :
       exchange' = [exchange EXCEPT ![x].items[i] =
                      Outcome(exchange[x].body.items[i], outcome)]
  /\ UNCHANGED <<registry, streamingRegistry>>

(* What dispatch keeps of the outcomes of a batch.                         *)
Filtered(outcomes) ==
  FoldLeft(LAMBDA told, a : IF a[2] = "silent" THEN told ELSE Append(told, a), <<>>, outcomes)

(* Faulty variant: answers are sent in the order of no item.               *)
AnswersReversed(x) ==
  Reverse(Filtered([i \in DOMAIN exchange[x].items |-> <<i, exchange[x].items[i]>>]))

(* The answers in the order of the items, the silent ones left out.        *)
Answers(x) == Filtered([i \in DOMAIN exchange[x].items |-> <<i, exchange[x].items[i]>>])

(* All items have ended: their answers, or 204 when there are none.        *)
Responded(x) ==
  /\ exchange[x].phase = "running"
  /\ \A i \in DOMAIN exchange[x].items : exchange[x].items[i] # "running"
  /\ exchange' = [exchange EXCEPT ![x] =
       Answered(x, IF Answers(x) = <<>> THEN 204 ELSE 200, Answers(x))]
  /\ UNCHANGED <<registry, streamingRegistry>>

StreamEnds(x) ==
  /\ exchange[x].phase = "streaming"
  /\ exchange' = [exchange EXCEPT ![x].phase = "answered", ![x].status = 200]
  /\ UNCHANGED <<registry, streamingRegistry>>

Serve(x) ==
  \/ Authenticates(x) \/ Dispatches(x) \/ Responded(x) \/ StreamEnds(x)
  \/ \E i \in DOMAIN exchange[x].items : HandlerEnds(x, i)

Active == {x \in Exchange : exchange[x] # Unused}

RpcServerNext ==
  \/ \E m \in Methods : Register(m) \/ unregisterMethod(m)
  \/ \E x \in Exchange, body \in Bodies, credentials, version \in BOOLEAN :
       Arrives(x, body, credentials, version)
  \/ \E x \in Active : Serve(x)

RpcServerSpec == RpcServerInit /\ [][RpcServerNext]_rpcServerVars

(* Handlers return or throw, streams end.                                  *)
RpcServerFairness == \A x \in Exchange : WF_rpcServerVars(x \in Active /\ Serve(x))

-----------------------------------------------------------------------------
RpcServerTypeOK ==
  /\ registry \subseteq Methods /\ streamingRegistry \subseteq Methods
  /\ \A x \in Exchange :
       exchange[x].phase \in {"unused", "arrived", "authenticated", "running", "streaming", "answered"}

Index(answer) == answer[1]

(* One answer per request and none per notification, in the order of the   *)
(* batch although its items end in any order and methods come and go; a    *)
(* malformed item is answered even without an id; no handler was reached   *)
(* without credentials or with an unsupported version (dispatch,           *)
(* dispatchSingle, the POST route).                                        *)
AnswersMatch ==
  \A x \in Active :
    LET items == exchange[x].body.items
        answers == exchange[x].answers
        toBeAnswered == {i \in DOMAIN items : items[i].hasId \/ items[i].form # "good"}
    IN  /\ exchange[x].items # <<>> \/ exchange[x].phase = "streaming" =>
             exchange[x].version /\ (AuthEnabled => exchange[x].credentials)
        /\ exchange[x].phase = "answered" /\ exchange[x].items # <<>> =>
             /\ {Index(answers[i]) : i \in DOMAIN answers} = toBeAnswered
             /\ \A i, j \in DOMAIN answers : i < j => Index(answers[i]) < Index(answers[j])
             /\ exchange[x].status = IF toBeAnswered = {} THEN 204 ELSE 200

(* Every exchange is answered, whatever its items do.                      *)
ExchangesEnd ==
  \A x \in Exchange : exchange[x].phase = "arrived" ~> exchange[x].phase = "answered"
=============================================================================
