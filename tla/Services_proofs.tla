-------------------------- MODULE Services_proofs --------------------------
(***************************************************************************)
(* The parts around the task server.  The MCP client keeps its word on     *)
(* dials and on stop, for any number of servers, retries and overlapping   *)
(* refresh rounds; a caller of the A2A client may conclude what CallsSound *)
(* says, however late requests are served; artifacts are served whole or   *)
(* not at all; a batch of any size is answered in its order; a walk through*)
(* the pages misses nothing it owes; retention evicts just what is over a  *)
(* cap; and MCServices, which runs the parts, keeps all their promises.    *)
(***************************************************************************)
EXTENDS MCServices, PushDelivery_proofs, SequenceLemmas

-----------------------------------------------------------------------------
(* The MCP client                                                          *)

McpInvariant == McpTypeOK /\ DialsSound

LEMMA McpInitHolds == McpInit => McpInvariant
<1> SUFFICES ASSUME McpInit PROVE McpInvariant
  OBVIOUS
<1>1. McpTypeOK
  <2>1. round \in [Rounds -> Seq(Server)]
    BY DEF McpInit
  <2> QED BY <2>1 DEF McpInit, McpTypeOK
<1>2. DialsSound
  BY McpConstants DEF McpConstants, McpInit, DialsSound, RETRY_FOREVER
<1> QED BY <1>1, <1>2 DEF McpInvariant

(* start and stop take all servers at once.                                *)
LEMMA StartStopKeep == McpInvariant /\ (McpStart \/ McpStop) => McpInvariant'
<1> SUFFICES ASSUME McpInvariant, McpStart \/ McpStop PROVE McpInvariant'
  OBVIOUS
<1> USE McpConstants DEF McpConstants, McpInvariant, McpTypeOK, DialsSound, RETRY_FOREVER
<1>1. CASE McpStart
  BY <1>1 DEF McpStart
<1>2. CASE McpStop
  BY <1>2 DEF McpStop
<1> QED BY <1>1, <1>2

(* A listing leaves all but the tools of one server alone.                 *)
LEMMA RefreshKeepsType ==
  ASSUME NEW s \in Server, McpTypeOK, Refreshed(s)
  PROVE  /\ tools' \in [Server -> Catalogs \cup {NoCatalog}]
         /\ \A t \in Server : t # s => tools'[t] = tools[t]
BY DEF McpTypeOK, Refreshed

(* The loop of one server; the others are as they were.                    *)
LEMMA LoopKeeps ==
  ASSUME NEW s \in Server, McpInvariant, McpLoop(s)
  PROVE  McpInvariant'
<1> USE McpConstants DEF McpConstants, McpInvariant, McpTypeOK, DialsSound, RETRY_FOREVER
<1>1. CASE Connected(s)
  BY <1>1 DEF Connected
<1>2. CASE DialFails(s)
  <2>1. CASE MaxRetries = 0
    BY <1>2, <2>1 DEF DialFails
  <2>2. CASE MaxRetries # 0
    BY <1>2, <2>2 DEF DialFails
  <2> QED BY <2>1, <2>2
<1>3. CASE Wakes(s)
  BY <1>3 DEF Wakes
<1>4. CASE FirstListing(s)
  BY <1>4, RefreshKeepsType DEF FirstListing
<1> QED BY <1>1, <1>2, <1>3, <1>4 DEF McpLoop

(* A round lists the servers that have a session.                          *)
LEMMA RoundKeeps ==
  ASSUME NEW r \in Rounds, McpInvariant, Tick(r) \/ RoundLists(r)
  PROVE  McpInvariant'
<1> USE McpConstants DEF McpConstants, McpInvariant, McpTypeOK, DialsSound, RETRY_FOREVER
<1>1. CASE Tick(r)
  <2>1. McpServers \in Seq(Server)
    BY DEF McpConstants
  <2> QED BY <1>1, <2>1 DEF Tick
<1>2. CASE RoundLists(r)
  <2>1. Head(round[r]) \in Server /\ Tail(round[r]) \in Seq(Server)
    BY <1>2 DEF RoundLists
  <2>2. round' \in [Rounds -> Seq(Server)]
    BY <1>2, <2>1 DEF RoundLists
  <2>3. CASE session[Head(round[r])]
    BY <1>2, <2>1, <2>2, <2>3, RefreshKeepsType DEF RoundLists
  <2>4. CASE ~session[Head(round[r])]
    BY <1>2, <2>2, <2>4 DEF RoundLists
  <2> QED BY <2>3, <2>4
<1> QED BY <1>1, <1>2

LEMMA DialsStay == McpInvariant /\ [McpNext]_mcpVars => McpInvariant'
<1> SUFFICES ASSUME McpInvariant, [McpNext]_mcpVars PROVE McpInvariant'
  OBVIOUS
<1>1. CASE McpNext
  BY <1>1, StartStopKeep, LoopKeeps, RoundKeeps DEF McpNext
<1>2. CASE UNCHANGED mcpVars
  BY <1>2 DEF mcpVars, McpInvariant, McpTypeOK, DialsSound
<1> QED BY <1>1, <1>2

(* stop is final, no server is dialled more often than configured, and only*)
(* a connected one has a session or tools (start, stop, connectWithRetry). *)
THEOREM DialsCorrect == McpSpec => []DialsSound
<1>1. McpInvariant => DialsSound
  BY DEF McpInvariant
<1> QED BY McpInitHolds, DialsStay, <1>1, PTL DEF McpSpec
-----------------------------------------------------------------------------
(* The A2A client.                                                        *)

Under == {"none", "idle", "posted", "reading", "sleeping"}

(* A call under way has retries left, and only failures worth one behind   *)
(* it; only the attempts made so far can be on the wire or served.         *)
CallInvariant ==
  \A c \in ClientCall :
    /\ rpc[c] \in Under =>
         /\ Len(attempts[c]) <= CallRetries
         /\ \A i \in DOMAIN attempts[c] : attempts[c][i] \in Retryable
    /\ rpc[c] \in {"none", "idle"} => attempts[c] = <<>>
    /\ rpc[c] = "reading" => Latest(c) \in effects[c]

RpcInvariant == ClientTypeOK /\ CallInvariant /\ CallsSound

LEMMA ClientInitHolds == ClientInit => RpcInvariant
<1> SUFFICES ASSUME ClientInit PROVE RpcInvariant
  OBVIOUS
<1>1. ClientTypeOK
  <2>1. attempts \in [ClientCall -> Seq(Retryable \cup Final)]
    BY DEF ClientInit
  <2> QED BY <2>1 DEF ClientInit, ClientTypeOK
<1>2. CallInvariant /\ CallsSound
  BY ClientConstants DEF ClientConstants, ClientInit, CallInvariant, CallsSound,
                         Under, Over, Retryable, Final
<1> QED BY <1>1, <1>2 DEF RpcInvariant

(* An attempt that ends leaves a call that is over with this error, or one *)
(* that backs off with retries left.                                       *)
LEMMA AttemptEndsKeeps ==
  ASSUME NEW c \in ClientCall, RpcInvariant, rpc[c] \in {"posted", "reading"},
         NEW error \in Retryable \cup Final, AttemptEnds(c, error),
         error = "abort" => c \in userAbort,
         error \in {"result", "rpcError"} => Latest(c) \in effects[c],
         UNCHANGED <<userAbort, wire, effects>>
  PROVE  RpcInvariant'
<1> USE ClientConstants DEF ClientConstants
<1>1. attempts[c] \in Seq(Retryable \cup Final) /\ Len(attempts[c]) \in Nat
  BY DEF RpcInvariant, ClientTypeOK
<1>2. /\ attempts' = [attempts EXCEPT ![c] = Append(attempts[c], error)]
      /\ attempts'[c] = Append(attempts[c], error)
      /\ attempts'[c] \in Seq(Retryable \cup Final)
      /\ Len(attempts'[c]) = Len(attempts[c]) + 1
      /\ \A i \in 1 .. Len(attempts[c]) : attempts'[c][i] = attempts[c][i]
      /\ attempts'[c][Len(attempts[c]) + 1] = error
  BY <1>1 DEF AttemptEnds, RpcInvariant, ClientTypeOK
<1>3. /\ rpc' = [rpc EXCEPT ![c] = rpc'[c]]
      /\ rpc'[c] \in {error, "sleeping"}
      /\ rpc'[c] = "sleeping" => Len(attempts[c]) < CallRetries /\ error \in Retryable
  BY <1>1 DEF AttemptEnds, isRetryableError, RpcInvariant, ClientTypeOK, Retryable, Final
<1>4. ClientTypeOK'
  BY <1>2, <1>3 DEF RpcInvariant, ClientTypeOK
<1>5. /\ Len(attempts[c]) <= CallRetries
      /\ \A i \in 1 .. Len(attempts[c]) : attempts[c][i] \in Retryable
  BY <1>1 DEF RpcInvariant, CallInvariant, Under
<1>6. ASSUME NEW d \in ClientCall, d # c
      PROVE  rpc'[d] = rpc[d] /\ attempts'[d] = attempts[d]
  BY <1>2, <1>3, <1>6 DEF RpcInvariant, ClientTypeOK
<1>7. DOMAIN attempts'[c] = 1 .. Len(attempts[c]) + 1
  BY <1>2
<1>8. CallInvariant'
  BY <1>1, <1>2, <1>3, <1>5, <1>6, <1>7
     DEF RpcInvariant, CallInvariant, Under, Retryable, Final, Latest
<1>9. CallsSound'
  BY <1>1, <1>2, <1>3, <1>5, <1>6, <1>7
     DEF RpcInvariant, CallsSound, Over, Under, Retryable, Final, Latest
<1> QED BY <1>4, <1>8, <1>9 DEF RpcInvariant

(* A step that posts a request: the next attempt.                          *)
LEMMA PostingKeeps ==
  ASSUME NEW c \in ClientCall, RpcInvariant, Attempt(c) \/ BackoffOver(c)
  PROVE  RpcInvariant'
<1> USE ClientConstants DEF ClientConstants
<1>1. attempts[c] \in Seq(Retryable \cup Final) /\ Len(attempts[c]) \in Nat
  BY DEF RpcInvariant, ClientTypeOK
<1>2. rpc[c] \in {"idle", "sleeping"} /\ Len(attempts[c]) <= CallRetries
  BY DEF Attempt, BackoffOver, RpcInvariant, CallInvariant, Under
<1>3. UNCHANGED <<attempts, userAbort, effects>>
  BY DEF Attempt, BackoffOver
<1>4. CASE c \in userAbort
  <2>1. rpc' = [rpc EXCEPT ![c] = "abort"] /\ UNCHANGED wire
    BY <1>4 DEF Attempt, BackoffOver
  <2> QED BY <1>1, <1>2, <1>3, <1>4, <2>1
          DEF RpcInvariant, ClientTypeOK, CallInvariant, CallsSound, Over, Under, Retryable, Final, Latest
<1>5. CASE c \notin userAbort
  <2>1. /\ rpc' = [rpc EXCEPT ![c] = "posted"]
        /\ wire' = [wire EXCEPT ![c] = wire[c] \cup {Len(attempts[c]) + 1}]
    BY <1>5 DEF Attempt, BackoffOver
  <2>2. Len(attempts[c]) + 1 \in 1 .. CallRetries + 1
    BY <1>1, <1>2
  <2>3. wire' \in [ClientCall -> SUBSET (1 .. CallRetries + 1)]
    BY <2>1, <2>2 DEF RpcInvariant, ClientTypeOK
  <2>4. ClientTypeOK'
    BY <1>3, <2>1, <2>3 DEF RpcInvariant, ClientTypeOK
  <2>5. CallInvariant'
    BY <1>1, <1>2, <1>3, <2>1 DEF RpcInvariant, ClientTypeOK, CallInvariant, Under, Latest
  <2>6. CallsSound'
    BY <1>1, <1>2, <1>3, <2>1, <2>3 DEF RpcInvariant, ClientTypeOK, CallsSound, Over, Under, Retryable, Final
  <2> QED BY <2>4, <2>5, <2>6 DEF RpcInvariant
<1> QED BY <1>4, <1>5

(* The client's own steps.                                                 *)
LEMMA ClientStepKeeps ==
  ASSUME NEW c \in ClientCall, RpcInvariant, Invoke(c) \/ ClientStep(c) \/ UserAborts(c)
  PROVE  RpcInvariant'
<1>1. CASE Invoke(c)
  BY <1>1 DEF Invoke, RpcInvariant, ClientTypeOK, CallInvariant, CallsSound, Over, Under,
              Retryable, Final, Latest
<1>2. CASE Attempt(c) \/ BackoffOver(c)
  BY <1>2, PostingKeeps
<1>3. CASE FetchFails(c)
  <2>1. PICK error \in classifyFetchError(c) : AttemptEnds(c, error)
    BY <1>3 DEF FetchFails
  <2>2. error \in Retryable \cup Final /\ (error = "abort" => c \in userAbort)
        /\ error \notin {"result", "rpcError"}
    BY DEF classifyFetchError, Retryable, Final
  <2> QED BY <1>3, <2>1, <2>2, AttemptEndsKeeps DEF FetchFails
<1>4. CASE Responds(c)
  <2>1. CASE \E error \in {"busy", "refused"} : AttemptEnds(c, error)
    BY <1>4, <2>1, AttemptEndsKeeps DEF Responds, Retryable, Final
  <2>2. CASE Latest(c) \in effects[c] /\ rpc' = [rpc EXCEPT ![c] = "reading"] /\ UNCHANGED attempts
    BY <1>4, <2>2 DEF Responds, RpcInvariant, ClientTypeOK, CallInvariant, CallsSound, Over, Under,
                      Retryable, Final, Latest
  <2> QED BY <1>4, <2>1, <2>2 DEF Responds
<1>5. CASE BodyRead(c)
  <2>1. Latest(c) \in effects[c]
    BY <1>5 DEF BodyRead, RpcInvariant, CallInvariant
  <2>2. PICK end \in {"result", "rpcError", "undecodable"} : AttemptEnds(c, end)
    BY <1>5 DEF BodyRead
  <2>3. end \in Retryable \cup Final /\ end # "abort"
    BY DEF Retryable, Final
  <2> QED BY <1>5, <2>1, <2>2, <2>3, AttemptEndsKeeps DEF BodyRead
<1>6. CASE UserAborts(c)
  BY <1>6 DEF UserAborts, RpcInvariant, ClientTypeOK, CallInvariant, CallsSound, Over, Under,
              Retryable, Final, Latest
<1> QED BY <1>1, <1>2, <1>3, <1>4, <1>5, <1>6 DEF ClientStep

(* The network and the agent move requests, never invent one.              *)
LEMMA WireKeeps ==
  ASSUME NEW c \in ClientCall, RpcInvariant, AgentServes(c) \/ RequestLost(c)
  PROVE  RpcInvariant'
<1>1. PICK n \in wire[c] : /\ wire' = [wire EXCEPT ![c] = wire[c] \ {n}]
                           /\ \/ effects' = [effects EXCEPT ![c] = effects[c] \cup {n}]
                              \/ effects' = effects
                           /\ UNCHANGED <<rpc, attempts, userAbort>>
  BY DEF AgentServes, RequestLost
<1>2. \A d \in ClientCall : /\ effects[d] \subseteq effects'[d]
                            /\ effects'[d] \cup wire'[d] \subseteq effects[d] \cup wire[d]
  BY <1>1 DEF RpcInvariant, ClientTypeOK
<1>3. ClientTypeOK'
  <2> DEFINE Made == 1 .. CallRetries + 1
  <2>0. wire \in [ClientCall -> SUBSET Made] /\ effects \in [ClientCall -> SUBSET Made]
    BY DEF RpcInvariant, ClientTypeOK
  <2> HIDE DEF Made
  <2>1. effects' \in [ClientCall -> SUBSET Made]
    BY <1>1, <2>0
  <2>2. wire' \in [ClientCall -> SUBSET Made]
    BY <1>1, <2>0
  <2> USE DEF Made
  <2> QED BY <1>1, <2>1, <2>2 DEF RpcInvariant, ClientTypeOK
<1>4. CallInvariant' /\ CallsSound'
  BY <1>1, <1>2 DEF RpcInvariant, CallInvariant, CallsSound, Over, Latest
<1> QED BY <1>3, <1>4 DEF RpcInvariant

LEMMA ClientNextKeeps == RpcInvariant /\ [ClientNext]_clientVars => RpcInvariant'
<1> SUFFICES ASSUME RpcInvariant, [ClientNext]_clientVars PROVE RpcInvariant'
  OBVIOUS
<1>1. CASE ClientNext
  BY <1>1, ClientStepKeeps, WireKeeps DEF ClientNext
<1>2. CASE UNCHANGED clientVars
  BY <1>2 DEF clientVars, RpcInvariant, ClientTypeOK, CallInvariant, CallsSound, Over, Latest
<1> QED BY <1>1, <1>2

(* A result was served, at most maxRetries + 1 requests ever take effect,  *)
(* and the error is that of the last attempt or the caller's own abort     *)
(* (withRetry, executeJSONRPC).                                            *)
THEOREM CallsCorrect == ClientSpec => []CallsSound
<1>1. RpcInvariant => CallsSound
  BY DEF RpcInvariant
<1> QED BY ClientInitHolds, ClientNextKeeps, <1>1, PTL DEF ClientSpec

(* No attempt is made for a call its caller has aborted: neither a first   *)
(* one nor one after the backoff (withRetry).                              *)
THEOREM AbortedCallsRest == ClientSpec => NoAttemptAfterAbort
<1>1. RpcInvariant /\ [ClientNext]_clientVars =>
        [\A c \in userAbort : wire'[c] \subseteq wire[c]]_clientVars
  <2> SUFFICES ASSUME RpcInvariant, ClientNext, NEW d \in userAbort
               PROVE  wire'[d] \subseteq wire[d]
    OBVIOUS
  <2>1. wire \in [ClientCall -> SUBSET (1 .. CallRetries + 1)] /\ d \in ClientCall
    BY DEF RpcInvariant, ClientTypeOK
  <2>2. PICK c \in ClientCall : Invoke(c) \/ ClientStep(c) \/ UserAborts(c) \/ AgentServes(c) \/ RequestLost(c)
    BY DEF ClientNext
  <2>3. CASE UNCHANGED wire
    BY <2>3
  <2>4. CASE Attempt(c) \/ BackoffOver(c)
    BY <2>1, <2>4 DEF Attempt, BackoffOver
  <2>5. CASE AgentServes(c) \/ RequestLost(c)
    BY <2>1, <2>5 DEF AgentServes, RequestLost
  <2> QED BY <2>2, <2>3, <2>4, <2>5 DEF Invoke, UserAborts, ClientStep, FetchFails, Responds, BodyRead
<1> QED BY ClientInitHolds, ClientNextKeeps, <1>1, PTL DEF ClientSpec, NoAttemptAfterAbort
-----------------------------------------------------------------------------
(* The artifact stores                                                     *)

(* A stored file is whole and typed as long as it is held; a removal only  *)
(* takes files that have been stored, and the payload goes first.          *)
FilesCoherent ==
  /\ \A f \in StoredFile :
       /\ storing[f] = "no" => payload[f] = "none"
       /\ storing[f] = "sidecar" => payload[f] # "part"
       /\ storing[f] = "stored" /\ payload[f] # "none" => payload[f] = "whole" /\ typed[f]
  /\ \A f \in removal.left : storing[f] # "no"
  /\ \A f \in removal.half : storing[f] # "no" /\ payload[f] = "none"

(* A promised file was stored, and a type that was not found means that the*)
(* payload had gone before or that the sidecar could not be read.          *)
DownloadCoherent ==
  /\ download.phase = "sized" => provider = "filesystem"
  /\ download.promised =>
       /\ storing[download.file] = "stored"
       /\ download.phase \in {"described", "opening"} =>
            \/ download.typed
            \/ provider = "filesystem" /\ (payload[download.file] = "none" \/ "type" \in download.failed)

StoresInvariant == StoresTypeOK /\ FilesCoherent /\ DownloadCoherent /\ DownloadsTrue

LEMMA StoresInitHolds == StoresInit => StoresInvariant
<1> SUFFICES ASSUME StoresInit PROVE StoresInvariant
  OBVIOUS
<1>1. StoresTypeOK
  BY StoreConstants DEF StoreConstants, StoresInit, StoresTypeOK
<1>2. FilesCoherent
  BY DEF StoresInit, FilesCoherent
<1>3. download.promised = FALSE /\ download.phase = "idle"
  BY DEF StoresInit
<1> QED BY <1>1, <1>2, <1>3 DEF StoresInvariant, DownloadCoherent, DownloadsTrue

LEMMA RemovalOf ==
  ASSUME NEW files \in SUBSET StoredFile, StoresTypeOK
  PROVE  /\ Unlinked(files) \in [StoredFile -> {"none", "part", "whole"}]
         /\ Untyped(files) \in [StoredFile -> BOOLEAN]
         /\ \A f \in StoredFile : Unlinked(files)[f] = IF f \in files THEN "none" ELSE payload[f]
         /\ \A f \in StoredFile : Untyped(files)[f] = IF f \in files THEN FALSE ELSE typed[f]
BY DEF Unlinked, Untyped, StoresTypeOK

(* What a change of the files owes to the download under way: a file that  *)
(* was stored stays stored, and its payload may go but not come back.      *)
FilesShrink ==
  \A f \in StoredFile :
    storing[f] = "stored" =>
      storing'[f] = "stored" /\ (payload'[f] # "none" => payload'[f] = payload[f])

LEMMA FilesKeepDownload ==
  ASSUME StoresInvariant, FilesShrink, closed => closed', UNCHANGED <<provider, download>>
  PROVE  DownloadCoherent' /\ DownloadsTrue'
<1>1. download.file \in StoredFile
  BY DEF StoresInvariant, StoresTypeOK
<1>2. download.promised => storing[download.file] = "stored"
  BY DEF StoresInvariant, DownloadCoherent
<1>3. download.promised => /\ storing'[download.file] = "stored"
                           /\ payload[download.file] = "none" => payload'[download.file] = "none"
  BY <1>1, <1>2 DEF FilesShrink
<1>4. download.promised /\ download.file \notin Held => download.file \notin Held'
  BY <1>1, <1>3 DEF Held
<1> QED BY <1>3, <1>4 DEF StoresInvariant, DownloadCoherent, DownloadsTrue

(* store                                                                   *)
LEMMA StoringKeeps ==
  ASSUME NEW f \in StoredFile, NEW time \in Nat, StoresInvariant,
         StoreWhole(f, time) \/ OpenFile(f, time) \/ StoreStep(f)
  PROVE  StoresInvariant'
<1>1. UNCHANGED <<provider, closed, removal, download>>
  BY DEF StoreWhole, OpenFile, StoreStep, PayloadWritten, SidecarWritten, WriteFails
<1> DEFINE Written ==
      /\ storing' \in [StoredFile -> {"no", "writing", "sidecar", "stored", "failed"}]
      /\ payload' \in [StoredFile -> {"none", "part", "whole"}]
      /\ typed' \in [StoredFile -> BOOLEAN] /\ uploaded' \in [StoredFile -> Nat]
      /\ \A g \in StoredFile \ {f} :
           storing'[g] = storing[g] /\ payload'[g] = payload[g] /\ typed'[g] = typed[g]
      /\ storing[f] # "stored" /\ storing'[f] # "no"
      /\ storing'[f] = "sidecar" => payload'[f] # "part"
      /\ storing'[f] = "stored" /\ payload'[f] # "none" => payload'[f] = "whole" /\ typed'[f]
      /\ storing[f] = "no" \/ (payload[f] = "none" => payload'[f] = "none")
<1>2. Written
  <2>1. CASE StoreWhole(f, time)
    <3>1. PICK end \in {"stored", "failed"} : storing' = [storing EXCEPT ![f] = end]
      BY <2>1 DEF StoreWhole
    <3>2. \/ /\ payload' = [payload EXCEPT ![f] = "whole"]
             /\ typed' = [typed EXCEPT ![f] = TRUE]
             /\ uploaded' = [uploaded EXCEPT ![f] = time]
          \/ storing'[f] = "failed" /\ UNCHANGED <<payload, typed, uploaded>>
      BY <2>1 DEF StoreWhole, StoresInvariant, StoresTypeOK
    <3>3. storing[f] = "no"
      BY <2>1 DEF StoreWhole
    <3>4. storing' \in [StoredFile -> {"no", "writing", "sidecar", "stored", "failed"}] /\ storing'[f] = end
      BY <3>1 DEF StoresInvariant, StoresTypeOK
    <3>5. \A g \in StoredFile \ {f} : storing'[g] = storing[g]
      BY <3>1 DEF StoresInvariant, StoresTypeOK
    <3>6. CASE UNCHANGED <<payload, typed, uploaded>> /\ storing'[f] = "failed"
      BY <3>3, <3>4, <3>5, <3>6 DEF StoresInvariant, StoresTypeOK
    <3>7. CASE /\ payload' = [payload EXCEPT ![f] = "whole"]
               /\ typed' = [typed EXCEPT ![f] = TRUE]
               /\ uploaded' = [uploaded EXCEPT ![f] = time]
      BY <3>3, <3>4, <3>5, <3>7 DEF StoresInvariant, StoresTypeOK
    <3> QED BY <3>2, <3>6, <3>7
  <2>2. CASE OpenFile(f, time)
    BY <2>2 DEF OpenFile, StoresInvariant, StoresTypeOK
  <2>3. CASE PayloadWritten(f)
    BY <2>3 DEF PayloadWritten, StoresInvariant, StoresTypeOK
  <2>4. CASE SidecarWritten(f)
    BY <2>4 DEF SidecarWritten, StoresInvariant, StoresTypeOK, FilesCoherent
  <2>5. CASE WriteFails(f)
    BY <2>5 DEF WriteFails, Unlinked, StoresInvariant, StoresTypeOK
  <2> QED BY <2>1, <2>2, <2>3, <2>4, <2>5 DEF StoreStep
<1>3. FilesShrink
  BY <1>2 DEF FilesShrink
<1>4. FilesCoherent'
  <2>1. removal.left \in SUBSET StoredFile /\ removal.half \in SUBSET StoredFile
    BY DEF StoresInvariant, StoresTypeOK
  <2> QED BY <1>1, <1>2, <2>1 DEF StoresInvariant, FilesCoherent
<1>5. StoresTypeOK'
  BY <1>1, <1>2 DEF StoresInvariant, StoresTypeOK
<1> QED BY <1>1, <1>3, <1>4, <1>5, FilesKeepDownload DEF StoresInvariant

(* delete, the cleanups, the removal they begin, and close                 *)
LEMMA LosingKeeps ==
  ASSUME NEW gone \in SUBSET StoredFile, NEW bare \in SUBSET StoredFile, StoresInvariant,
         payload' = Unlinked(gone), typed' = Untyped(bare),
         \A f \in bare : f \in gone \/ payload[f] = "none",
         UNCHANGED <<provider, storing, uploaded, download>>, closed => closed', closed' \in BOOLEAN,
         NEW left \in SUBSET removal.left, NEW half \in SUBSET StoredFile,
         removal' = [left |-> left, half |-> half],
         \A f \in half : storing[f] # "no" /\ (f \in gone \/ f \in removal.half)
  PROVE  StoresInvariant'
<1>1. removal.left \in SUBSET StoredFile /\ removal.half \in SUBSET StoredFile
  BY DEF StoresInvariant, StoresTypeOK
<1>2. FilesShrink
  BY DEF FilesShrink, Unlinked
<1>3. StoresTypeOK'
  BY <1>1, RemovalOf DEF StoresInvariant, StoresTypeOK
<1>4. FilesCoherent'
  <2>1. \A f \in StoredFile : /\ payload'[f] = IF f \in gone THEN "none" ELSE payload[f]
                              /\ typed'[f] = IF f \in bare THEN FALSE ELSE typed[f]
    BY DEF Unlinked, Untyped
  <2>2. removal'.left = left /\ removal'.half = half
    OBVIOUS
  <2>3. \A f \in left : storing[f] # "no"
    BY DEF StoresInvariant, FilesCoherent
  <2>4. \A f \in half : payload'[f] = "none"
    BY <2>1 DEF StoresInvariant, FilesCoherent
  <2>5. \A f \in StoredFile :
          /\ storing[f] = "no" => payload'[f] = "none"
          /\ storing[f] = "sidecar" => payload'[f] # "part"
          /\ storing[f] = "stored" /\ payload'[f] # "none" => payload'[f] = "whole" /\ typed'[f]
    BY <2>1 DEF StoresInvariant, FilesCoherent
  <2> QED BY <2>2, <2>3, <2>4, <2>5 DEF FilesCoherent
<1> QED BY <1>2, <1>3, <1>4, FilesKeepDownload DEF StoresInvariant

LEMMA KeptAsIs ==
  ASSUME StoresInvariant
  PROVE  /\ payload = Unlinked({}) /\ typed = Untyped({})
         /\ removal = [left |-> removal.left, half |-> removal.half]
BY DEF StoresInvariant, StoresTypeOK, Unlinked, Untyped

LEMMA BeginKeeps ==
  ASSUME NEW files \in SUBSET StoredFile, \A f \in files : storing[f] # "no",
         StoresInvariant, BeginRemoval(files)
  PROVE  StoresInvariant'
<1>1. CASE provider = "memory"
  <2>1. payload' = Unlinked(files) /\ typed' = Untyped(files) /\ UNCHANGED removal
    BY <1>1 DEF BeginRemoval
  <2>2. UNCHANGED <<provider, closed, storing, uploaded, download>> /\ closed' \in BOOLEAN
    BY DEF BeginRemoval, StoresInvariant, StoresTypeOK
  <2>3. removal.half \in SUBSET StoredFile /\ \A f \in removal.half : storing[f] # "no"
    BY DEF StoresInvariant, StoresTypeOK, FilesCoherent
  <2> QED BY <2>1, <2>2, <2>3, KeptAsIs, LosingKeeps
<1>2. CASE provider # "memory"
  <2>1. removal' = [left |-> files, half |-> {}]
    BY <1>2 DEF BeginRemoval
  <2>2. UNCHANGED <<provider, closed, fileVars, download>>
    BY <1>2 DEF BeginRemoval, fileVars
  <2>3. StoresTypeOK'
    BY <2>1, <2>2 DEF StoresInvariant, StoresTypeOK, fileVars
  <2>4. FilesCoherent'
    BY <2>1, <2>2 DEF StoresInvariant, FilesCoherent, fileVars
  <2>5. FilesShrink
    BY <2>2 DEF FilesShrink, fileVars
  <2> QED BY <2>2, <2>3, <2>4, <2>5, FilesKeepDownload DEF StoresInvariant
<1> QED BY <1>1, <1>2

LEMMA RemovalKeeps == StoresInvariant /\ RemovalStep => StoresInvariant'
<1> SUFFICES ASSUME StoresInvariant, RemovalStep PROVE StoresInvariant'
  OBVIOUS
<1>1. removal.left \in SUBSET StoredFile /\ removal.half \in SUBSET StoredFile
  BY DEF StoresInvariant, StoresTypeOK
<1>2. \A f \in removal.left : storing[f] # "no"
  BY DEF StoresInvariant, FilesCoherent
<1>3. \A f \in removal.half : payload[f] = "none"
  BY DEF StoresInvariant, FilesCoherent
<1>4. closed \in BOOLEAN
  BY DEF StoresInvariant, StoresTypeOK
<1>5. ASSUME NEW f \in StoredFile, RemovePayload(f) PROVE StoresInvariant'
  <2> DEFINE bare == IF provider = "s3" THEN {f} ELSE {}
  <2>1. /\ payload' = Unlinked({f}) /\ typed' = Untyped(bare)
        /\ removal' = [left |-> removal.left \ {f}, half |-> {f}]
        /\ f \in removal.left
        /\ UNCHANGED <<provider, closed, storing, uploaded, download>>
    BY <1>5 DEF RemovePayload
  <2>2. bare \in SUBSET {f}
    OBVIOUS
  <2> QED
    BY <1>1, <1>2, <1>4, <2>1, <2>2, LosingKeeps
<1>6. ASSUME NEW f \in StoredFile, RemoveSidecar(f) PROVE StoresInvariant'
  <2>1. /\ typed' = Untyped({f}) /\ payload' = Unlinked({})
        /\ removal' = [left |-> removal.left, half |-> {}]
        /\ f \in removal.half
        /\ UNCHANGED <<provider, closed, storing, uploaded, download>>
    BY <1>6, KeptAsIs DEF RemoveSidecar
  <2> QED
    BY <1>1, <1>3, <1>4, <2>1, LosingKeeps
<1>7. CASE RemovalStops
  <2>1. removal' = [left |-> {}, half |-> {}] /\ payload' = Unlinked({}) /\ typed' = Untyped({})
    BY <1>7, KeptAsIs DEF RemovalStops, fileVars
  <2>2. UNCHANGED <<provider, closed, storing, uploaded, download>>
    BY <1>7 DEF RemovalStops, fileVars
  <2> QED BY <1>4, <2>1, <2>2, LosingKeeps
<1> QED BY <1>5, <1>6, <1>7 DEF RemovalStep

LEMMA CloseKeeps == StoresInvariant /\ close => StoresInvariant'
<1> SUFFICES ASSUME StoresInvariant, close PROVE StoresInvariant'
  OBVIOUS
<1> DEFINE files == IF provider = "memory" THEN StoredFile ELSE {}
<1>1. closed' = TRUE /\ UNCHANGED <<provider, storing, uploaded, removal, download>>
  BY DEF close
<1>2. payload' = Unlinked(files) /\ typed' = Untyped(files)
  BY DEF close
<1>3. /\ files \in SUBSET StoredFile
      /\ \A f \in removal.half : storing[f] # "no"
      /\ removal.half \in SUBSET StoredFile
  BY DEF StoresInvariant, StoresTypeOK, FilesCoherent
<1> HIDE DEF files
<1> QED BY <1>1, <1>2, <1>3, KeptAsIs, LosingKeeps

(* A step of the download keeps the invariant if it keeps what concerns it.*)
LEMMA ReachesKeeps ==
  ASSUME StoresInvariant, UNCHANGED <<provider, closed, fileVars, removal>>,
         download' \in [file : {download.file}, promised : BOOLEAN, typed : BOOLEAN,
                        failed : SUBSET {"find", "type", "body"},
                        phase : {"idle", "sized", "described", "opening", "served", "cutOff", "broken", "notFound"}],
         DownloadCoherent', DownloadsTrue'
  PROVE  StoresInvariant'
<1>1. FilesCoherent'
  BY DEF StoresInvariant, FilesCoherent, fileVars
<1>2. download.file \in StoredFile
  BY DEF StoresInvariant, StoresTypeOK
<1>3. StoresTypeOK'
  BY <1>2 DEF StoresInvariant, StoresTypeOK, fileVars
<1> QED BY <1>1, <1>3 DEF StoresInvariant

(* The download route reads, and what it has read stays true.              *)
LEMMA DownloadKeeps ==
  ASSUME StoresInvariant, DownloadStep \/ GetMetadata
  PROVE  StoresInvariant'
<1>1. UNCHANGED <<provider, closed, fileVars, removal>>
  BY DEF DownloadStep, ReadSidecar, Reaches, Retrieve, ReadBody, GetMetadata
<1>2. Held' = Held
  BY <1>1 DEF Held, fileVars
<1>3. /\ download.file \in StoredFile /\ download.promised \in BOOLEAN /\ download.typed \in BOOLEAN
      /\ download.failed \in SUBSET {"find", "type", "body"}
      /\ typed[download.file] \in BOOLEAN /\ payload[download.file] \in {"none", "part", "whole"}
  BY DEF StoresInvariant, StoresTypeOK
<1>4. download.promised /\ payload[download.file] # "none" =>
        payload[download.file] = "whole" /\ typed[download.file]
  BY <1>3 DEF StoresInvariant, FilesCoherent, DownloadCoherent
<1>5. CASE GetMetadata
  <2> DEFINE f == download.file
  <2>1. PICK failure \in SUBSET {"find"}, phase \in {"sized", "described", "notFound"} :
          /\ download' = [file |-> f, promised |-> storing[f] = "stored" /\ f \in Held,
                          typed |-> phase = "described" /\ typed[f], failed |-> failure, phase |-> phase]
          /\ phase = "sized" => provider = "filesystem"
          /\ phase = "notFound" => closed \/ f \notin Held \/ "find" \in failure
    BY <1>5 DEF GetMetadata
  <2>2. DownloadCoherent'
    BY <1>1, <1>3, <2>1 DEF DownloadCoherent, StoresInvariant, FilesCoherent, Held, fileVars
  <2>3. DownloadsTrue'
    BY <1>1, <1>2, <2>1 DEF DownloadsTrue
  <2> QED BY <1>1, <1>3, <2>1, <2>2, <2>3, ReachesKeeps
<1>6. ASSUME NEW phase \in {"described", "opening", "served", "cutOff", "broken", "notFound"},
             NEW known \in BOOLEAN, NEW failure \in SUBSET {"find", "type", "body"},
             Reaches(phase, known, failure),
             download.promised /\ phase \in {"described", "opening"} =>
               \/ known
               \/ provider = "filesystem" /\ (payload[download.file] = "none"
                                              \/ "type" \in download.failed \cup failure),
             download.promised =>
               CASE phase = "served"   -> known \/ "type" \in download.failed \cup failure
                 [] phase = "cutOff"   -> "body" \in failure
                 [] phase = "broken"   -> download.file \notin Held \/ "body" \in failure
                 [] phase = "notFound" -> closed \/ download.file \notin Held \/ "find" \in failure
                 [] OTHER              -> TRUE
      PROVE  StoresInvariant'
  <2>1. download' = [file |-> download.file, promised |-> download.promised, typed |-> known,
                     failed |-> download.failed \cup failure, phase |-> phase]
    BY <1>6 DEF Reaches
  <2>2. DownloadCoherent'
    BY <1>1, <1>6, <2>1 DEF DownloadCoherent, StoresInvariant, fileVars
  <2>3. DownloadsTrue'
    BY <1>1, <1>2, <1>6, <2>1 DEF DownloadsTrue
  <2> QED BY <1>1, <1>3, <2>1, <2>2, <2>3, ReachesKeeps
<1>7. CASE ReadSidecar
  <2>1. provider = "filesystem"
    BY <1>7 DEF ReadSidecar, StoresInvariant, DownloadCoherent
  <2>2. CASE Reaches("described", typed[download.file], {})
    BY <1>3, <1>4, <1>6, <2>1, <2>2
  <2>3. CASE Reaches("described", FALSE, {"type"})
    BY <1>3, <1>6, <2>1, <2>3
  <2> QED BY <1>7, <2>2, <2>3 DEF ReadSidecar
<1>8. CASE Retrieve
  <2>1. download.phase = "described"
    BY <1>8 DEF Retrieve
  <2>2. download.promised =>
          \/ download.typed
          \/ provider = "filesystem" /\ (payload[download.file] = "none" \/ "type" \in download.failed)
    BY <2>1 DEF StoresInvariant, DownloadCoherent
  <2>3. CASE provider = "memory" /\ Reaches("served", download.typed, {})
    BY <1>3, <1>6, <2>2, <2>3
  <2>4. CASE Reaches("opening", download.typed, {})
    BY <1>3, <1>6, <2>2, <2>4
  <2>5. CASE (closed \/ download.file \notin Held) /\ Reaches("notFound", FALSE, {})
    BY <1>6, <2>5
  <2>6. CASE Reaches("notFound", FALSE, {"find"})
    BY <1>6, <2>6
  <2> QED BY <1>8, <2>3, <2>4, <2>5, <2>6 DEF Retrieve
<1>9. CASE ReadBody
  <2>1. download.phase = "opening"
    BY <1>9 DEF ReadBody
  <2>2. download.promised =>
          \/ download.typed
          \/ provider = "filesystem" /\ (payload[download.file] = "none" \/ "type" \in download.failed)
    BY <2>1 DEF StoresInvariant, DownloadCoherent
  <2>3. CASE payload[download.file] = "none" /\ Reaches("broken", download.typed, {})
    BY <1>3, <1>6, <2>3 DEF Held
  <2>4. CASE payload[download.file] = "part" /\ Reaches("cutOff", download.typed, {})
    BY <1>3, <1>4, <1>6, <2>4
  <2>5. CASE payload[download.file] = "whole" /\ Reaches("served", download.typed, {})
    BY <1>3, <1>6, <2>2, <2>5
  <2>6. CASE provider = "s3" /\ Reaches("served", download.typed, {})
    BY <1>3, <1>6, <2>2, <2>6
  <2>7. ASSUME NEW phase \in {"broken", "cutOff"}, Reaches(phase, download.typed, {"body"})
        PROVE  StoresInvariant'
    BY <1>3, <1>6, <2>7
  <2>8. \/ payload[download.file] = "none" /\ Reaches("broken", download.typed, {})
        \/ payload[download.file] = "part" /\ Reaches("cutOff", download.typed, {})
        \/ payload[download.file] = "whole" /\ Reaches("served", download.typed, {})
        \/ provider = "s3" /\ Reaches("served", download.typed, {})
        \/ \E phase \in {"broken", "cutOff"} : Reaches(phase, download.typed, {"body"})
    BY <1>3, <1>9 DEF ReadBody
  <2> QED BY <2>3, <2>4, <2>5, <2>6, <2>7, <2>8
<1> QED BY <1>5, <1>7, <1>8, <1>9 DEF DownloadStep

LEMMA StoresStay == StoresInvariant /\ [StoresNext]_storeVars => StoresInvariant'
<1> SUFFICES ASSUME StoresInvariant, [StoresNext]_storeVars PROVE StoresInvariant'
  OBVIOUS
<1>1. CASE \E f \in StoredFile, time \in UploadTimes : StoreWhole(f, time) \/ OpenFile(f, time)
  BY <1>1, StoringKeeps, StoreConstants DEF StoreConstants
<1>2. ASSUME NEW f \in StoredFile, StoreStep(f) PROVE StoresInvariant'
  <2>1. 0 \in Nat
    OBVIOUS
  <2> QED BY <1>2, <2>1, StoringKeeps
<1>3. ASSUME NEW f \in StoredFile, delete(f) PROVE StoresInvariant'
  BY <1>3, BeginKeeps DEF delete
<1>4. \A entries \in scan : \A e \in entries : e.key \in StoredFile /\ storing[e.key] # "no"
  BY DEF scan, entriesOf, Held, StoresInvariant, FilesCoherent
<1>5. ASSUME NEW cutoff \in UploadTimes, cleanupExpired(cutoff) PROVE StoresInvariant'
  <2>1. PICK entries \in scan : BeginRemoval({e.key : e \in {d \in entries : d.uploadedAt < cutoff}})
    BY <1>5 DEF cleanupExpired
  <2> DEFINE files == {e.key : e \in {d \in entries : d.uploadedAt < cutoff}}
  <2>2. files \in SUBSET StoredFile /\ \A f \in files : storing[f] # "no"
    BY <1>4
  <2> QED BY <2>1, <2>2, BeginKeeps
<1>6. ASSUME NEW maxCount \in ArtifactCaps, cleanupOldest(maxCount) PROVE StoresInvariant'
  <2>1. PICK entries \in scan : \E stale \in selectEntriesOverArtifactCap(entries, maxCount) :
                                  BeginRemoval({e.key : e \in stale})
    BY <1>6 DEF cleanupOldest
  <2>2. PICK stale \in selectEntriesOverArtifactCap(entries, maxCount) : BeginRemoval({e.key : e \in stale})
    BY <2>1
  <2>3. stale \in SUBSET entries
    BY DEF selectEntriesOverArtifactCap
  <2>4. {e.key : e \in stale} \in SUBSET StoredFile /\ \A f \in {e.key : e \in stale} : storing[f] # "no"
    BY <1>4, <2>3
  <2> QED BY <2>2, <2>4, BeginKeeps
<1>7. CASE RemovalStep \/ close \/ DownloadStep \/ GetMetadata
  BY <1>7, RemovalKeeps, CloseKeeps, DownloadKeeps
<1>8. CASE UNCHANGED storeVars
  BY <1>8 DEF storeVars, fileVars, StoresInvariant, StoresTypeOK, FilesCoherent, DownloadCoherent,
              DownloadsTrue, Held
<1> QED BY <1>1, <1>2, <1>3, <1>5, <1>6, <1>7, <1>8 DEF StoresNext

(* A download of a stored file loses its type, its end or its answer only  *)
(* by what became of the file or by the read of its own that failed, for   *)
(* any files, caps and stores (artifacts-route.ts and the stores).         *)
THEOREM DownloadsCorrect == StoresSpec => []DownloadsTrue
<1>1. StoresInvariant => DownloadsTrue
  BY DEF StoresInvariant
<1> QED BY StoresInitHolds, StoresStay, <1>1, PTL DEF StoresSpec

-----------------------------------------------------------------------------
(* The JSON-RPC server                                                     *)

ItemStates == {"invalid", "running", "notFound", "silent", "result", "error", "internal"}

(* Filtered, one outcome at a time.                                        *)
LEMMA FilteredUnfolds ==
  ASSUME NEW S, NEW s \in Seq(S)
  PROVE  \E f \in [0 .. Len(s) -> Seq(S)] :
           /\ f[0] = <<>> /\ Filtered(s) = f[Len(s)]
           /\ \A k \in 1 .. Len(s) :
                f[k] = IF s[k][2] = "silent" THEN f[k - 1] ELSE Append(f[k - 1], s[k])
<1> DEFINE n == Len(s)
<1>1. n \in Nat /\ DOMAIN s = 1 .. n /\ \A k \in 1 .. n : s[k] \in S
  BY LenProperties, ElementOfSeq
<1> DEFINE step == [p \in Seq(S) \X S |-> IF p[2][2] = "silent" THEN p[1] ELSE Append(p[1], p[2])]
           Folded(it) == it = [w \in SUBSET (1 .. n) |->
                                 IF w = {} THEN <<>>
                                 ELSE IF s[Max(w)][2] = "silent" THEN it[w \ {Max(w)}]
                                      ELSE Append(it[w \ {Max(w)}], s[Max(w)])]
           iter == CHOOSE it : Folded(it)
<1>2. Folded(iter)
  <2>1. step \in [Seq(S) \X S -> Seq(S)]
    BY AppendProperties
  <2>2. <<>> \in Seq(S)
    OBVIOUS
  <2>3. PICK it \in [SUBSET (1 .. n) -> Seq(S)] : Folding(it, <<>>, s, n, step)
    <3> HIDE DEF step, n
    <3> QED BY <1>1, <2>1, <2>2, FoldingExists
  <2>4. ASSUME NEW w \in SUBSET (1 .. n), w # {}
        PROVE  step[<<it[w \ {Max(w)}], s[Max(w)]>>] =
                 IF s[Max(w)][2] = "silent" THEN it[w \ {Max(w)}] ELSE Append(it[w \ {Max(w)}], s[Max(w)])
    <3>1. Max(w) \in 1 .. n
      BY <1>1, <2>4, MaxOfNumbers
    <3>2. s[Max(w)] \in S /\ it[w \ {Max(w)}] \in Seq(S)
      BY <1>1, <2>3, <3>1
    <3> QED BY <3>2
  <2> HIDE DEF step, n
  <2>5. Folded(it)
    BY <2>3, <2>4 DEF Folding
  <2> HIDE DEF Folded
  <2> QED BY <2>5
<1>3. Filtered(s) = iter[1 .. n]
  BY <1>1 DEF Filtered, FoldLeft, MapThenFoldSet
<1> HIDE DEF iter
<1> DEFINE f == [k \in 0 .. n |-> iter[1 .. k]]
<1>4. f[0] = <<>>
  <2>1. 1 .. 0 = {}
    OBVIOUS
  <2> QED BY <1>1, <1>2, <2>1
<1>5. ASSUME NEW k \in 1 .. n
      PROVE  f[k] = IF s[k][2] = "silent" THEN f[k - 1] ELSE Append(f[k - 1], s[k])
  <2>1. /\ 1 .. k \in SUBSET (1 .. n) /\ 1 .. k # {}
        /\ Max(1 .. k) = k /\ (1 .. k) \ {k} = 1 .. (k - 1)
    BY <1>1, LastPosition
  <2>2. iter[1 .. k] = IF s[k][2] = "silent" THEN iter[1 .. (k - 1)] ELSE Append(iter[1 .. (k - 1)], s[k])
    <3> DEFINE w == 1 .. k
    <3>1. iter[w] = IF w = {} THEN <<>>
                    ELSE IF s[Max(w)][2] = "silent" THEN iter[w \ {Max(w)}]
                         ELSE Append(iter[w \ {Max(w)}], s[Max(w)])
      <4> HIDE DEF w
      <4>1. w \in SUBSET (1 .. n)
        BY <2>1 DEF w
      <4> QED BY Zenon, <1>2, <4>1
    <3>2. w # {} /\ Max(w) = k /\ w \ {Max(w)} = 1 .. (k - 1)
      BY <2>1
    <3> QED BY <3>1, <3>2
  <2>3. k - 1 \in 0 .. n /\ k \in 0 .. n
    BY <1>1
  <2> QED BY <2>2, <2>3
<1>6. f[n] = iter[1 .. n]
  BY <1>1
<1>7. f \in [0 .. n -> Seq(S)]
  <2> DEFINE Good == {k \in 0 .. n : f[k] \in Seq(S)}
  <2>1. f = [k \in 0 .. n |-> f[k]]
    OBVIOUS
  <2> HIDE DEF f
  <2>2. 0 \in Good
    <3>1. 0 \in 0 .. n /\ <<>> \in Seq(S)
      BY <1>1
    <3> HIDE DEF n
    <3> QED BY <3>1, <1>4
  <2>3. ASSUME NEW k \in 1 .. n, k - 1 \in Good PROVE k \in Good
    <3>1. k \in 0 .. n /\ s[k] \in S /\ f[k - 1] \in Seq(S)
      BY <1>1, <2>3
    <3>2. Append(f[k - 1], s[k]) \in Seq(S)
      BY <3>1
    <3>3. f[k] = f[k - 1] \/ f[k] = Append(f[k - 1], s[k])
      BY <1>5
    <3> QED BY <3>1, <3>2, <3>3
  <2>4. 0 .. n \subseteq Good
    <3> HIDE DEF Good, n
    <3> QED BY <1>1, <2>2, <2>3, InductionUpTo
  <2> HIDE DEF n
  <2> QED BY <2>1, <2>4
<1> HIDE DEF f
<1> QED BY <1>3, <1>4, <1>5, <1>6, <1>7

(* The answers are of the items that are not silent, in their order.       *)
LEMMA FilteredInOrder ==
  ASSUME NEW items \in Seq(ItemStates)
  PROVE  LET answers == Filtered([i \in DOMAIN items |-> <<i, items[i]>>])
         IN  /\ answers \in Seq(Nat \X ItemStates)
             /\ {Index(answers[j]) : j \in DOMAIN answers} = {i \in DOMAIN items : items[i] # "silent"}
             /\ \A j, k \in DOMAIN answers : j < k => Index(answers[j]) < Index(answers[k])
<1> DEFINE n == Len(items)
           s == [i \in DOMAIN items |-> <<i, items[i]>>]
           S == Nat \X ItemStates
<1>1. n \in Nat /\ DOMAIN items = 1 .. n /\ \A i \in 1 .. n : items[i] \in ItemStates
  OBVIOUS
<1>2. s \in Seq(S) /\ Len(s) = n /\ \A i \in 1 .. n : s[i] = <<i, items[i]>>
  BY <1>1
<1> HIDE DEF s
<1>3. PICK f \in [0 .. n -> Seq(S)] :
         /\ f[0] = <<>> /\ Filtered(s) = f[n]
         /\ \A k \in 1 .. n : f[k] = IF s[k][2] = "silent" THEN f[k - 1] ELSE Append(f[k - 1], s[k])
  <2> HIDE DEF S, n
  <2>1. \E f \in [0 .. Len(s) -> Seq(S)] :
         /\ f[0] = <<>> /\ Filtered(s) = f[Len(s)]
         /\ \A k \in 1 .. Len(s) : f[k] = IF s[k][2] = "silent" THEN f[k - 1] ELSE Append(f[k - 1], s[k])
    BY <1>2, FilteredUnfolds
  <2> QED BY <1>2, <2>1
<1> DEFINE Told(g, k) ==
             /\ \A j \in 1 .. Len(g) : g[j][1] \in 1 .. k /\ items[g[j][1]] # "silent"
             /\ \A i \in 1 .. k : items[i] # "silent" => \E j \in 1 .. Len(g) : g[j][1] = i
             /\ \A j, l \in 1 .. Len(g) : j < l => g[j][1] < g[l][1]
           Good == {k \in 0 .. n : Told(f[k], k)}
<1>4. 0 \in Good
  <2>1. Told(<<>>, 0)
    OBVIOUS
  <2>2. 0 \in 0 .. n
    BY <1>1
  <2> HIDE DEF Told, n
  <2> QED BY <1>3, <2>1, <2>2
<1>5. ASSUME NEW k \in 1 .. n, k - 1 \in Good PROVE k \in Good
  <2> DEFINE g == f[k - 1]
  <2>1. k \in 0 .. n /\ k \in Nat /\ k - 1 \in 0 .. n /\ g \in Seq(S) /\ Len(g) \in Nat
    BY <1>1, <1>3
  <2>2. Told(g, k - 1)
    BY <1>5
  <2>3. s[k] = <<k, items[k]>> /\ s[k][2] = items[k]
    BY <1>2
  <2> HIDE DEF g
  <2>4. CASE items[k] = "silent"
    <3>1. f[k] = g
      BY <1>3, <2>3, <2>4 DEF g
    <3>2. \A j \in 1 .. Len(g) : g[j][1] \in 1 .. k /\ items[g[j][1]] # "silent"
      BY <1>1, <2>1, <2>2
    <3>3. ASSUME NEW i \in 1 .. k, items[i] # "silent" PROVE \E j \in 1 .. Len(g) : g[j][1] = i
      <4>1. i \in 1 .. k - 1
        BY <2>1, <2>4, <3>3
      <4> QED BY <2>2, <3>3, <4>1
    <3>4. Told(g, k)
      BY <2>2, <3>2, <3>3
    <3> QED BY <2>1, <3>1, <3>4
  <2>5. CASE items[k] # "silent"
    <3>1. f[k] = Append(g, <<k, items[k]>>)
      BY <1>3, <2>3, <2>5 DEF g
    <3>2. <<k, items[k]>> \in S
      BY <1>1, <2>1
    <3>3. /\ Len(Append(g, <<k, items[k]>>)) = Len(g) + 1
          /\ \A j \in 1 .. Len(g) : Append(g, <<k, items[k]>>)[j] = g[j]
          /\ Append(g, <<k, items[k]>>)[Len(g) + 1] = <<k, items[k]>>
      BY <2>1, <3>2
    <3> DEFINE h == Append(g, <<k, items[k]>>)
    <3> HIDE DEF h
    <3>4. \A j \in 1 .. Len(h) : j \in 1 .. Len(g) \/ j = Len(g) + 1
      BY <2>1, <3>3 DEF h
    <3>5. \A j \in 1 .. Len(h) : h[j][1] \in 1 .. k /\ items[h[j][1]] # "silent"
      BY <2>1, <2>2, <2>5, <3>3, <3>4 DEF h
    <3>6. \A i \in 1 .. k : items[i] # "silent" => \E j \in 1 .. Len(h) : h[j][1] = i
      <4> SUFFICES ASSUME NEW i \in 1 .. k, items[i] # "silent" PROVE \E j \in 1 .. Len(h) : h[j][1] = i
        OBVIOUS
      <4>1. CASE i = k
        <5>1. Len(g) + 1 \in 1 .. Len(h)
          BY <2>1, <3>3 DEF h
        <5> QED BY <3>3, <4>1, <5>1 DEF h
      <4>2. CASE i # k
        <5>1. i \in 1 .. k - 1
          BY <2>1, <4>2
        <5>2. PICK j \in 1 .. Len(g) : g[j][1] = i
          BY <2>2, <5>1
        <5> QED BY <2>1, <3>3, <5>2 DEF h
      <4> QED BY <4>1, <4>2
    <3>7. \A j, l \in 1 .. Len(h) : j < l => h[j][1] < h[l][1]
      <4> SUFFICES ASSUME NEW j \in 1 .. Len(h), NEW l \in 1 .. Len(h), j < l PROVE h[j][1] < h[l][1]
        OBVIOUS
      <4>1. j \in 1 .. Len(g) /\ h[j][1] = g[j][1] /\ g[j][1] \in 1 .. k - 1
        BY <2>1, <2>2, <3>3, <3>4 DEF h
      <4>2. CASE l \in 1 .. Len(g)
        BY <2>1, <2>2, <3>3, <4>1, <4>2 DEF h
      <4>3. CASE l = Len(g) + 1
        BY <2>1, <3>3, <4>1, <4>3 DEF h
      <4> QED BY <3>4, <4>2, <4>3
    <3>8. Told(h, k)
      BY <3>5, <3>6, <3>7
    <3> HIDE DEF Told
    <3> QED BY <2>1, <3>1, <3>8 DEF h
  <2> QED BY <2>4, <2>5
<1> HIDE DEF Good
<1>6. 0 .. n \subseteq Good
  <2> HIDE DEF n
  <2> QED BY <1>1, <1>4, <1>5, InductionUpTo
<1>7. Told(f[n], n) /\ f[n] \in Seq(S)
  <2>1. n \in 0 .. n
    BY <1>1
  <2> HIDE DEF Told, n, S
  <2> QED BY <1>3, <1>6, <2>1 DEF Good
<1> DEFINE answers == f[n]
<1>8. DOMAIN answers = 1 .. Len(answers)
  BY <1>7
<1> HIDE DEF answers
<1>9. {Index(answers[j]) : j \in DOMAIN answers} = {i \in DOMAIN items : items[i] # "silent"}
  <2>1. /\ \A j \in DOMAIN answers : Index(answers[j]) \in DOMAIN items /\ items[Index(answers[j])] # "silent"
        /\ \A i \in DOMAIN items : items[i] # "silent" => \E j \in DOMAIN answers : Index(answers[j]) = i
    BY <1>1, <1>7, <1>8 DEF answers, Index
  <2> QED BY <2>1
<1>10. \A j, k \in DOMAIN answers : j < k => Index(answers[j]) < Index(answers[k])
  BY <1>7, <1>8 DEF answers, Index
<1>11. answers \in Seq(S) /\ Filtered(s) = answers
  BY <1>3, <1>7 DEF answers
<1> QED BY <1>9, <1>10, <1>11 DEF s

Replies == Seq({"versionNotSupported", "error", "parseError", "invalid"}) \cup Seq(Nat \X ItemStates)
ExchangePhases == {"arrived", "authenticated", "running", "streaming", "answered"}
Exchanges == [phase : ExchangePhases, body : Bodies, credentials : BOOLEAN, version : BOOLEAN,
              items : Seq(ItemStates), answers : Replies, status : Nat]

ToBeAnswered(item) == item.hasId \/ item.form # "good"
Admitted(e) == e.version /\ (AuthEnabled => e.credentials)

(* Items are set up when the request is dispatched, one for each item of   *)
(* the body; a settled one is silent just when no answer is due.           *)
Served(e) ==
  /\ e.phase \in {"arrived", "authenticated", "streaming"} => e.items = <<>>
  /\ e.phase = "authenticated" => (AuthEnabled => e.credentials)
  /\ e.items # <<>> \/ e.phase = "streaming" => Admitted(e)
  /\ e.items # <<>> => DOMAIN e.items = DOMAIN e.body.items
  /\ \A i \in DOMAIN e.items :
       IF e.items[i] = "running" THEN e.body.items[i].form = "good"
       ELSE e.items[i] # "silent" <=> ToBeAnswered(e.body.items[i])
  /\ e.phase = "answered" /\ e.items # <<>> =>
       /\ {Index(e.answers[i]) : i \in DOMAIN e.answers}
            = {i \in DOMAIN e.body.items : ToBeAnswered(e.body.items[i])}
       /\ \A i, j \in DOMAIN e.answers : i < j => Index(e.answers[i]) < Index(e.answers[j])
       /\ e.status = IF {i \in DOMAIN e.body.items : ToBeAnswered(e.body.items[i])} = {} THEN 204 ELSE 200

ExchangeInvariant ==
  /\ exchange \in [Exchange -> Exchanges \cup {Unused}]
  /\ \A x \in Exchange : exchange[x] # Unused => Served(exchange[x])

LEMMA ActiveExchanges ==
  ASSUME NEW e \in Exchanges \cup {Unused}
  PROVE  /\ e # Unused <=> e \in Exchanges
         /\ e \in Exchanges <=> e.phase \in ExchangePhases
BY DEF Exchanges, Unused, ExchangePhases

LEMMA ItemsOfBodies ==
  ASSUME NEW body \in Bodies
  PROVE  /\ body.items \in Seq(ToSet(body.items)) /\ DOMAIN body.items = 1 .. Len(body.items)
         /\ \A i \in DOMAIN body.items : body.items[i].hasId \in BOOLEAN
<1>1. body.items \in Seq(ToSet(body.items)) /\ \A item \in ToSet(body.items) : item.hasId \in BOOLEAN
  BY ServerConstants DEF ServerConstants
<1>2. \A i \in DOMAIN body.items : body.items[i] \in ToSet(body.items)
  BY DEF ToSet
<1> QED BY <1>1, <1>2

(* One exchange goes on and stays as it should be; the others wait.        *)
LEMMA OneExchange ==
  ASSUME ExchangeInvariant, NEW x \in Exchange, NEW e \in Exchanges, Served(e),
         exchange' = [exchange EXCEPT ![x] = e]
  PROVE  ExchangeInvariant'
<1>1. exchange' \in [Exchange -> Exchanges \cup {Unused}]
  BY DEF ExchangeInvariant
<1>2. ASSUME NEW y \in Exchange, exchange'[y] # Unused PROVE Served(exchange'[y])
  BY <1>2 DEF ExchangeInvariant
<1> QED BY <1>1, <1>2 DEF ExchangeInvariant

LEMMA ArrivesKeeps ==
  ASSUME ExchangeInvariant, NEW x \in Exchange, NEW body \in Bodies, NEW credentials \in BOOLEAN,
         NEW version \in BOOLEAN, Arrives(x, body, credentials, version)
  PROVE  ExchangeInvariant'
<1> DEFINE e == [phase |-> "arrived", body |-> body, credentials |-> credentials, version |-> version,
                 items |-> <<>>, answers |-> <<>>, status |-> 0]
<1>1. <<>> \in Seq(ItemStates) /\ <<>> \in Replies
  BY DEF Replies
<1>2. e \in Exchanges
  BY <1>1 DEF Exchanges, ExchangePhases
<1>3. Served(e)
  BY DEF Served
<1>4. exchange' = [exchange EXCEPT ![x] = e]
  BY DEF Arrives
<1> QED BY <1>2, <1>3, <1>4, OneExchange

(* An answer given before any item was dispatched.                         *)
LEMMA AnsweredEarly ==
  ASSUME ExchangeInvariant, NEW x \in Exchange, exchange[x] \in Exchanges, exchange[x].items = <<>>,
         NEW status \in Nat, NEW answers \in Replies
  PROVE  Answered(x, status, answers) \in Exchanges /\ Served(Answered(x, status, answers))
<1> DEFINE e == Answered(x, status, answers)
<1>1. /\ e \in Exchanges /\ e.phase = "answered" /\ e.items = <<>>
  BY DEF Answered, Exchanges, ExchangePhases
<1>2. \A i : i \notin DOMAIN <<>>
  OBVIOUS
<1> HIDE DEF e
<1>3. Served(e)
  BY <1>1, <1>2 DEF Served
<1> QED BY <1>1, <1>3 DEF e

LEMMA AuthenticatesKeeps ==
  ASSUME ExchangeInvariant, NEW x \in Exchange, exchange[x] \in Exchanges, Served(exchange[x]), Authenticates(x)
  PROVE  ExchangeInvariant'
<1>1. exchange[x].phase = "arrived" /\ exchange[x].items = <<>>
  BY DEF Authenticates, Served
<1>2. CASE AuthEnabled /\ ~exchange[x].credentials
  <2>1. exchange' = [exchange EXCEPT ![x] = Answered(x, 401, <<>>)]
    BY <1>2 DEF Authenticates
  <2>2. <<>> \in Replies /\ 401 \in Nat
    BY DEF Replies
  <2>3. Answered(x, 401, <<>>) \in Exchanges /\ Served(Answered(x, 401, <<>>))
    BY <1>1, <2>2, AnsweredEarly
  <2> QED BY <2>1, <2>3, OneExchange
<1>3. CASE ~(AuthEnabled /\ ~exchange[x].credentials)
  <2> DEFINE e == [exchange[x] EXCEPT !.phase = "authenticated"]
  <2>1. exchange' = [exchange EXCEPT ![x] = e]
    BY <1>3 DEF Authenticates
  <2>2. /\ e \in Exchanges /\ e.phase = "authenticated" /\ e.items = <<>>
        /\ AuthEnabled => e.credentials
    BY <1>1, <1>3, ServerConstants DEF Exchanges, ExchangePhases, ServerConstants
  <2>3. \A i : i \notin DOMAIN <<>>
    OBVIOUS
  <2> HIDE DEF e
  <2>4. Served(e)
    BY <2>2, <2>3 DEF Served
  <2> QED BY <2>1, <2>2, <2>4, OneExchange
<1> QED BY <1>2, <1>3

LEMMA DispatchesKeeps ==
  ASSUME ExchangeInvariant, NEW x \in Exchange, exchange[x] \in Exchanges, Served(exchange[x]), Dispatches(x)
  PROVE  ExchangeInvariant'
<1> DEFINE body == exchange[x].body
<1>1. /\ exchange[x].phase = "authenticated" /\ exchange[x].items = <<>>
      /\ AuthEnabled => exchange[x].credentials
      /\ body \in Bodies
  BY DEF Dispatches, Served, Exchanges
<1>2. \A problem \in {"versionNotSupported", "error", "parseError", "invalid"} : <<problem>> \in Replies
  BY DEF Replies
<1>3. \A problem \in {"versionNotSupported", "error", "parseError", "invalid"} :
        Answered(x, 200, <<problem>>) \in Exchanges /\ Served(Answered(x, 200, <<problem>>))
  BY <1>1, <1>2, AnsweredEarly
<1>4. CASE \E problem \in {"versionNotSupported", "error", "parseError", "invalid"} :
             exchange' = [exchange EXCEPT ![x] = Answered(x, 200, <<problem>>)]
  <2>1. PICK problem \in {"versionNotSupported", "error", "parseError", "invalid"} :
             exchange' = [exchange EXCEPT ![x] = Answered(x, 200, <<problem>>)]
    BY <1>4
  <2> DEFINE e == Answered(x, 200, <<problem>>)
  <2>2. e \in Exchanges /\ Served(e) /\ exchange' = [exchange EXCEPT ![x] = e]
    BY <1>3, <2>1
  <2> HIDE DEF e
  <2> QED BY <2>2, OneExchange
<1>5. CASE exchange[x].version /\ exchange' = [exchange EXCEPT ![x] = [exchange[x] EXCEPT !.phase = "streaming"]]
  <2> DEFINE e == [exchange[x] EXCEPT !.phase = "streaming"]
  <2>1. e \in Exchanges /\ e.phase = "streaming" /\ e.items = <<>> /\ Admitted(e)
    BY <1>1, <1>5 DEF Exchanges, ExchangePhases, Admitted
  <2>2. \A i : i \notin DOMAIN <<>>
    OBVIOUS
  <2> HIDE DEF e
  <2>3. Served(e)
    BY <2>1, <2>2 DEF Served
  <2> QED BY <1>5, <2>1, <2>3, OneExchange DEF e
<1>6. CASE /\ exchange[x].version
           /\ exchange' = [exchange EXCEPT ![x] =
                [exchange[x] EXCEPT !.phase = "running",
                   !.items = [i \in DOMAIN body.items |-> dispatchSingle(body.items[i])]]]
  <2> DEFINE items == [i \in DOMAIN body.items |-> dispatchSingle(body.items[i])]
             e == [exchange[x] EXCEPT !.phase = "running", !.items = items]
  <2>1. DOMAIN body.items = 1 .. Len(body.items) /\ Len(body.items) \in Nat
        /\ \A i \in DOMAIN body.items : body.items[i].hasId \in BOOLEAN
    BY <1>1, ItemsOfBodies
  <2>2. \A i \in DOMAIN body.items :
          /\ dispatchSingle(body.items[i]) \in ItemStates
          /\ IF dispatchSingle(body.items[i]) = "running" THEN body.items[i].form = "good"
             ELSE dispatchSingle(body.items[i]) # "silent" <=> ToBeAnswered(body.items[i])
    BY <2>1 DEF dispatchSingle, ItemStates, ToBeAnswered
  <2>3. items \in Seq(ItemStates) /\ DOMAIN items = DOMAIN body.items
    BY <2>1, <2>2
  <2>4. \A i \in DOMAIN items : IF items[i] = "running" THEN body.items[i].form = "good"
                                 ELSE items[i] # "silent" <=> ToBeAnswered(body.items[i])
    BY <2>2
  <2> HIDE DEF items
  <2>5. /\ e \in Exchanges /\ e.phase = "running" /\ e.items = items /\ e.body = body
        /\ Admitted(e)
    BY <1>1, <1>6, <2>3 DEF Exchanges, ExchangePhases, Admitted
  <2> HIDE DEF e
  <2>6. Served(e)
    <3> HIDE DEF body
    <3> QED BY <2>3, <2>4, <2>5 DEF Served
  <2> QED BY <1>6, <2>5, <2>6, OneExchange DEF e, items
<1>7. exchange[x].version \in BOOLEAN
  BY DEF Exchanges
<1> QED BY <1>4, <1>5, <1>6, <1>7 DEF Dispatches

LEMMA HandlerEndsKeeps ==
  ASSUME ExchangeInvariant, NEW x \in Exchange, exchange[x] \in Exchanges, Served(exchange[x]),
         NEW i \in DOMAIN exchange[x].items, HandlerEnds(x, i)
  PROVE  ExchangeInvariant'
<1> DEFINE items == exchange[x].items
           body == exchange[x].body
<1>1. PICK outcome \in {"result", "error", "internal"} :
        exchange' = [exchange EXCEPT ![x].items[i] = Outcome(body.items[i], outcome)]
  BY DEF HandlerEnds
<1>2. /\ exchange[x].phase = "running" /\ items[i] = "running" /\ items \in Seq(ItemStates)
      /\ body \in Bodies /\ i \in DOMAIN items /\ items # <<>> /\ DOMAIN items = DOMAIN body.items
  BY DEF HandlerEnds, Exchanges, Served
<1>3. body.items[i].hasId \in BOOLEAN
  BY <1>2, ItemsOfBodies
<1> DEFINE o == Outcome(body.items[i], outcome)
<1>4. o \in ItemStates /\ o # "running" /\ (o # "silent" <=> ToBeAnswered(body.items[i]))
  BY <1>2, <1>3 DEF Outcome, ItemStates, ToBeAnswered, Served
<1> HIDE DEF o
<1> DEFINE e == [exchange[x] EXCEPT !.items[i] = o]
<1>5. /\ e \in Exchanges /\ e.phase = "running" /\ e.body = body /\ Admitted(e)
      /\ e.items = [items EXCEPT ![i] = o] /\ DOMAIN e.items = DOMAIN items /\ e.items # <<>>
  <2>1. [items EXCEPT ![i] = o] \in Seq(ItemStates) /\ DOMAIN [items EXCEPT ![i] = o] = DOMAIN items
        /\ [items EXCEPT ![i] = o] # <<>>
    BY <1>2, <1>4
  <2>2. Admitted(exchange[x])
    BY <1>2 DEF Served
  <2> QED BY <1>2, <2>1, <2>2 DEF Exchanges, Admitted
<1>6. \A k \in DOMAIN items : IF items[k] = "running" THEN body.items[k].form = "good"
                              ELSE items[k] # "silent" <=> ToBeAnswered(body.items[k])
  BY DEF Served
<1>7. \A k \in DOMAIN e.items : IF e.items[k] = "running" THEN body.items[k].form = "good"
                                ELSE e.items[k] # "silent" <=> ToBeAnswered(body.items[k])
  BY <1>2, <1>4, <1>5, <1>6
<1>8. exchange' = [exchange EXCEPT ![x] = e]
  BY <1>1 DEF o, ExchangeInvariant
<1> HIDE DEF e, items, body
<1>9. Served(e)
  BY <1>2, <1>5, <1>7 DEF Served
<1> QED BY <1>5, <1>8, <1>9, OneExchange

LEMMA RespondedKeeps ==
  ASSUME ExchangeInvariant, NEW x \in Exchange, exchange[x] \in Exchanges, Served(exchange[x]), Responded(x)
  PROVE  ExchangeInvariant'
<1> DEFINE items == exchange[x].items
           body == exchange[x].body
           answers == Answers(x)
           due == {i \in DOMAIN body.items : ToBeAnswered(body.items[i])}
           e == Answered(x, IF answers = <<>> THEN 204 ELSE 200, answers)
<1>1. /\ items \in Seq(ItemStates) /\ exchange[x].phase = "running"
      /\ \A i \in DOMAIN items : items[i] # "running"
  BY DEF Responded, Exchanges
<1>2. /\ answers \in Seq(Nat \X ItemStates)
      /\ {Index(answers[j]) : j \in DOMAIN answers} = {i \in DOMAIN items : items[i] # "silent"}
      /\ \A j, k \in DOMAIN answers : j < k => Index(answers[j]) < Index(answers[k])
  BY <1>1, FilteredInOrder DEF Answers
<1> HIDE DEF answers
<1>3. /\ e \in Exchanges /\ e.phase = "answered" /\ e.items = items /\ e.body = body
      /\ e.answers = answers /\ e.status = IF answers = <<>> THEN 204 ELSE 200
      /\ Admitted(exchange[x]) => Admitted(e)
  <2>1. answers \in Replies
    BY <1>2 DEF Replies
  <2> DEFINE status == IF answers = <<>> THEN 204 ELSE 200
  <2>2. status \in Nat /\ e = Answered(x, status, answers)
    OBVIOUS
  <2> HIDE DEF e, status
  <2>3. e = [exchange[x] EXCEPT !.phase = "answered", !.status = status, !.answers = answers]
    BY <2>2 DEF Answered
  <2>4. "answered" \in ExchangePhases
    BY DEF ExchangePhases
  <2>5. e \in Exchanges
    BY <2>1, <2>2, <2>3, <2>4 DEF Exchanges
  <2>6. /\ e.phase = "answered" /\ e.items = items /\ e.body = body
        /\ e.answers = answers /\ e.status = status
        /\ e.version = exchange[x].version /\ e.credentials = exchange[x].credentials
    BY <2>3 DEF Exchanges
  <2> QED BY <2>5, <2>6 DEF Admitted, status
<1>4. exchange' = [exchange EXCEPT ![x] = e]
  BY DEF Responded, answers
<1> HIDE DEF e
<1>5. ASSUME items # <<>>
      PROVE  /\ {Index(answers[j]) : j \in DOMAIN answers} = due
             /\ answers = <<>> <=> due = {}
  <2>1. DOMAIN items = DOMAIN body.items
        /\ \A i \in DOMAIN items : items[i] # "silent" <=> ToBeAnswered(body.items[i])
    BY <1>1, <1>5 DEF Served
  <2>2. {Index(answers[j]) : j \in DOMAIN answers} = due
    BY <1>2, <2>1
  <2>3. answers = <<>> <=> DOMAIN answers = {}
    BY <1>2
  <2> HIDE DEF due
  <2> QED BY <2>2, <2>3
<1>6. \A i \in DOMAIN items : IF items[i] = "running" THEN body.items[i].form = "good"
                              ELSE items[i] # "silent" <=> ToBeAnswered(body.items[i])
  BY DEF Served
<1>7. items # <<>> => DOMAIN items = DOMAIN body.items /\ Admitted(e)
  BY <1>3 DEF Served
<1> HIDE DEF items, body
<1>8. Served(e)
  <2>1. /\ e.phase = "answered" /\ e.items = items /\ e.body = body
        /\ e.answers = answers /\ e.status = IF answers = <<>> THEN 204 ELSE 200
    BY <1>3
  <2>2. items # <<>> => e.status = IF due = {} THEN 204 ELSE 200
    BY <1>5, <2>1
  <2>3. items # <<>> => {Index(answers[j]) : j \in DOMAIN answers} = due
    BY <1>5
  <2>4. e.items # <<>> => Admitted(e) /\ DOMAIN e.items = DOMAIN e.body.items
    BY <1>7, <2>1
  <2>5. \A i \in DOMAIN e.items :
          IF e.items[i] = "running" THEN e.body.items[i].form = "good"
          ELSE e.items[i] # "silent" <=> ToBeAnswered(e.body.items[i])
    BY <1>6, <2>1
  <2>6. e.items # <<>> =>
          /\ {Index(e.answers[i]) : i \in DOMAIN e.answers}
               = {i \in DOMAIN e.body.items : ToBeAnswered(e.body.items[i])}
          /\ \A i, j \in DOMAIN e.answers : i < j => Index(e.answers[i]) < Index(e.answers[j])
          /\ e.status = IF {i \in DOMAIN e.body.items : ToBeAnswered(e.body.items[i])} = {} THEN 204 ELSE 200
    BY <1>2, <2>1, <2>2, <2>3
  <2>7. e.phase = "answered"
    BY <2>1
  <2> QED BY <2>4, <2>5, <2>6, <2>7 DEF Served
<1>9. e \in Exchanges
  BY <1>3
<1> QED BY <1>4, <1>8, <1>9, OneExchange

LEMMA StreamEndsKeeps ==
  ASSUME ExchangeInvariant, NEW x \in Exchange, exchange[x] \in Exchanges, Served(exchange[x]), StreamEnds(x)
  PROVE  ExchangeInvariant'
<1> DEFINE e == [exchange[x] EXCEPT !.phase = "answered", !.status = 200]
<1>1. exchange[x].phase = "streaming" /\ exchange[x].items = <<>>
  BY DEF StreamEnds, Served
<1>2. e \in Exchanges /\ e.phase = "answered" /\ e.items = <<>>
  <2>1. "answered" \in ExchangePhases /\ 200 \in Nat
    BY DEF ExchangePhases
  <2>2. ASSUME NEW r \in Exchanges
        PROVE  LET s == [r EXCEPT !.phase = "answered", !.status = 200]
               IN  s \in Exchanges /\ s.phase = "answered" /\ s.items = r.items
    BY <2>1 DEF Exchanges
  <2> QED BY <1>1, <2>2
<1>3. exchange' = [exchange EXCEPT ![x] = e]
  BY DEF StreamEnds, ExchangeInvariant
<1>4. \A i : i \notin DOMAIN <<>>
  OBVIOUS
<1> HIDE DEF e
<1>5. Served(e)
  BY <1>2, <1>4 DEF Served
<1> QED BY <1>2, <1>3, <1>5, OneExchange

LEMMA ExchangesStay == ExchangeInvariant /\ [RpcServerNext]_rpcServerVars => ExchangeInvariant'
<1> SUFFICES ASSUME ExchangeInvariant, [RpcServerNext]_rpcServerVars PROVE ExchangeInvariant'
  OBVIOUS
<1>1. CASE UNCHANGED exchange
  BY <1>1 DEF ExchangeInvariant
<1>2. CASE \E m \in Methods : Register(m) \/ unregisterMethod(m)
  BY <1>1, <1>2 DEF Register, unregisterMethod
<1>3. CASE \E x \in Exchange, body \in Bodies, credentials, version \in BOOLEAN :
             Arrives(x, body, credentials, version)
  BY <1>3, ArrivesKeeps
<1>4. CASE \E x \in Active : Serve(x)
  <2>1. PICK x \in Active : Serve(x)
    BY <1>4
  <2>2. x \in Exchange /\ exchange[x] \in Exchanges /\ Served(exchange[x])
    BY <2>1, ActiveExchanges DEF Active, ExchangeInvariant
  <2> QED BY <2>1, <2>2, AuthenticatesKeeps, DispatchesKeeps, HandlerEndsKeeps, RespondedKeeps,
             StreamEndsKeeps DEF Serve
<1>5. CASE UNCHANGED rpcServerVars
  BY <1>1, <1>5 DEF rpcServerVars
<1> QED BY <1>2, <1>3, <1>4, <1>5 DEF RpcServerNext

LEMMA ExchangeInitHolds == RpcServerInit => ExchangeInvariant
BY DEF RpcServerInit, ExchangeInvariant

LEMMA ExchangesMatch == ExchangeInvariant => AnswersMatch
<1> SUFFICES ASSUME ExchangeInvariant, NEW x \in Active
             PROVE  LET items == exchange[x].body.items
                        answers == exchange[x].answers
                        toBeAnswered == {i \in DOMAIN items : items[i].hasId \/ items[i].form # "good"}
                    IN  /\ exchange[x].items # <<>> \/ exchange[x].phase = "streaming" =>
                             exchange[x].version /\ (AuthEnabled => exchange[x].credentials)
                        /\ exchange[x].phase = "answered" /\ exchange[x].items # <<>> =>
                             /\ {Index(answers[i]) : i \in DOMAIN answers} = toBeAnswered
                             /\ \A i, j \in DOMAIN answers : i < j => Index(answers[i]) < Index(answers[j])
                             /\ exchange[x].status = IF toBeAnswered = {} THEN 204 ELSE 200
  BY DEF AnswersMatch
<1>1. Served(exchange[x])
  BY DEF ExchangeInvariant, Active
<1> QED BY <1>1 DEF Served, Admitted, ToBeAnswered

(* A batch is answered in its order, just where an answer is due, and no   *)
(* item is run without credentials or for an unsupported version.          *)
THEOREM AnswersInOrder == RpcServerSpec => []AnswersMatch
BY ExchangeInitHolds, ExchangesStay, ExchangesMatch, PTL DEF RpcServerSpec

-----------------------------------------------------------------------------
(* Retention and the listing of tasks                                      *)

Precedes(time, ids) ==
  {p \in ids \X ids : time[p[1]] < time[p[2]] \/ (time[p[1]] = time[p[2]] /\ p[1] < p[2])}

LEMMA PrecedesIs ==
  ASSUME NEW ids \in SUBSET Nat, NEW time \in [ids -> Nat]
  PROVE  /\ StrictlyOrders(Precedes(time, ids), ids)
         /\ \A a, b \in ids : <<a, b>> \in Precedes(time, ids) <=>
              time[a] < time[b] \/ (time[a] = time[b] /\ a < b)
<1>1. \A a, b \in ids : <<a, b>> \in Precedes(time, ids) <=>
              time[a] < time[b] \/ (time[a] = time[b] /\ a < b)
  BY DEF Precedes
<1>2. \A a \in ids : a \in Nat /\ time[a] \in Nat
  OBVIOUS
<1>3. \A a \in ids : ~(<<a, a>> \in Precedes(time, ids))
  BY <1>1, <1>2
<1>4. \A a, b \in ids : a # b => <<a, b>> \in Precedes(time, ids) \/ <<b, a>> \in Precedes(time, ids)
  BY <1>1, <1>2
<1>5. \A a, b, c \in ids : <<a, b>> \in Precedes(time, ids) /\ <<b, c>> \in Precedes(time, ids)
                            => <<a, c>> \in Precedes(time, ids)
  BY <1>1, <1>2
<1> QED BY <1>1, <1>3, <1>4, <1>5 DEF StrictlyOrders

LEMMA SortedByIs ==
  ASSUME NEW ids \in SUBSET Nat, IsFiniteSet(ids), NEW time \in [ids -> Nat]
  PROVE  /\ SortedBy(time, ids) \in SetToSeqs(ids)
         /\ \A i, j \in DOMAIN SortedBy(time, ids) :
              i < j => <<SortedBy(time, ids)[i], SortedBy(time, ids)[j]>> \in Precedes(time, ids)
<1> DEFINE Sorts(s) == \A i, j \in DOMAIN s :
                         i < j => time[s[i]] < time[s[j]] \/ (time[s[i]] = time[s[j]] /\ s[i] < s[j])
<1>1. ASSUME NEW s \in SetToSeqs(ids)
      PROVE  Sorts(s) <=> \A i, j \in DOMAIN s : i < j => <<s[i], s[j]>> \in Precedes(time, ids)
  <2>1. \A i \in DOMAIN s : s[i] \in ids
    BY DEF SetToSeqs
  <2> QED BY <2>1, PrecedesIs
<1>2. \E s \in SetToSeqs(ids) : \A i, j \in DOMAIN s : i < j => <<s[i], s[j]>> \in Precedes(time, ids)
  BY PrecedesIs, SortedExists
<1>3. \E s \in SetToSeqs(ids) : Sorts(s)
  BY <1>1, <1>2
<1>4. SortedBy(time, ids) = CHOOSE s \in SetToSeqs(ids) : Sorts(s)
  BY DEF SortedBy
<1> HIDE DEF Sorts
<1>5. SortedBy(time, ids) \in SetToSeqs(ids) /\ Sorts(SortedBy(time, ids))
  BY <1>3, <1>4
<1> QED BY <1>1, <1>5

(* A bucket loses just the tasks with a cap of newer ones beside them.     *)
LEMMA OverflowIs ==
  ASSUME NEW ids \in SUBSET Nat, IsFiniteSet(ids), \A id \in ids : stock[id].completed \in Nat,
         NEW cap \in Int \cup {Unset}
  PROVE  Overflow(ids, cap) =
           {id \in ids : /\ cap # Unset /\ cap >= 0
                         /\ Cardinality({n \in ids : Newer(n, id)}) >= cap}
<1>1. CASE cap = Unset \/ cap < 0
  <2>1. Overflow(ids, cap) = {}
    BY <1>1 DEF Overflow
  <2>2. ASSUME NEW id \in ids, cap # Unset, cap >= 0 PROVE FALSE
    BY <1>1, <2>2
  <2> QED BY <2>1, <2>2
<1>2. CASE ~(cap = Unset \/ cap < 0)
  <2> DEFINE time == [id \in ids |-> stock[id].completed]
             s == OldestFirst(ids)
             R == Precedes(time, ids)
             n == Cardinality(ids)
             newer(id) == {m \in ids : Newer(m, id)}
  <2>1. cap \in Nat /\ cap # Unset /\ n \in Nat
    BY <1>2, FS_CardinalityType
  <2>2. time \in [ids -> Nat]
    OBVIOUS
  <2>3. s \in SetToSeqs(ids) /\ \A i, j \in DOMAIN s : i < j => <<s[i], s[j]>> \in R
    BY <2>2, SortedByIs DEF OldestFirst
  <2>4. StrictlyOrders(R, ids) /\ \A a, b \in ids : <<a, b>> \in R <=> Newer(b, a)
    <3>1. \A a \in ids : time[a] = stock[a].completed
      OBVIOUS
    <3> HIDE DEF time
    <3>2. /\ StrictlyOrders(R, ids)
          /\ \A a, b \in ids : <<a, b>> \in R <=> time[a] < time[b] \/ (time[a] = time[b] /\ a < b)
      BY <2>2, PrecedesIs
    <3> QED BY <3>1, <3>2 DEF Newer
  <2> HIDE DEF s, R, time
  <2>5. /\ DOMAIN s = 1 .. n /\ Len(s) = n /\ s \in Seq(ids)
        /\ \A x \in ids : \E i \in 1 .. n : s[i] = x
        /\ \A i, j \in 1 .. n : s[i] = s[j] => i = j
    BY <2>3, SeqsCover
  <2>6. \A k \in 1 .. n : Cardinality(newer(s[k])) = n - k
    <3> SUFFICES ASSUME NEW k \in 1 .. n PROVE Cardinality(newer(s[k])) = n - k
      OBVIOUS
    <3>1. Cardinality({y \in ids : <<s[k], y>> \in R}) = n - k
      BY <2>3, <2>4, RankFromAbove
    <3>2. s[k] \in ids
      BY <2>5
    <3>3. newer(s[k]) = {y \in ids : <<s[k], y>> \in R}
      BY <2>4, <3>2
    <3> QED BY <3>1, <3>3
  <2> HIDE DEF newer, n
  <2>7. Overflow(ids, cap) = {id \in ids : Cardinality(newer(id)) >= cap}
    <3>1. CASE n <= cap
      <4>1. Overflow(ids, cap) = {}
        BY <3>1 DEF Overflow, n
      <4>2. ASSUME NEW id \in ids, Cardinality(newer(id)) >= cap PROVE FALSE
        <5>1. PICK k \in 1 .. n : s[k] = id
          BY <2>5
        <5>2. Cardinality(newer(id)) = n - k
          BY <2>6, <5>1
        <5> QED BY <2>1, <3>1, <4>2, <5>2
      <4> QED BY <4>1, <4>2
    <3>2. CASE ~(n <= cap)
      <4>1. Overflow(ids, cap) = ToSet(SubSeq(s, 1, n - cap))
        BY <1>2, <3>2 DEF Overflow, n, s
      <4>2. /\ SubSeq(s, 1, n - cap) \in Seq(ids) /\ Len(SubSeq(s, 1, n - cap)) = n - cap
            /\ \A k \in 1 .. n - cap : SubSeq(s, 1, n - cap)[k] = s[k]
        BY <2>1, <2>5, <3>2
      <4>3. ToSet(SubSeq(s, 1, n - cap)) = {s[k] : k \in 1 .. n - cap}
        <5> DEFINE p == SubSeq(s, 1, n - cap)
        <5> HIDE DEF p
        <5>1. p \in Seq(ids)
          BY <4>2 DEF p
        <5>2. ToSet(p) = {p[k] : k \in 1 .. Len(p)}
          BY <5>1, Elements
        <5>3. ToSet(SubSeq(s, 1, n - cap)) =
                {SubSeq(s, 1, n - cap)[k] : k \in 1 .. Len(SubSeq(s, 1, n - cap))}
          BY <5>2 DEF p
        <5> QED BY <4>2, <5>3
      <4>4. \A k \in 1 .. n : k \in 1 .. n - cap <=> Cardinality(newer(s[k])) >= cap
        BY <2>1, <2>6
      <4>5. \A k \in 1 .. n - cap : k \in 1 .. n /\ s[k] \in ids
        BY <2>1, <2>5
      <4>6. ASSUME NEW id \in ids PROVE id \in Overflow(ids, cap) <=> Cardinality(newer(id)) >= cap
        <5>1. PICK k \in 1 .. n : s[k] = id
          BY <2>5
        <5>2. id \in Overflow(ids, cap) <=> \E m \in 1 .. n - cap : s[m] = id
          BY <4>1, <4>3
        <5>3. id \in Overflow(ids, cap) <=> k \in 1 .. n - cap
          BY <2>5, <4>5, <5>1, <5>2
        <5> QED BY <4>4, <5>1, <5>3
      <4>7. Overflow(ids, cap) \subseteq ids
        BY <4>1, <4>3, <4>5
      <4> QED BY <4>6, <4>7
    <3> QED BY <3>1, <3>2
  <2> QED BY <2>1, <2>7 DEF newer
<1> QED BY <1>1, <1>2

Tasks == [state : States, created : Times, completed : Times] \cup {Unborn, Gone}

StockSound == stock \in [Ids -> Tasks] /\ IsFiniteSet(Present)

LEMMA TaskFields ==
  ASSUME NEW t \in Tasks
  PROVE  /\ t.state \in States \cup {"unborn", "gone"}
         /\ t.state \in States => t.created \in Times /\ t.completed \in Times
         /\ t = Unborn <=> t.state = "unborn"
         /\ t = Gone <=> t.state = "gone"
BY DEF Tasks, Unborn, Gone, States

LEMMA SweepExact == StockSound => EvictionExact
<1> SUFFICES ASSUME StockSound, NEW completedCap \in Caps, NEW failedCap \in Caps
             PROVE  selectTasksForEviction(completedCap, failedCap) =
               {id \in Bucket({"COMPLETED"}) :
                  /\ completedCap # Unset /\ completedCap >= 0
                  /\ Cardinality({n \in Bucket({"COMPLETED"}) : Newer(n, id)}) >= completedCap}
               \cup
               {id \in Bucket({"FAILED"}) :
                  /\ failedCap # Unset /\ failedCap >= 0
                  /\ Cardinality({n \in Bucket({"FAILED"}) : Newer(n, id)}) >= failedCap}
  BY DEF EvictionExact
<1>1. completedCap \in Int \cup {Unset} /\ failedCap \in Int \cup {Unset} /\ Ids \subseteq Nat /\ Times \subseteq Nat
  BY ListingConstants DEF ListingConstants
<1>2. ASSUME NEW states \in SUBSET States
      PROVE  /\ Bucket(states) \in SUBSET Nat /\ IsFiniteSet(Bucket(states))
             /\ \A id \in Bucket(states) : stock[id].completed \in Nat
  <2>1. Bucket(states) \in SUBSET Present
    BY DEF Bucket, Present
  <2>2. IsFiniteSet(Bucket(states))
    BY <2>1, FS_Subset DEF StockSound
  <2>3. \A id \in Bucket(states) : stock[id] \in Tasks /\ stock[id].state \in States
    BY DEF Bucket, StockSound
  <2> QED BY <1>1, <2>2, <2>3, TaskFields DEF Bucket
<1>3. {"COMPLETED"} \in SUBSET States /\ {"FAILED"} \in SUBSET States
  BY DEF States
<1> QED BY <1>1, <1>2, <1>3, OverflowIs DEF selectTasksForEviction

(* The cap on artifacts.                                                   *)
LEMMA NewestIs ==
  ASSUME NEW entries \in Scans, NEW e \in entries
  PROVE  /\ newestByArtifact(e.artifactId, entries) \in Ages(e.artifactId, entries)
         /\ newestByArtifact(e.artifactId, entries) \in Nat
         /\ e.uploadedAt <= newestByArtifact(e.artifactId, entries)
<1> DEFINE T == Ages(e.artifactId, entries)
           times == [d \in entries |-> d.uploadedAt]
           all == {d.uploadedAt : d \in entries}
<1>1. IsFiniteSet(entries) /\ \A d \in entries : d.uploadedAt \in Nat
  BY StoreConstants DEF StoreConstants
<1>2. times \in Surjection(entries, all)
  BY DEF Surjection
<1>3. IsFiniteSet(all) /\ T \in SUBSET all /\ e.uploadedAt \in T /\ all \subseteq Nat
  BY <1>1, <1>2, FS_Surjection DEF Ages
<1>4. IsFiniteSet(T) /\ T \subseteq Nat /\ T # {}
  BY <1>3, FS_Subset
<1> HIDE DEF T
<1>5. \E t \in T : \A u \in T : u <= t
  BY <1>4, GreatestNumber
<1>6. newestByArtifact(e.artifactId, entries) = CHOOSE t \in T : \A u \in T : u <= t
  BY DEF newestByArtifact, T
<1> QED BY <1>3, <1>4, <1>5, <1>6 DEF T

LEMMA CleanupExact == CapExact
<1> SUFFICES ASSUME NEW entries \in Scans, NEW maxCount \in ArtifactCaps,
                    NEW gone \in selectEntriesOverArtifactCap(entries, maxCount)
             PROVE  LET artifacts(es) == {e.artifactId : e \in es}
                        kept == entries \ gone
                    IN  IF maxCount <= 0 \/ Cardinality(artifacts(entries)) <= maxCount THEN gone = {}
                        ELSE /\ Cardinality(artifacts(kept)) = maxCount
                             /\ artifacts(kept) \cap artifacts(gone) = {}
                             /\ \A old \in gone, a \in artifacts(kept) :
                                  \E e \in kept : e.artifactId = a /\ old.uploadedAt <= e.uploadedAt
  BY DEF CapExact
<1>0. PICK s \in NewestFirst(entries) :
             gone = LET keep == IF maxCount < Len(s) THEN ToSet(SubSeq(s, 1, maxCount)) ELSE ToSet(s)
                    IN  {e \in entries : maxCount > 0 /\ e.artifactId \notin keep}
  BY DEF selectEntriesOverArtifactCap
<1> DEFINE A == {e.artifactId : e \in entries}
           n == Cardinality(A)
           kept == entries \ gone
           keep == ToSet(SubSeq(s, 1, maxCount))
<1>1. maxCount \in Int /\ IsFiniteSet(entries)
  BY StoreConstants DEF StoreConstants
<1>2. IsFiniteSet(A)
  <2> DEFINE owner == [e \in entries |-> e.artifactId]
  <2>1. owner \in Surjection(entries, A)
    BY DEF Surjection
  <2> QED BY <1>1, <2>1, FS_Surjection
<1>3. s \in SetToSeqs(A)
  BY DEF NewestFirst
<1>4. \A i, j \in DOMAIN s : i < j => newestByArtifact(s[j], entries) <= newestByArtifact(s[i], entries)
  BY DEF NewestFirst
<1> HIDE DEF A
<1>5. /\ n \in Nat /\ DOMAIN s = 1 .. n /\ Len(s) = n /\ s \in Seq(A) /\ ToSet(s) = A
      /\ \A a \in A : \E i \in 1 .. n : s[i] = a
      /\ \A i, j \in 1 .. n : s[i] = s[j] => i = j
  BY <1>2, <1>3, SeqsCover
<1>6. CASE maxCount <= 0 \/ n <= maxCount
  <2>1. gone = {}
    BY <1>0, <1>1, <1>5, <1>6 DEF A
  <2> QED BY <1>6, <2>1 DEF A
<1>7. CASE ~(maxCount <= 0 \/ n <= maxCount)
  <2>1. maxCount \in Nat /\ 0 < maxCount /\ maxCount < n
    BY <1>1, <1>5, <1>7
  <2>2. gone = {e \in entries : e.artifactId \notin keep} /\ kept = {e \in entries : e.artifactId \in keep}
    BY <1>0, <1>5, <2>1
  <2>3. /\ SubSeq(s, 1, maxCount) \in Seq(A) /\ Len(SubSeq(s, 1, maxCount)) = maxCount
        /\ \A k \in 1 .. maxCount : SubSeq(s, 1, maxCount)[k] = s[k] /\ k \in 1 .. n
    BY <1>5, <2>1
  <2>4. keep = {s[k] : k \in 1 .. maxCount} /\ keep \subseteq A
    <3> DEFINE p == SubSeq(s, 1, maxCount)
    <3> HIDE DEF p
    <3>1. ToSet(p) = {p[k] : k \in 1 .. Len(p)} /\ ToSet(p) \subseteq A
      BY <2>3, Elements DEF p
    <3> QED BY <2>3, <3>1 DEF p
  <2>5. Cardinality(keep) = maxCount
    <3> DEFINE p == SubSeq(s, 1, maxCount)
    <3>1. p \in Seq(A) /\ Len(p) = maxCount /\ \A k, m \in 1 .. Len(p) : p[k] = p[m] => k = m
      BY <1>5, <2>3
    <3> QED BY <3>1, OnceEach
  <2> HIDE DEF keep, kept
  <2>6. {e.artifactId : e \in kept} = keep
    BY <2>2, <2>4 DEF A
  <2>7. {e.artifactId : e \in kept} \cap {e.artifactId : e \in gone} = {}
    BY <2>2
  <2>8. ASSUME NEW old \in gone, NEW a \in keep
        PROVE  \E e \in kept : e.artifactId = a /\ old.uploadedAt <= e.uploadedAt
    <3>1. PICK i \in 1 .. maxCount : s[i] = a
      BY <2>4
    <3>2. old \in entries /\ old.artifactId \in A /\ old.artifactId \notin keep
      BY <2>2 DEF A
    <3>3. PICK j \in 1 .. n : s[j] = old.artifactId
      BY <1>5, <3>2
    <3>4. i \in 1 .. n /\ i < j
      <4>1. j \notin 1 .. maxCount
        BY <2>4, <3>2, <3>3
      <4>2. j \in Nat /\ i \in Nat /\ n \in Nat
        BY <1>5
      <4> QED BY <2>1, <4>1, <4>2
    <3>5. newestByArtifact(old.artifactId, entries) <= newestByArtifact(a, entries)
      BY <1>4, <1>5, <3>1, <3>3, <3>4
    <3>6. PICK d \in entries : d.artifactId = a
      BY <2>4 DEF A
    <3>7. /\ newestByArtifact(a, entries) \in Ages(a, entries) /\ newestByArtifact(a, entries) \in Nat
          /\ newestByArtifact(old.artifactId, entries) \in Nat
          /\ old.uploadedAt <= newestByArtifact(old.artifactId, entries)
      BY <3>2, <3>6, NewestIs
    <3>8. PICK e \in entries : e.artifactId = a /\ e.uploadedAt = newestByArtifact(a, entries)
      BY <3>7 DEF Ages
    <3>9. e \in kept /\ old.uploadedAt \in Nat
      BY <2>2, <3>2, <3>8, StoreConstants DEF StoreConstants
    <3> QED BY <3>5, <3>7, <3>8, <3>9
  <2> QED BY <1>7, <2>5, <2>6, <2>7, <2>8 DEF A, kept
<1> QED BY <1>6, <1>7

Ahead(cursor, id) == cursor = Unset \/ compareKey(cursor, Key(id))

Walks == [phase : {"open", "done"}, filter : Filters, pageSize : PageSizes,
          cursor : {Unset} \cup Times \X Ids, got : Seq(Ids), owed : SUBSET Ids]

(* While the walk is open, what it owes is returned already or lies past   *)
(* the cursor, where nothing returned does.                                *)
WalkSound ==
  /\ walk.phase \in {"idle", "open", "done"}
  /\ walk.phase # "idle" =>
       /\ walk \in Walks
       /\ \A i, j \in 1 .. Len(walk.got) : walk.got[i] = walk.got[j] => i = j
       /\ \A i \in 1 .. Len(walk.got) : stock[walk.got[i]].state # "unborn"
       /\ walk.phase = "done" => walk.owed \subseteq ToSet(walk.got)
  /\ walk.phase = "open" =>
       /\ walk.cursor = Unset => walk.got = <<>>
       /\ walk.owed \subseteq Matching(stock, walk.filter)
       /\ \A i \in 1 .. Len(walk.got) :
            stock[walk.got[i]].state \in States => ~Ahead(walk.cursor, walk.got[i])
       /\ \A id \in walk.owed : id \in ToSet(walk.got) \/ Ahead(walk.cursor, id)

ListingInvariant == StockSound /\ WalkSound

LEMMA ListingInitHolds == ListingInit => ListingInvariant
<1> SUFFICES ASSUME ListingInit PROVE ListingInvariant
  OBVIOUS
<1>1. stock \in [Ids -> Tasks] /\ \A id \in Ids : stock[id].state = "unborn"
  BY DEF ListingInit, Tasks, Unborn
<1>2. Present = {}
  BY <1>1 DEF Present, States
<1>3. StockSound
  BY <1>1, <1>2, FS_EmptySet DEF StockSound
<1>4. walk.phase = "idle"
  BY DEF ListingInit
<1> QED BY <1>3, <1>4 DEF ListingInvariant, WalkSound

(* A task keeps its place in the list for as long as it is stored, and it  *)
(* does not come back.                                                     *)
LEMMA ChangesKeep ==
  ASSUME ListingInvariant, NEW tasks \in [Ids -> Tasks], Changes(tasks),
         IsFiniteSet({id \in Ids : tasks[id].state \in States}),
         \A id \in Ids : stock[id].state # "unborn" => tasks[id].state # "unborn",
         \A id \in Ids : stock[id].state = "gone" => tasks[id].state = "gone",
         \A id \in Ids : stock[id].state \in States /\ tasks[id].state \in States
                           => tasks[id].created = stock[id].created
  PROVE  ListingInvariant'
<1>1. stock' = tasks /\ walk' = Owed(tasks)
  BY DEF Changes
<1>2. StockSound'
  BY <1>1 DEF StockSound, Present
<1>3. CASE walk.phase # "open"
  <2>1. walk' = walk
    BY <1>1, <1>3 DEF Owed
  <2>2. walk.phase # "idle" => \A i \in 1 .. Len(walk.got) : walk.got[i] \in Ids
    BY DEF ListingInvariant, WalkSound, Walks
  <2> QED BY <1>1, <1>2, <1>3, <2>1, <2>2 DEF ListingInvariant, WalkSound
<1>4. CASE walk.phase = "open"
  <2> DEFINE owed == {id \in Matching(tasks, walk.filter) :
                        \/ id \in walk.owed
                        \/ /\ id \notin Matching(stock, walk.filter)
                           /\ walk.cursor = Unset \/ compareKey(walk.cursor, <<tasks[id].created, id>>)}
  <2>1. walk' = [walk EXCEPT !.owed = owed]
    BY <1>1, <1>4 DEF Owed
  <2>2. /\ walk \in Walks /\ walk.got \in Seq(Ids)
        /\ \A i \in 1 .. Len(walk.got) : walk.got[i] \in Ids /\ stock[walk.got[i]].state # "unborn"
        /\ \A i, j \in 1 .. Len(walk.got) : walk.got[i] = walk.got[j] => i = j
        /\ walk.cursor = Unset => walk.got = <<>>
        /\ walk.owed \subseteq Matching(stock, walk.filter)
        /\ \A i \in 1 .. Len(walk.got) :
             stock[walk.got[i]].state \in States => ~Ahead(walk.cursor, walk.got[i])
        /\ \A id \in walk.owed : id \in ToSet(walk.got) \/ Ahead(walk.cursor, id)
    BY <1>4 DEF ListingInvariant, WalkSound, Walks
  <2>3. owed \in SUBSET Ids /\ owed \subseteq Matching(tasks, walk.filter)
    BY DEF Matching
  <2> HIDE DEF owed
  <2>4. /\ walk' \in Walks /\ walk'.phase = "open" /\ walk'.filter = walk.filter
        /\ walk'.cursor = walk.cursor /\ walk'.got = walk.got /\ walk'.owed = owed
    BY <1>4, <2>1, <2>2, <2>3 DEF Walks
  <2>5. \A id \in Ids : Ahead(walk.cursor, id)' <=>
          walk.cursor = Unset \/ compareKey(walk.cursor, <<tasks[id].created, id>>)
    BY <1>1, <2>4 DEF Ahead, Key
  <2>6. ASSUME NEW id \in Ids, stock[id].state \in States, tasks[id].state \in States
        PROVE  Ahead(walk.cursor, id)' <=> Ahead(walk.cursor, id)
    BY <2>5, <2>6 DEF Ahead, Key
  <2>7. ASSUME NEW i \in 1 .. Len(walk.got)
        PROVE  /\ tasks[walk.got[i]].state # "unborn"
               /\ tasks[walk.got[i]].state \in States => ~Ahead(walk.cursor, walk.got[i])'
    <3>1. walk.got[i] \in Ids /\ stock[walk.got[i]].state # "unborn"
      BY <2>2
    <3>2. tasks[walk.got[i]].state \in States => stock[walk.got[i]].state \in States
      <4>1. stock[walk.got[i]] \in Tasks /\ stock[walk.got[i]].state \in States \cup {"unborn", "gone"}
        BY <3>1, TaskFields DEF ListingInvariant, StockSound
      <4> QED BY <3>1, <4>1 DEF States
    <3> QED BY <2>2, <2>4, <2>6, <3>1, <3>2
  <2>8. ASSUME NEW id \in owed PROVE id \in ToSet(walk.got) \/ Ahead(walk.cursor, id)'
    <3>1. id \in Ids /\ tasks[id].state \in States
      BY <2>3 DEF Matching
    <3>2. CASE id \in walk.owed
      <4>1. stock[id].state \in States
        BY <2>2, <3>2 DEF Matching
      <4> QED BY <2>2, <2>6, <3>1, <3>2, <4>1
    <3>3. CASE id \notin walk.owed
      BY <2>5, <3>1, <3>3 DEF owed
    <3> QED BY <3>2, <3>3
  <2>9. WalkSound'
    BY <1>1, <2>2, <2>3, <2>4, <2>7, <2>8 DEF WalkSound
  <2> QED BY <1>2, <2>9 DEF ListingInvariant
<1> QED BY <1>3, <1>4

(* The list is cut at the cursor: what lies past it, and nothing else, is  *)
(* at or after the index that findCursorStartIndex returns.                *)
LEMMA ListIs ==
  ASSUME StockSound, NEW filter, NEW cursor \in {Unset} \cup Times \X Ids
  PROVE  LET all == listTasks(filter)
             n == Cardinality(Matching(stock, filter))
             start == findCursorStartIndex(all, cursor)
         IN  /\ n \in Nat /\ all \in Seq(Matching(stock, filter)) /\ Len(all) = n
             /\ \A id \in Matching(stock, filter) : \E i \in 1 .. n : all[i] = id
             /\ \A i, j \in 1 .. n : all[i] = all[j] => i = j
             /\ \A i, j \in 1 .. n : i < j <=> compareKey(Key(all[i]), Key(all[j]))
             /\ start \in 1 .. n + 1
             /\ \A i \in 1 .. n : start <= i <=> Ahead(cursor, all[i])
<1> DEFINE M == Matching(stock, filter)
           time == [id \in M |-> stock[id].created]
           all == listTasks(filter)
           n == Cardinality(M)
           start == findCursorStartIndex(all, cursor)
<1>1. Ids \subseteq Nat /\ Times \subseteq Nat
  BY ListingConstants DEF ListingConstants
<1>2. M \in SUBSET Present /\ M \in SUBSET Ids
  BY DEF Matching, Present
<1>3. IsFiniteSet(M)
  BY <1>2, FS_Subset DEF StockSound
<1>4. \A id \in M : id \in Nat /\ stock[id].created \in Times /\ stock[id].created \in Nat
  <2>1. \A id \in M : stock[id] \in Tasks /\ stock[id].state \in States
    BY <1>2 DEF StockSound, Present
  <2> QED BY <1>1, <1>2, <2>1, TaskFields
<1>5. time \in [M -> Nat] /\ \A id \in M : time[id] = stock[id].created
  BY <1>4
<1>6. all = SortedBy(time, M)
  BY DEF listTasks
<1> HIDE DEF M, time, all
<1>7. all \in SetToSeqs(M) /\ \A i, j \in DOMAIN all : i < j => <<all[i], all[j]>> \in Precedes(time, M)
  BY <1>1, <1>2, <1>3, <1>5, <1>6, SortedByIs
<1>8. /\ n \in Nat /\ DOMAIN all = 1 .. n /\ Len(all) = n /\ all \in Seq(M)
      /\ \A x \in M : \E i \in 1 .. n : all[i] = x
      /\ \A i, j \in 1 .. n : all[i] = all[j] => i = j
  BY <1>3, <1>7, SeqsCover
<1> HIDE DEF n
<1>9. \A i \in 1 .. n : all[i] \in M /\ all[i] \in Nat /\ stock[all[i]].created \in Nat
  BY <1>4, <1>8
<1>10. \A i, j \in 1 .. n : i < j => compareKey(Key(all[i]), Key(all[j]))
  <2> SUFFICES ASSUME NEW i \in 1 .. n, NEW j \in 1 .. n, i < j
               PROVE  compareKey(Key(all[i]), Key(all[j]))
    OBVIOUS
  <2>1. <<all[i], all[j]>> \in Precedes(time, M) /\ all[i] \in M /\ all[j] \in M
    BY <1>7, <1>8, <1>9
  <2>2. time[all[i]] < time[all[j]] \/ (time[all[i]] = time[all[j]] /\ all[i] < all[j])
    BY <2>1 DEF Precedes
  <2> QED BY <1>5, <2>1, <2>2 DEF compareKey, Key
<1>11. \A i, j \in 1 .. n : i < j <=> compareKey(Key(all[i]), Key(all[j]))
  <2> SUFFICES ASSUME NEW i \in 1 .. n, NEW j \in 1 .. n, ~(i < j), compareKey(Key(all[i]), Key(all[j]))
               PROVE  FALSE
    BY <1>10
  <2>1. i = j \/ compareKey(Key(all[j]), Key(all[i]))
    BY <1>8, <1>10
  <2> QED BY <1>9, <2>1 DEF compareKey, Key
<1>12. start \in 1 .. n + 1 /\ \A i \in 1 .. n : start <= i <=> Ahead(cursor, all[i])
  <2>1. CASE cursor = Unset
    BY <1>8, <2>1 DEF findCursorStartIndex, Ahead
  <2>2. CASE cursor # Unset
    <3> DEFINE after == {i \in 1 .. n : compareKey(cursor, Key(all[i]))}
    <3>1. start = IF after = {} THEN Len(all) + 1 ELSE CHOOSE i \in after : \A j \in after : i <= j
      BY <1>8, <2>2 DEF findCursorStartIndex
    <3>2. PICK t \in Times, d \in Ids : cursor = <<t, d>>
      BY <2>2
    <3>3. t \in Nat /\ d \in Nat
      BY <1>1
    <3>4. ASSUME NEW i \in after, NEW j \in 1 .. n, i <= j PROVE j \in after
      <4>1. i = j \/ compareKey(Key(all[i]), Key(all[j]))
        BY <1>8, <1>10, <3>4
      <4>2. compareKey(cursor, Key(all[i])) /\ i \in 1 .. n
        OBVIOUS
      <4>3. compareKey(cursor, Key(all[j]))
        BY <1>9, <3>2, <3>3, <4>1, <4>2 DEF compareKey, Key
      <4> QED BY <4>3
    <3>5. \A i \in 1 .. n : Ahead(cursor, all[i]) <=> i \in after
      BY <2>2 DEF Ahead
    <3>6. after \subseteq 1 .. n
      OBVIOUS
    <3> HIDE DEF after
    <3>7. CASE after = {}
      BY <1>8, <3>1, <3>5, <3>7
    <3>8. CASE after # {}
      <4>1. \E i \in after : \A j \in after : i <= j
        <5>1. after \subseteq Nat
          BY <1>8, <3>6
        <5> QED BY <3>8, <5>1, LeastNumber
      <4>2. start = CHOOSE i \in after : \A j \in after : i <= j
        BY <3>1, <3>8
      <4> HIDE DEF start
      <4>3. start \in after /\ \A j \in after : start <= j
        BY <4>1, <4>2
      <4>4. start \in 1 .. n /\ start \in 1 .. n + 1
        BY <1>8, <3>6, <4>3
      <4>5. \A i \in 1 .. n : start <= i <=> i \in after
        BY <3>4, <4>3, <4>4
      <4> QED BY <3>5, <4>4, <4>5
    <3> QED BY <3>7, <3>8
  <2> QED BY <2>1, <2>2
<1> QED BY <1>8, <1>11, <1>12 DEF M, n, all

(* A page takes what lies past the cursor, in order and without a gap.     *)
LEMMA PageKeeps == ListingInvariant /\ Page => ListingInvariant'
<1> SUFFICES ASSUME ListingInvariant, Page PROVE ListingInvariant'
  OBVIOUS
<1> DEFINE M == Matching(stock, walk.filter)
           all == listTasks(walk.filter)
           n == Cardinality(M)
           start == findCursorStartIndex(all, walk.cursor)
           end == start + walk.pageSize - 1
           last == IF end < n THEN end ELSE n
           m == last - start + 1
           page == SubSeq(all, start, last)
           got == walk.got \o page
           L == Len(walk.got)
<1>1. /\ walk.phase = "open" /\ walk \in Walks /\ walk.got \in Seq(Ids) /\ walk.owed \in SUBSET Ids
      /\ walk.cursor \in {Unset} \cup Times \X Ids
      /\ \A i, j \in 1 .. L : walk.got[i] = walk.got[j] => i = j
      /\ \A i \in 1 .. L : walk.got[i] \in Ids /\ stock[walk.got[i]].state # "unborn"
      /\ walk.cursor = Unset => walk.got = <<>>
      /\ walk.owed \subseteq M
      /\ \A i \in 1 .. L : stock[walk.got[i]].state \in States => ~Ahead(walk.cursor, walk.got[i])
      /\ \A id \in walk.owed : id \in ToSet(walk.got) \/ Ahead(walk.cursor, id)
  BY DEF Page, ListingInvariant, WalkSound, Walks
<1>2. walk.pageSize \in Nat \ {0} /\ L \in Nat
  <2>1. walk.pageSize \in PageSizes
    BY <1>1 DEF Walks
  <2>2. walk.pageSize \in Nat \ {0}
    BY <2>1, ListingConstants DEF ListingConstants
  <2>3. L \in Nat
    BY <1>1
  <2> QED BY <2>2, <2>3
<1>3. /\ n \in Nat /\ all \in Seq(M) /\ Len(all) = n
      /\ \A id \in M : \E i \in 1 .. n : all[i] = id
      /\ \A i, j \in 1 .. n : all[i] = all[j] => i = j
      /\ \A i, j \in 1 .. n : i < j <=> compareKey(Key(all[i]), Key(all[j]))
      /\ start \in 1 .. n + 1
      /\ \A i \in 1 .. n : start <= i <=> Ahead(walk.cursor, all[i])
  BY <1>1, ListIs DEF ListingInvariant
<1>4. \A id \in M : id \in Ids /\ stock[id].state \in States
  BY DEF Matching
<1>5. stock' = stock
  BY DEF Page
<1>6. walk' = IF page # <<>> /\ end < n
              THEN [walk EXCEPT !.got = got, !.cursor = Key(Last(page))]
              ELSE [walk EXCEPT !.got = got, !.phase = "done"]
  BY <1>3 DEF Page
<1> HIDE DEF M, all, n, start
<1>7. /\ m \in Nat /\ last \in Nat /\ last <= n
      /\ page \in Seq(Ids) /\ Len(page) = m
      /\ \A k \in 1 .. m : /\ start + k - 1 \in start .. last /\ start + k - 1 \in 1 .. n
                           /\ page[k] = all[start + k - 1]
  <2>1. m \in Nat /\ last \in Nat /\ last <= n
    BY <1>2, <1>3
  <2>2. \A k \in 1 .. m : start + k - 1 \in start .. last /\ start + k - 1 \in 1 .. n
    BY <1>2, <1>3, <2>1
  <2>3. page \in Seq(M) /\ Len(page) = m /\ \A k \in 1 .. m : page[k] = all[start + k - 1]
    BY <1>3, <2>1, <2>2
  <2>4. page \in Seq(Ids)
    BY <1>4, <2>3
  <2> QED BY <2>1, <2>2, <2>3, <2>4
<1> HIDE DEF page, m, last
<1>8. /\ got \in Seq(Ids) /\ Len(got) = L + m
      /\ \A i \in 1 .. L : got[i] = walk.got[i]
      /\ \A k \in 1 .. m : got[L + k] = page[k]
  <2>1. got \in Seq(Ids) /\ Len(got) = Len(walk.got) + Len(page)
    <3>1. walk.got \in Seq(Ids) /\ page \in Seq(Ids)
      BY <1>1, <1>7
    <3> QED BY <3>1
  <2>2. \A i \in 1 .. Len(walk.got) : got[i] = walk.got[i]
    BY <1>1, <1>7
  <2>3. ASSUME NEW k \in 1 .. m PROVE got[L + k] = page[k]
    <3>1. /\ L + k \in 1 .. Len(walk.got) + Len(page) /\ ~(L + k <= Len(walk.got))
          /\ (L + k) - Len(walk.got) = k
      BY <1>2, <1>7
    <3> QED BY <1>1, <1>7, <3>1
  <2> QED BY <1>7, <2>1, <2>2, <2>3
<1>9. \A i \in 1 .. L + m : i \in 1 .. L \/ \E k \in 1 .. m : i = L + k
  <2> SUFFICES ASSUME NEW i \in 1 .. L + m, i \notin 1 .. L PROVE \E k \in 1 .. m : i = L + k
    OBVIOUS
  <2>1. i - L \in 1 .. m /\ i = L + (i - L)
    BY <1>2, <1>7
  <2> QED BY <2>1
<1> HIDE DEF got, L
<1>10. \A k \in 1 .. m : page[k] \in M /\ page[k] \in Ids /\ stock[page[k]].state \in States
                         /\ Ahead(walk.cursor, page[k])
  <2> SUFFICES ASSUME NEW k \in 1 .. m
               PROVE  page[k] \in M /\ Ahead(walk.cursor, page[k])
    BY <1>4
  <2>1. page[k] = all[start + k - 1] /\ start + k - 1 \in 1 .. n /\ start <= start + k - 1
    <3>1. start \in Nat /\ k \in Nat /\ 1 <= k
      BY <1>3, <1>7
    <3> QED BY <1>7, <3>1
  <2> QED BY <1>3, <2>1
<1>11. \A i, j \in 1 .. Len(got) : got[i] = got[j] => i = j
  <2>1. ASSUME NEW i \in 1 .. L, NEW k \in 1 .. m PROVE walk.got[i] # page[k]
    <3>1. stock[walk.got[i]].state \in States => ~Ahead(walk.cursor, walk.got[i])
      BY <1>1 DEF L
    <3> QED BY <1>10, <3>1
  <2>2. ASSUME NEW h \in 1 .. m, NEW k \in 1 .. m, page[h] = page[k] PROVE h = k
    <3>1. start + h - 1 = start + k - 1
      BY <1>3, <1>7, <2>2
    <3> QED BY <1>3, <3>1
  <2>3. ASSUME NEW i \in 1 .. L + m, NEW j \in 1 .. L + m, got[i] = got[j] PROVE i = j
    <3>1. CASE i \in 1 .. L /\ j \in 1 .. L
      BY <1>1, <1>8, <2>3, <3>1 DEF L
    <3>2. CASE i \in 1 .. L /\ \E k \in 1 .. m : j = L + k
      BY <1>8, <2>1, <2>3, <3>2
    <3>3. CASE j \in 1 .. L /\ \E k \in 1 .. m : i = L + k
      BY <1>8, <2>1, <2>3, <3>3
    <3>4. CASE (\E k \in 1 .. m : i = L + k) /\ (\E k \in 1 .. m : j = L + k)
      BY <1>8, <2>2, <2>3, <3>4
    <3> QED BY <1>9, <3>1, <3>2, <3>3, <3>4
  <2> QED BY <1>8, <2>3
<1>12. \A i \in 1 .. Len(got) : stock[got[i]].state # "unborn"
  <2> SUFFICES ASSUME NEW i \in 1 .. L + m PROVE stock[got[i]].state # "unborn"
    BY <1>8
  <2>1. CASE i \in 1 .. L
    BY <1>1, <1>8, <2>1 DEF L
  <2>2. CASE \E k \in 1 .. m : i = L + k
    BY <1>8, <1>10, <2>2 DEF States
  <2> QED BY <1>9, <2>1, <2>2
<1>13. /\ \A i \in 1 .. L : walk.got[i] \in ToSet(got)
       /\ \A k \in 1 .. m : page[k] \in ToSet(got)
  <2>1. ToSet(got) = {got[i] : i \in 1 .. L + m}
    BY <1>8, Elements
  <2>2. \A i \in 1 .. L : i \in 1 .. L + m /\ got[i] = walk.got[i]
    BY <1>2, <1>7, <1>8 DEF L
  <2>3. \A k \in 1 .. m : L + k \in 1 .. L + m /\ got[L + k] = page[k]
    BY <1>2, <1>7, <1>8 DEF L
  <2> QED BY <2>1, <2>2, <2>3
<1>14. ToSet(walk.got) \subseteq ToSet(got)
  <2>1. ToSet(walk.got) = {walk.got[i] : i \in 1 .. L}
    BY <1>1, Elements DEF L
  <2> QED BY <1>13, <2>1
(* An id still owed was returned, is on the page, or lies past it.         *)
<1>15. ASSUME NEW id \in walk.owed
       PROVE  id \in ToSet(got) \/ \E k \in 1 .. n : last < k /\ id = all[k]
  <2> SUFFICES ASSUME id \notin ToSet(walk.got)
               PROVE  id \in ToSet(got) \/ \E k \in 1 .. n : last < k /\ id = all[k]
    BY <1>14
  <2>1. PICK i \in 1 .. n : all[i] = id
    BY <1>1, <1>3
  <2>2. start <= i
    BY <1>1, <1>3, <2>1
  <2>3. CASE last < i
    BY <2>1, <2>3
  <2>4. CASE ~(last < i)
    <3>1. i - start + 1 \in 1 .. m /\ start + (i - start + 1) - 1 = i
      BY <1>3, <1>7, <2>2, <2>4 DEF m
    <3>2. page[i - start + 1] = id
      BY <1>7, <2>1, <3>1
    <3> QED BY <1>13, <3>1, <3>2
  <2> QED BY <2>3, <2>4
<1>16. CASE page # <<>> /\ end < n
  <2>1. last = end /\ m \in 1 .. m /\ start + m - 1 = last /\ last \in 1 .. n
    BY <1>2, <1>3, <1>7, <1>16 DEF last, m
  <2>2. Last(page) = page[m] /\ page[m] = all[last]
    BY <1>7, <2>1 DEF Last
  <2> DEFINE next == Key(all[last])
  <2>3. all[last] \in M /\ all[last] \in Ids /\ stock[all[last]].created \in Times
    <3>1. all[last] \in M /\ all[last] \in Ids /\ stock[all[last]].state \in States
      BY <1>10, <2>1, <2>2
    <3>2. stock[all[last]] \in Tasks
      BY <3>1 DEF ListingInvariant, StockSound
    <3> QED BY <3>1, <3>2, TaskFields
  <2>4. next \in Times \X Ids /\ next # Unset
    BY <2>3, ListingConstants DEF ListingConstants, Key
  <2> HIDE DEF next
  <2>5. walk' = [walk EXCEPT !.got = got, !.cursor = next]
    BY <1>6, <1>16, <2>2 DEF next
  <2>6. /\ walk' \in Walks /\ walk'.phase = "open" /\ walk'.filter = walk.filter
        /\ walk'.cursor = next /\ walk'.got = got /\ walk'.owed = walk.owed
    BY <1>1, <1>8, <2>4, <2>5 DEF Walks
  <2>7. \A id \in Ids : Ahead(walk.cursor, id)' <=> compareKey(next, Key(id))
    <3>1. \A id \in Ids : Key(id)' = Key(id)
      BY <1>5 DEF Key
    <3> QED BY <2>4, <2>6, <3>1 DEF Ahead, compareKey
  <2>8. ASSUME NEW i \in 1 .. L + m, stock[got[i]].state \in States
        PROVE  ~compareKey(next, Key(got[i]))
    <3>1. CASE i \in 1 .. L
      <4>1. ~Ahead(walk.cursor, walk.got[i]) /\ got[i] = walk.got[i] /\ walk.got[i] \in Ids
        BY <1>1, <1>8, <2>8, <3>1 DEF L
      <4>2. PICK t \in Times, d \in Ids : walk.cursor = <<t, d>>
        BY <1>1, <4>1 DEF Ahead
      <4>3. Ahead(walk.cursor, all[last]) /\ walk.cursor # Unset
        BY <1>10, <2>1, <2>2, <4>1 DEF Ahead
      <4>4. compareKey(walk.cursor, next) /\ ~compareKey(walk.cursor, Key(got[i]))
        BY <4>1, <4>3 DEF Ahead, next
      <4>5. t \in Nat /\ d \in Nat /\ all[last] \in Nat /\ got[i] \in Nat
            /\ stock[all[last]].created \in Nat /\ stock[got[i]].created \in Nat
        <5>1. stock[got[i]] \in Tasks
          BY <4>1 DEF ListingInvariant, StockSound
        <5>2. stock[got[i]].created \in Times
          BY <2>8, <5>1, TaskFields
        <5> QED BY <2>3, <4>1, <5>2, ListingConstants DEF ListingConstants
      <4> QED BY <4>2, <4>4, <4>5 DEF compareKey, Key, next
    <3>2. CASE \E k \in 1 .. m : i = L + k
      <4>1. PICK k \in 1 .. m : i = L + k
        BY <3>2
      <4>2. got[i] = all[start + k - 1] /\ start + k - 1 \in 1 .. n /\ start + k - 1 <= last
        BY <1>3, <1>7, <1>8, <4>1
      <4>3. ~(last < start + k - 1)
        BY <1>3, <1>7, <4>2
      <4> QED BY <1>3, <2>1, <4>2, <4>3 DEF next
    <3> QED BY <1>9, <3>1, <3>2
  <2>9. \A i \in 1 .. L + m : got[i] \in Ids
    BY <1>8
  <2>10. \A id \in walk.owed : id \in ToSet(got) \/ compareKey(next, Key(id))
    <3> SUFFICES ASSUME NEW id \in walk.owed, NEW k \in 1 .. n, last < k, id = all[k]
                 PROVE  compareKey(next, Key(id))
      BY <1>15
    <3> QED BY <1>3, <2>1 DEF next
  <2>11. stock' = stock /\ M' = Matching(stock, walk.filter)
    BY <1>5, <2>6 DEF M, Matching
  <2>12. WalkSound'
    <3>1. /\ \A i, j \in 1 .. Len(walk'.got) : walk'.got[i] = walk'.got[j] => i = j
          /\ \A i \in 1 .. Len(walk'.got) : stock'[walk'.got[i]].state # "unborn"
      BY <1>5, <1>11, <1>12, <2>6
    <3>2. \A i \in 1 .. Len(walk'.got) :
            stock'[walk'.got[i]].state \in States => ~Ahead(walk.cursor, walk.got[i])'
      <4> SUFFICES ASSUME NEW i \in 1 .. Len(walk'.got), stock'[walk'.got[i]].state \in States
                   PROVE  ~Ahead(walk.cursor, walk.got[i])'
        OBVIOUS
      <4>1. PICK id \in Ids : id = walk'.got[i]
        BY <1>8, <2>6, <2>9
      <4>2. ~compareKey(next, Key(id))
        BY <1>5, <1>8, <2>6, <2>8, <4>1
      <4>3. ~Ahead(walk.cursor, id)'
        BY <2>7, <4>2
      <4> QED BY <4>1, <4>3 DEF Ahead, Key
    <3>3. \A id \in walk'.owed : id \in ToSet(walk'.got) \/ Ahead(walk.cursor, id)'
      BY <1>1, <1>5, <2>6, <2>7, <2>10 DEF Ahead, Key
    <3>4. walk'.owed \subseteq Matching(stock', walk'.filter)
      BY <1>1, <1>5, <2>6 DEF M, Matching
    <3> QED BY <2>4, <2>6, <3>1, <3>2, <3>3, <3>4 DEF WalkSound, Ahead
  <2> QED BY <1>5, <2>12 DEF ListingInvariant, StockSound, Present
<1>17. CASE ~(page # <<>> /\ end < n)
  <2>1. last = n
    <3>1. CASE ~(end < n)
      BY <1>3, <3>1 DEF last
    <3>2. CASE end < n
      <4>1. m = 0
        BY <1>7, <1>17, <3>2
      <4>2. last = start + walk.pageSize - 1
        BY <3>2 DEF last
      <4> QED BY <1>2, <1>3, <4>1, <4>2 DEF m
    <3> QED BY <3>1, <3>2
  <2>2. walk' = [walk EXCEPT !.got = got, !.phase = "done"]
    BY <1>6, <1>17
  <2>3. /\ walk' \in Walks /\ walk'.phase = "done" /\ walk'.got = got /\ walk'.owed = walk.owed
    BY <1>1, <1>8, <2>2 DEF Walks
  <2>4. walk.owed \subseteq ToSet(got)
    <3> SUFFICES ASSUME NEW id \in walk.owed PROVE id \in ToSet(got)
      OBVIOUS
    <3>1. ~\E k \in 1 .. n : last < k
      BY <1>3, <2>1
    <3> QED BY <1>15, <3>1
  <2>5. WalkSound'
    BY <1>5, <1>11, <1>12, <2>3, <2>4 DEF WalkSound
  <2> QED BY <1>5, <2>5 DEF ListingInvariant, StockSound, Present
<1> QED BY <1>16, <1>17

LEMMA CreateKeeps ==
  ASSUME ListingInvariant, NEW id \in Ids, NEW time \in Times, CreateTask(id, time)
  PROVE  ListingInvariant'
<1> DEFINE tasks == [stock EXCEPT ![id] = [state |-> "IN_PROGRESS", created |-> time, completed |-> time]]
<1>1. Changes(tasks) /\ stock[id].state = "unborn" /\ stock \in [Ids -> Tasks]
  BY DEF CreateTask, Unborn, ListingInvariant, StockSound
<1>2. /\ tasks \in [Ids -> Tasks] /\ tasks[id].state = "IN_PROGRESS"
      /\ \A i \in Ids : i # id => tasks[i] = stock[i]
  BY <1>1 DEF Tasks, States
<1> HIDE DEF tasks
<1>3. IsFiniteSet({i \in Ids : tasks[i].state \in States})
  <2>1. {i \in Ids : tasks[i].state \in States} \subseteq Present \cup {id}
    BY <1>2 DEF Present
  <2> QED BY <2>1, FS_Subset, FS_AddElement DEF ListingInvariant, StockSound
<1> QED BY <1>1, <1>2, <1>3, ChangesKeep DEF States

LEMMA CompleteKeeps ==
  ASSUME ListingInvariant, NEW id \in Ids, NEW state \in States, NEW time \in Times,
         CompleteTask(id, state, time)
  PROVE  ListingInvariant'
<1> DEFINE tasks == [stock EXCEPT ![id].state = state, ![id].completed = time]
<1>1. Changes(tasks) /\ stock[id].state \in States /\ stock \in [Ids -> Tasks]
  BY DEF CompleteTask, States, ListingInvariant, StockSound
<1>2. stock[id] \in [state : States, created : Times, completed : Times]
  BY <1>1, TaskFields DEF Tasks, Unborn, Gone, States
<1>3. /\ tasks \in [Ids -> Tasks] /\ tasks[id].state = state /\ tasks[id].created = stock[id].created
      /\ \A i \in Ids : i # id => tasks[i] = stock[i]
  BY <1>1, <1>2 DEF Tasks
<1> HIDE DEF tasks
<1>4. IsFiniteSet({i \in Ids : tasks[i].state \in States})
  <2>1. {i \in Ids : tasks[i].state \in States} \subseteq Present
    BY <1>1, <1>3 DEF Present
  <2> QED BY <2>1, FS_Subset DEF ListingInvariant, StockSound
<1> QED BY <1>1, <1>3, <1>4, ChangesKeep DEF States

LEMMA SweepKeeps ==
  ASSUME ListingInvariant, NEW completedCap \in Caps, NEW failedCap \in Caps,
         Sweep(completedCap, failedCap)
  PROVE  ListingInvariant'
<1> DEFINE gone == selectTasksForEviction(completedCap, failedCap)
           tasks == [i \in Ids |-> IF i \in gone THEN Gone ELSE stock[i]]
<1>1. Changes(tasks) /\ stock \in [Ids -> Tasks]
  BY DEF Sweep, ListingInvariant, StockSound
<1> HIDE DEF gone
<1>2. tasks \in [Ids -> Tasks] /\ \A i \in Ids : tasks[i] = Gone \/ tasks[i] = stock[i]
  BY <1>1 DEF Tasks
<1> HIDE DEF tasks
<1>3. Gone.state = "gone"
  BY DEF Gone
<1>4. IsFiniteSet({i \in Ids : tasks[i].state \in States})
  <2>1. {i \in Ids : tasks[i].state \in States} \subseteq Present
    BY <1>2, <1>3 DEF Present, States
  <2> QED BY <2>1, FS_Subset DEF ListingInvariant, StockSound
<1> QED BY <1>1, <1>2, <1>3, <1>4, ChangesKeep DEF States

LEMMA BeginKeepsWalk ==
  ASSUME ListingInvariant, NEW filter \in Filters, NEW pageSize \in PageSizes,
         BeginWalk(filter, pageSize)
  PROVE  ListingInvariant'
<1>1. /\ stock' = stock
      /\ walk' = [phase |-> "open", filter |-> filter, pageSize |-> pageSize, cursor |-> Unset,
                  got |-> <<>>, owed |-> Matching(stock, filter)]
  BY DEF BeginWalk
<1>2. walk' \in Walks
  BY <1>1 DEF Walks, Matching
<1>3. walk'.phase = "open" /\ walk'.got = <<>> /\ walk'.cursor = Unset /\ Len(walk'.got) = 0
      /\ walk'.owed = Matching(stock', walk'.filter)
  BY <1>1
<1>4. WalkSound'
  BY <1>2, <1>3 DEF WalkSound, Ahead
<1> QED BY <1>1, <1>4 DEF ListingInvariant, StockSound, Present

LEMMA ListingStays == ListingInvariant /\ [ListingNext]_listingVars => ListingInvariant'
<1> SUFFICES ASSUME ListingInvariant, [ListingNext]_listingVars PROVE ListingInvariant'
  OBVIOUS
<1>1. CASE \E id \in Ids, time \in Times : CreateTask(id, time)
  BY <1>1, CreateKeeps
<1>2. CASE \E id \in Ids, time \in Times, state \in States \ {"IN_PROGRESS"} : CompleteTask(id, state, time)
  BY <1>2, CompleteKeeps
<1>3. CASE \E completedCap, failedCap \in Caps : Sweep(completedCap, failedCap)
  BY <1>3, SweepKeeps
<1>4. CASE \E filter \in Filters, pageSize \in PageSizes : BeginWalk(filter, pageSize)
  BY <1>4, BeginKeepsWalk
<1>5. CASE Page
  BY <1>5, PageKeeps
<1>6. CASE UNCHANGED listingVars
  BY <1>6 DEF listingVars, ListingInvariant, StockSound, WalkSound, Present, Ahead, compareKey, Key, Matching
<1> QED BY <1>1, <1>2, <1>3, <1>4, <1>5, <1>6 DEF ListingNext

LEMMA WalkOf == ListingInvariant => WalkComplete
<1> SUFFICES ASSUME ListingInvariant, walk.phase # "idle"
             PROVE  Cardinality(ToSet(walk.got)) = Len(walk.got)
  BY DEF WalkComplete, ListingInvariant, WalkSound
<1>1. /\ walk.got \in Seq(Ids)
      /\ \A i, j \in 1 .. Len(walk.got) : walk.got[i] = walk.got[j] => i = j
  BY DEF ListingInvariant, WalkSound, Walks
<1> QED BY <1>1, OnceEach

(* However the tasks change between its requests, a walk returns no task   *)
(* twice and, when it is done, every task it owes (createTaskListHandler). *)
THEOREM WalksComplete == ListingSpec => []WalkComplete
BY WalkOf, ListingInitHolds, ListingStays, PTL DEF ListingSpec

LEMMA RetentionOf == ListingInvariant => RetentionExact
BY SweepExact, CleanupExact DEF ListingInvariant, RetentionExact

(* Whatever is stored, the sweep evicts just the tasks over their cap, and *)
(* the cleanup of the artifacts just the entries over theirs               *)
(* (selectTasksForEviction, selectEntriesOverArtifactCap).                 *)
THEOREM RetentionCorrect == ListingSpec => []RetentionExact
BY RetentionOf, ListingInitHolds, ListingStays, PTL DEF ListingSpec

-----------------------------------------------------------------------------
(* The parts together: a behaviour that runs one of them is a behaviour of *)
(* each of them, the others' steps being stutters.                         *)

RegistryTyped == registry \subseteq Methods /\ streamingRegistry \subseteq Methods

LEMMA RegistryStays == RegistryTyped /\ [RpcServerNext]_rpcServerVars => RegistryTyped'
<1> SUFFICES ASSUME RegistryTyped, [RpcServerNext]_rpcServerVars PROVE RegistryTyped'
  OBVIOUS
<1>1. CASE \E m \in Methods : Register(m) \/ unregisterMethod(m)
  BY <1>1 DEF Register, unregisterMethod, RegistryTyped
<1>2. CASE \E x \in Exchange, body \in Bodies, credentials, version \in BOOLEAN :
             Arrives(x, body, credentials, version)
  BY <1>2 DEF Arrives, RegistryTyped
<1>3. CASE \E x \in Active : Serve(x)
  BY <1>3 DEF Serve, Authenticates, Dispatches, Responded, StreamEnds, HandlerEnds, RegistryTyped
<1>4. CASE UNCHANGED rpcServerVars
  BY <1>4 DEF rpcServerVars, RegistryTyped
<1> QED BY <1>1, <1>2, <1>3, <1>4 DEF RpcServerNext

LEMMA RpcServerTyped == ExchangeInvariant /\ RegistryTyped => RpcServerTypeOK
<1> SUFFICES ASSUME ExchangeInvariant, RegistryTyped, NEW x \in Exchange
             PROVE  exchange[x].phase \in ExchangePhases \cup {"unused"}
  BY DEF RpcServerTypeOK, RegistryTyped, ExchangePhases
<1> QED BY DEF ExchangeInvariant, Exchanges, Unused

LEMMA PushTypes == PushInvariant => PushTypeOK
<1> SUFFICES ASSUME PushInvariant PROVE PushTypeOK
  OBVIOUS
<1>1. bucket \in SeqOf(PushConfigId, Cardinality(PushConfigId))
  <2>1. bucket \in Seq(PushConfigId) /\ \A i, j \in 1 .. Len(bucket) : bucket[i] = bucket[j] => i = j
    BY DEF PushInvariant, PushTyped, BucketOnce
  <2>2. Cardinality(ToSet(bucket)) = Len(bucket) /\ ToSet(bucket) \subseteq PushConfigId
    BY <2>1, OnceEach, Elements
  <2>3. IsFiniteSet(PushConfigId) /\ Cardinality(PushConfigId) \in Nat
    BY PushConstants, FS_CardinalityType
  <2>4. Len(bucket) <= Cardinality(PushConfigId)
    BY <2>2, <2>3, FS_Subset
  <2> QED BY <2>1, <2>3, <2>4, BoundedSequences DEF BoundedSeq
<1>2. \A u \in 1 .. Updates : delivery[u] \in UNION {[1 .. n -> Entries] : n \in Nat}
  BY DEF PushInvariant, PushTyped
<1>3. \A u \in 1 .. Updates : \A i \in DOMAIN delivery[u] : delivery[u][i] \in Entries
  BY <1>2
<1>4. Entries \subseteq [config : PushConfigId, phase : {"waiting"} \cup Posting \cup Ended, attempt : Nat]
  BY DEF Entries, Phases
<1> QED BY <1>1, <1>3, <1>4 DEF PushTypeOK, PushInvariant, PushTyped

LEMMA ListingTypes == ListingInvariant => ListingTypeOK
BY TaskFields DEF ListingInvariant, StockSound, WalkSound, ListingTypeOK

(* Each of the parts keeps its types and its promises, whichever of them a *)
(* behaviour runs.                                                         *)
THEOREM ServicesCorrect ==
  FairSpec => [](/\ ServicesTypeOK /\ DialsSound /\ DeliveriesSound /\ WalkComplete /\ RetentionExact
                 /\ CallsSound /\ AnswersMatch /\ DownloadsTrue)
<1> DEFINE All == /\ McpInvariant /\ PushInvariant /\ ListingInvariant /\ RpcInvariant
                  /\ ExchangeInvariant /\ RegistryTyped /\ StoresInvariant
           Promised == /\ ServicesTypeOK /\ DialsSound /\ DeliveriesSound /\ WalkComplete /\ RetentionExact
                       /\ CallsSound /\ AnswersMatch /\ DownloadsTrue
<1>1. Init => All
  <2> SUFFICES ASSUME Init PROVE All
    OBVIOUS
  <2>1. McpInit /\ PushInit /\ ListingInit /\ ClientInit /\ RpcServerInit /\ StoresInit
    BY DEF Init
  <2>2. RegistryTyped
    BY <2>1 DEF RpcServerInit, RegistryTyped
  <2> QED BY <2>1, <2>2, McpInitHolds, PushInitHolds, ListingInitHolds, ClientInitHolds,
             ExchangeInitHolds, StoresInitHolds
<1>2. All /\ [Next]_vars => All'
  <2> SUFFICES ASSUME All, [Next]_vars PROVE All'
    OBVIOUS
  <2>1. /\ [McpNext]_mcpVars /\ [PushNext]_pushVars /\ [ListingNext]_listingVars
        /\ [ClientNext]_clientVars /\ [RpcServerNext]_rpcServerVars /\ [StoresNext]_storeVars
    BY DEF Next, NextMcp, NextPush, NextListing, NextClient, NextRpcServer, NextStores, Only, vars
  <2> QED BY <2>1, DialsStay, PushStays, ListingStays, ClientNextKeeps, ExchangesStay, RegistryStays,
             StoresStay
<1>3. All => Promised
  <2> SUFFICES ASSUME All PROVE Promised
    OBVIOUS
  <2>1. ServicesTypeOK
    BY PushTypes, ListingTypes, RpcServerTyped
       DEF ServicesTypeOK, McpInvariant, RpcInvariant, StoresInvariant
  <2> QED BY <2>1, DeliveriesOf, WalkOf, RetentionOf, ExchangesMatch
          DEF McpInvariant, RpcInvariant, StoresInvariant
<1> QED BY <1>1, <1>2, <1>3, PTL DEF FairSpec
=============================================================================
