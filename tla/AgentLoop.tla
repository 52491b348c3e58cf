----------------------------- MODULE AgentLoop -----------------------------
(***************************************************************************)
(* What the two default task handlers share: the conversation with the     *)
(* model, the usage tracker, the toolbox with its create_artifact tool, the*)
(* callbacks around a tool, and the concurrent dispatch of the calls of one*)
(* answer.  BackgroundHandler and StreamingHandler drive it.               *)
(*                                                                         *)
(* A tool call is the pair <<iteration, index>>; its name says what running*)
(* it may do.  Texts, arguments and token counts are left out; a callback  *)
(* that overrides something is one of the answers the overridden party may *)
(* give, one that throws is an outcome of its own.                         *)
(***************************************************************************)
EXTENDS TaskLifecycle, Naturals, FiniteSets, SequencesExt

CONSTANTS
  History,                 \* the task's messages: [role, text] records
  SystemPrompt,            \* whether a system prompt is configured
  MaxConversationHistory,  \* messages shown to the model besides the prompt
  MaxIterations,           \* model calls per task
  Tools,                   \* names the toolbox knows
  CalledNames,             \* names the model calls
  MaxCalls,                \* bound: calls in one answer of the model
  CallbacksMayThrow        \* whether a callback may throw

ASSUME AgentConstants ==
  /\ MaxConversationHistory \in Nat \ {0} /\ MaxIterations \in Nat \ {0}
  /\ MaxCalls \in Nat /\ {SystemPrompt, CallbacksMayThrow} \subseteq BOOLEAN
  /\ History \in Seq([role : STRING, text : BOOLEAN])

INPUT_REQUIRED_TOOL == "input_required"
CREATE_ARTIFACT_TOOL == "create_artifact"

VARIABLES
  handler,       \* which default handler was given the task
  toolBox,       \* whether it has a toolbox
  signal,        \* the abort signal of the run
  pc,            \* the await the handler is suspended in
  iteration,     \* model calls begun
  conversation,  \* the messages exchanged with the model
  calls,         \* names of the tool calls of the model's last answer
  dispatch,      \* where the dispatched calls are
  pending,       \* toolState: artifacts to be surfaced on the task
  stored,        \* artifacts the service has stored
  tracker,       \* UsageTracker
  outcome,       \* how the run ended
  late           \* requests and batches begun after the abort

dispatchVars == <<dispatch, pending, stored>>
agentVars == <<handler, toolBox, signal, pc, iteration, conversation, calls,
               dispatchVars, tracker, outcome, late>>

-----------------------------------------------------------------------------
(* The conversation                                                        *)

System == [role |-> "system"]
Assistant(names) == [role |-> "assistant", calls |-> names]
ToolAnswer(call, ok) == [role |-> "tool", call |-> call, ok |-> ok]

(* Messages without text, or of neither side, are not shown to the model.  *)
a2aMessageToChatMessage(message) ==
  IF message.role = "ROLE_USER" THEN [role |-> "user"] ELSE Assistant(<<>>)

buildInitialConversation(messages) ==
  FoldLeft(LAMBDA chat, m : IF m.text /\ m.role \in {"ROLE_USER", "ROLE_AGENT"}
                            THEN Append(chat, a2aMessageToChatMessage(m)) ELSE chat,
           IF SystemPrompt THEN <<System>> ELSE <<>>, messages)

(* Faulty variant: the prompt counts as a message and is cut off with them.*)
truncateWithPrompt(chat) ==
  IF Len(chat) <= MaxConversationHistory THEN chat
  ELSE SubSeq(chat, Len(chat) - MaxConversationHistory + 1, Len(chat))

truncateConversation(chat) ==
  LET head == IF chat # <<>> /\ chat[1] = System THEN <<System>> ELSE <<>>
      rest == SubSeq(chat, Len(head) + 1, Len(chat))
  IN  head \o IF Len(rest) <= MaxConversationHistory THEN rest
              ELSE SubSeq(rest, Len(rest) - MaxConversationHistory + 1, Len(rest))

(* What the model answers: any calls, or none.                             *)
Completions == BoundedSeq(CalledNames, MaxCalls)

-----------------------------------------------------------------------------
(* UsageTracker                                                            *)

UsageTracker == [iterations |-> 0, toolCalls |-> 0, failedTools |-> 0]
incrementIteration(t) == [t EXCEPT !.iterations = @ + 1]
incrementToolCalls(t, n) == [t EXCEPT !.toolCalls = @ + n]
(* Faulty variant: a batch with failures counts once.                      *)
incrementFailedToolsOnce(t, n) ==
  [t EXCEPT !.failedTools = @ + IF n > 0 THEN 1 ELSE 0]

incrementFailedTools(t, n) == [t EXCEPT !.failedTools = @ + n]
hasUsage(t) == t.iterations > 0 \/ t.toolCalls > 0

-----------------------------------------------------------------------------
(* The toolbox and the dispatch of one answer's calls                      *)

Call(i) == <<iteration, i>>

(* Artifacts of the pending slot, and the slot emptied.                    *)
drainPendingArtifacts == pending

Settled(i) == dispatch[i] \in {"ok", "failed", "threw"}
Failures == Cardinality({i \in DOMAIN dispatch : dispatch[i] = "failed"})

(* What running a tool comes to.  A name that is not registered, arguments *)
(* that miss the schema and a tool that throws all fail; create_artifact   *)
(* answers the model even when the storage refuses.                        *)
executeTool(name) ==
  IF name \notin Tools THEN {"ranFailed"} ELSE {"ranOk", "ranFailed"}

(* Faulty variant: the artifact is surfaced though the storage refused it. *)
createArtifactUnstored(i) ==
  /\ calls[i] = CREATE_ARTIFACT_TOOL
  /\ CREATE_ARTIFACT_TOOL \in Tools
  /\ pending' = Append(pending, Call(i))
  /\ dispatch' = [dispatch EXCEPT ![i] = "ranOk"]
  /\ UNCHANGED stored

(* The storage took the artifact: it is pushed on the shared slot at once, *)
(* in the turn of the event loop that learns it.                           *)
createArtifact(i) ==
  /\ calls[i] = CREATE_ARTIFACT_TOOL
  /\ CREATE_ARTIFACT_TOOL \in Tools
  /\ stored' = stored \cup {Call(i)}
  /\ pending' = Append(pending, Call(i))
  /\ dispatch' = [dispatch EXCEPT ![i] = "ranOk"]

(* executeToolWithCallbacks: beforeTool may throw or answer for the tool.  *)
RunTool(i) ==
  /\ dispatch[i] = "running"
  /\ \/ createArtifact(i)
     \/ /\ \E result \in executeTool(calls[i]) \cup {"ranOk"}
                           \cup (IF CallbacksMayThrow THEN {"threw"} ELSE {}) :
             dispatch' = [dispatch EXCEPT ![i] = result]
        /\ UNCHANGED <<pending, stored>>

(* afterTool may throw; otherwise the result stands, replaced or not.      *)
AfterTool(i) ==
  /\ \/ dispatch[i] = "ranOk" /\ dispatch' = [dispatch EXCEPT ![i] = "ok"]
     \/ dispatch[i] = "ranFailed" /\ dispatch' = [dispatch EXCEPT ![i] = "failed"]
     \/ /\ CallbacksMayThrow
        /\ dispatch[i] \in {"ranOk", "ranFailed"}
        /\ dispatch' = [dispatch EXCEPT ![i] = "threw"]
  /\ UNCHANGED <<pending, stored>>

ToolStep ==
  /\ \E i \in DOMAIN dispatch : RunTool(i) \/ AfterTool(i)
  /\ UNCHANGED <<handler, toolBox, signal, pc, iteration, conversation, calls,
                 tracker, outcome, late>>

-----------------------------------------------------------------------------
AgentInit ==
  /\ toolBox \in BOOLEAN
  /\ signal = FALSE
  /\ pc = "start"
  /\ iteration = 0
  /\ conversation = buildInitialConversation(History)
  /\ calls = <<>> /\ dispatch = <<>>
  /\ pending = <<>> /\ stored = {}
  /\ tracker = UsageTracker
  /\ outcome = "none"
  /\ late = [requests |-> 0, batches |-> 0]

(* CancelTask, a disconnect or a shutdown aborts the signal.               *)
Abort ==
  /\ ~signal /\ pc # "done"
  /\ signal' = TRUE
  /\ UNCHANGED <<handler, toolBox, pc, iteration, conversation, calls,
                 dispatchVars, tracker, outcome, late>>

Late(field) == IF signal THEN [late EXCEPT ![field] = @ + 1] ELSE late

-----------------------------------------------------------------------------
(* Properties of both handlers                                             *)

AgentTypeOK ==
  /\ handler \in {"background", "streaming"} /\ {toolBox, signal} \subseteq BOOLEAN
  /\ iteration \in 0 .. MaxIterations
  /\ calls \in Completions
  /\ dispatch \in BoundedSeq({"running", "ranOk", "ranFailed", "ok", "failed", "threw"}, MaxCalls)
  /\ ToSet(pending) \subseteq stored
  /\ stored \subseteq (1 .. MaxIterations) \X (1 .. MaxCalls)

Asking(chat) == {p \in DOMAIN chat : chat[p].role = "assistant" /\ chat[p].calls # <<>>}
ToolAnswers(chat) == {p \in DOMAIN chat : chat[p].role = "tool"}
FailedAnswers(chat) == {p \in ToolAnswers(chat) : ~chat[p].ok}

(* The messages after position p are the answers to its calls, in order.   *)
AnsweredAt(chat, p) ==
  \A i \in DOMAIN chat[p].calls :
    /\ p + i \in DOMAIN chat
    /\ chat[p + i].role = "tool"
    /\ chat[p + i].call[2] = i

(* Whenever the model is called, every call it made so far is followed by  *)
(* its answers, one for each call and in the order of the calls, although  *)
(* the tools run concurrently and end in any order; the request is the     *)
(* system prompt and as many of the newest messages as the limit allows;   *)
(* the statistics to attach to the task count just the iterations, calls   *)
(* and failed answers of that conversation (handle, truncateConversation,  *)
(* UsageTracker).                                                          *)
ConversationSound ==
  pc \in {"beforeModel", "model"} =>
    LET request == truncateConversation(conversation)
        prompt == IF SystemPrompt THEN 1 ELSE 0
        shown == Len(request) - prompt
        cut == Len(conversation) - prompt - shown
        asked == UNION {{p} \X DOMAIN conversation[p].calls : p \in Asking(conversation)}
    IN  /\ \A p \in Asking(conversation) : AnsweredAt(conversation, p)
        /\ Cardinality(ToolAnswers(conversation)) = Cardinality(asked)
        /\ SystemPrompt => request[1] = System
        /\ \A i \in 1 .. shown : request[prompt + i] = conversation[prompt + cut + i]
        /\ shown <= MaxConversationHistory /\ cut >= 0
        /\ cut > 0 => shown = MaxConversationHistory
        /\ tracker = [iterations  |-> iteration,
                      toolCalls   |-> Cardinality(asked),
                      failedTools |-> Cardinality(FailedAnswers(conversation))]

(* A cancelled run winds down: after the abort the handler begins at most  *)
(* one more model call and one more batch of tools (the checks of          *)
(* signal.aborted at the loop head and around the tools).                  *)
AbortBounded == late.requests + late.batches <= 2 /\ late.requests <= 1 /\ late.batches <= 1
=============================================================================
