-------------------------- MODULE StreamingHandler -------------------------
(***************************************************************************)
(* DefaultStreamingTaskHandler.handle: the agent loop as an asynchronous   *)
(* generator.  It runs only when its consumer asks for the next event and  *)
(* stays suspended at a yield until it is asked again, so an abort may fall*)
(* between any two events.  `out` holds what the code yields before it next*)
(* awaits or decides something; an item marked guarded is preceded by a    *)
(* check of the signal.                                                    *)
(***************************************************************************)
EXTENDS AgentLoop

CONSTANTS
  EnableUsageMetadata,  \* final events carry the statistics
  SpeaksBesideCalls     \* bound: whether the model's answers with calls have text too

VARIABLES
  out,      \* the events the generator is about to yield
  events,   \* what the consumer was given
  awaited   \* dispatched calls whose promise has been awaited

streamingVars == <<out, events, awaited>>

Streaming == handler = "streaming"

StreamingInit == out = <<>> /\ events = <<>> /\ awaited = 0

About(type, call) == [type |-> type, call |-> call, guarded |-> FALSE]
Event(type) == About(type, <<0, 0>>)
Guarded(event) == [event EXCEPT !.guarded = TRUE]

At(point) == Streaming /\ pc = point /\ out = <<>>

Ends(how) ==
  /\ pc' = "done" /\ outcome' = how
  /\ out' = <<>>

(* What the model says beside its calls is shown before they are announced.*)
Spoken == IF SpeaksBesideCalls THEN <<Event("delta")>> ELSE <<>>

(* Yields the items and then waits at `point`.                             *)
Yields(items, point) == out' = items /\ pc' = point /\ UNCHANGED outcome

-----------------------------------------------------------------------------
(* The consumer asks for the next event; a guarded one is not produced any *)
(* more after an abort, the generator returns instead.                     *)
Pull ==
  /\ Streaming /\ out # <<>>
  /\ IF Head(out).guarded /\ signal
     THEN Ends("aborted") /\ UNCHANGED <<events>>
     ELSE /\ events' = Append(events, Head(out))
          /\ out' = Tail(out)
          /\ UNCHANGED <<pc, outcome>>
  /\ UNCHANGED <<handler, toolBox, signal, iteration, conversation, calls,
                 dispatchVars, tracker, late, awaited>>

StartStreaming ==
  /\ At("start")
  /\ IF signal THEN Ends("aborted") ELSE Yields(<<>>, "beforeAgent")
  /\ UNCHANGED <<handler, toolBox, signal, iteration, conversation, calls,
                 dispatchVars, tracker, late, events, awaited>>

(* Nothing but its own loop catches: a callback throws out of the generator*)
CallbackThrows ==
  /\ CallbacksMayThrow
  /\ Streaming /\ out = <<>> /\ pc \in {"beforeAgent", "beforeModel", "model", "afterAgent"}
  /\ Ends("threw")
  /\ UNCHANGED <<handler, toolBox, signal, iteration, conversation, calls,
                 dispatchVars, tracker, late, events, awaited>>

StreamBeforeAgent ==
  /\ At("beforeAgent")
  /\ \/ Yields(<<Event("delta"), Event("COMPLETED")>>, "return")
     \/ Yields(<<>>, "iterate")
  /\ UNCHANGED <<handler, toolBox, signal, iteration, conversation, calls,
                 dispatchVars, tracker, late, events, awaited>>

(* The head of the loop: the cap, the abort check, the next iteration.     *)
Iterate ==
  /\ At("iterate")
  /\ \/ /\ iteration = MaxIterations
        /\ Yields(<<Event("FAILED")>>, "return")
        /\ UNCHANGED <<iteration, tracker>>
     \/ /\ iteration < MaxIterations /\ signal
        /\ Ends("aborted")
        /\ UNCHANGED <<iteration, tracker>>
     \/ /\ iteration < MaxIterations /\ ~signal
        /\ Yields(<<>>, "beforeModel")
        /\ iteration' = iteration + 1
        /\ tracker' = incrementIteration(tracker)
  /\ UNCHANGED <<handler, toolBox, signal, conversation, calls, dispatchVars,
                 late, events, awaited>>

StreamCallsModel ==
  /\ At("beforeModel")
  /\ Yields(<<>>, "model")
  /\ late' = Late("requests")
  /\ UNCHANGED <<handler, toolBox, signal, iteration, conversation, calls,
                 dispatchVars, tracker, events, awaited>>

(* The model throws: quietly the end of an aborted run, else of the stream.*)
StreamModelFails ==
  /\ At("model")
  /\ Ends(IF signal THEN "aborted" ELSE "threw")
  /\ UNCHANGED <<handler, toolBox, signal, iteration, conversation, calls,
                 dispatchVars, tracker, late, events, awaited>>

StreamAnswering(names) ==
  /\ At("beforeModel") \/ At("model")
  /\ conversation' = Append(conversation, Assistant(names))
  /\ calls' = names

StreamAnswersFinally ==
  /\ StreamAnswering(<<>>)
  /\ \E text \in {<<>>, <<Event("delta")>>} : Yields(text, "afterAgent")
  /\ UNCHANGED <<handler, toolBox, signal, iteration, dispatchVars, tracker,
                 late, events, awaited>>

finalUsageMetadata == EnableUsageMetadata /\ hasUsage(tracker)

(* afterAgent may replace the answer, which is then shown once more; the   *)
(* final status is only sent when it carries statistics.                   *)
StreamAfterAgent ==
  /\ At("afterAgent")
  /\ \E replaced \in {<<>>, <<Event("delta")>>} :
       Yields(replaced \o <<Event("iterationCompleted")>>
                \o (IF finalUsageMetadata THEN <<Event("COMPLETED")>> ELSE <<>>), "return")
  /\ UNCHANGED <<handler, toolBox, signal, iteration, conversation, calls,
                 dispatchVars, tracker, late, events, awaited>>

StreamAsksForInput(names) ==
  /\ INPUT_REQUIRED_TOOL \in ToSet(names)
  /\ StreamAnswering(names)
  /\ dispatch' = <<>>
  /\ LET call == Call(SelectInSeq(names, LAMBDA n : n = INPUT_REQUIRED_TOOL))
     IN  Yields(Spoken \o <<About("toolStarted", call), Guarded(About("toolCompleted", call)),
                            Event("inputRequiredNotice"), Event("iterationCompleted"),
                            Event("INPUT_REQUIRED")>>, "return")
  /\ UNCHANGED <<handler, toolBox, signal, iteration, pending, stored, tracker,
                 late, events, awaited>>

(* The three events of a call that no toolbox takes, and those of all calls*)
(* one after another.                                                      *)
Refused(i) ==
  <<Guarded(About("toolStarted", Call(i))), About("toolFailed", Call(i)),
    About("toolResult", Call(i))>>

AllRefused(names) ==
  [k \in 1 .. 3 * Len(names) |-> Refused(1 + ((k - 1) \div 3))[1 + ((k - 1) % 3)]]

StreamAnswersWithoutTools(names) ==
  /\ INPUT_REQUIRED_TOOL \notin ToSet(names) /\ names # <<>> /\ ~toolBox
  /\ At("beforeModel") \/ At("model")
  /\ calls' = names
  /\ conversation' = Append(conversation, Assistant(names))
                       \o [i \in DOMAIN names |-> ToolAnswer(Call(i), FALSE)]
  /\ tracker' = incrementFailedTools(incrementToolCalls(tracker, Len(names)), Len(names))
  /\ Yields(Spoken \o AllRefused(names) \o <<Event("iterationCompleted")>>, "iterate")
  /\ UNCHANGED <<handler, toolBox, signal, iteration, dispatchVars, late, events, awaited>>

(* Every call is announced before the first one is dispatched.             *)
StreamAnnouncesTools(names) ==
  /\ INPUT_REQUIRED_TOOL \notin ToSet(names) /\ names # <<>> /\ toolBox
  /\ StreamAnswering(names)
  /\ Yields(Spoken \o [i \in DOMAIN names |-> Guarded(About("toolStarted", Call(i)))], "dispatch")
  /\ dispatch' = <<>> /\ awaited' = 0
  /\ tracker' = incrementToolCalls(tracker, Len(names))
  /\ UNCHANGED <<handler, toolBox, signal, iteration, pending, stored, late, events>>

StreamModelAnswers ==
  \/ StreamAnswersFinally
  \/ \E names \in Completions :
       StreamAsksForInput(names) \/ StreamAnswersWithoutTools(names) \/ StreamAnnouncesTools(names)

(* Asked for the event after the last announcement, the generator starts   *)
(* all calls.                                                              *)
StreamDispatches ==
  /\ At("dispatch")
  /\ dispatch' = [i \in DOMAIN calls |-> "running"]
  /\ Yields(<<>>, "tools")
  /\ late' = Late("batches")
  /\ UNCHANGED <<handler, toolBox, signal, iteration, conversation, calls,
                 pending, stored, tracker, events, awaited>>

(* The next call, in the order of the answer, is awaited.                  *)
AwaitTool ==
  /\ At("tools") /\ awaited < Len(dispatch)
  /\ IF signal
     THEN Ends("aborted") /\ UNCHANGED awaited
     ELSE Yields(<<>>, "awaiting") /\ awaited' = awaited + 1
  /\ UNCHANGED <<handler, toolBox, signal, iteration, conversation, calls,
                 dispatchVars, tracker, late, events>>

(* Faulty variant: the outcome of another call is reported.                *)
ReportsMixed(i) == <<About("toolCompleted", Call(i)), About("toolResult", Call(Len(calls) + 1 - i))>>

Reports(i) ==
  <<About(IF dispatch[i] = "ok" THEN "toolCompleted" ELSE "toolFailed", Call(i)),
    About("toolResult", Call(i))>>

(* The awaited call has ended: its result is yielded and becomes the answer*)
(* the model will see.                                                     *)
ToolAnswered ==
  /\ At("awaiting") /\ Settled(awaited)
  /\ \/ /\ dispatch[awaited] = "threw"
        /\ Ends("threw")
        /\ UNCHANGED <<conversation, tracker>>
     \/ /\ dispatch[awaited] # "threw" /\ signal
        /\ Ends("aborted")
        /\ UNCHANGED <<conversation, tracker>>
     \/ /\ dispatch[awaited] # "threw" /\ ~signal
        /\ Yields(Reports(awaited), "tools")
        /\ conversation' = Append(conversation, ToolAnswer(Call(awaited), dispatch[awaited] = "ok"))
        /\ tracker' = incrementFailedTools(tracker, IF dispatch[awaited] = "ok" THEN 0 ELSE 1)
  /\ UNCHANGED <<handler, toolBox, signal, iteration, calls, dispatchVars, late,
                 events, awaited>>

(* Faulty variant: artifacts are left in the slot.                         *)
ArtifactEventsNone == <<>>

ArtifactEvents == [i \in DOMAIN drainPendingArtifacts |->
                     About("artifactCreated", drainPendingArtifacts[i])]

(* All results are out: the artifacts of the batch follow, in one go.      *)
StreamBatchEnds ==
  /\ At("tools") /\ awaited = Len(dispatch)
  /\ Yields(Append(ArtifactEvents, Event("iterationCompleted")), "iterate")
  /\ pending' = <<>>
  /\ UNCHANGED <<handler, toolBox, signal, iteration, conversation, calls, dispatch,
                 stored, tracker, late, events, awaited>>

StreamReturnsAtLast ==
  /\ At("return")
  /\ Ends("returned")
  /\ UNCHANGED <<handler, toolBox, signal, iteration, conversation, calls,
                 dispatchVars, tracker, late, events, awaited>>

(* The consumer closes the generator at a yield.                           *)
CloseGenerator ==
  /\ Streaming /\ events # <<>> /\ pc \in {"iterate", "dispatch", "tools", "return"}
  /\ Ends("closed")
  /\ UNCHANGED <<handler, toolBox, signal, iteration, conversation, calls,
                 dispatchVars, tracker, late, events, awaited>>

(* A dispatched call whose promise nobody awaits rejects: an unhandled     *)
(* rejection, on which Node ends the process.                              *)
UnhandledRejection ==
  /\ Streaming /\ outcome # "crashed"
  /\ \E i \in DOMAIN dispatch : i > awaited /\ dispatch[i] = "threw"
  /\ Ends("crashed")
  /\ UNCHANGED <<handler, toolBox, signal, iteration, conversation, calls,
                 dispatchVars, tracker, late, events, awaited>>

StreamingNext ==
  \/ Pull \/ StartStreaming \/ CallbackThrows \/ StreamBeforeAgent \/ Iterate
  \/ StreamCallsModel \/ StreamModelFails \/ StreamModelAnswers \/ StreamAfterAgent
  \/ StreamDispatches \/ AwaitTool \/ ToolAnswered \/ StreamBatchEnds
  \/ StreamReturnsAtLast \/ CloseGenerator \/ UnhandledRejection
  \/ (Streaming /\ outcome # "crashed" /\ ToolStep /\ UNCHANGED streamingVars)

-----------------------------------------------------------------------------
(* Properties                                                              *)

Told(type) == {p \in DOMAIN events : events[p].type = type}
Before(p, type, call) == \E q \in 1 .. p - 1 : events[q].type = type /\ events[q].call = call

(* Whatever the tools' order of ending, the stream reports them the way a  *)
(* client can follow: results come in the order the calls were announced,  *)
(* none skipped and none twice, each right after the verdict on the same   *)
(* call; an artifact comes after the result of the call that made it, and  *)
(* an iteration is only called completed when every call announced before  *)
(* has its verdict (handle).                                               *)
EventsInOrder ==
  /\ \A type \in {"toolStarted", "toolResult"} :
       \A p, q \in Told(type) : events[p].call = events[q].call => p = q
  /\ \A p \in Told("toolResult") :
       /\ \E q \in Told("toolStarted") :
            /\ q < p /\ events[q].call = events[p].call
            /\ \A earlier \in Told("toolStarted") :
                 earlier < q => Before(p, "toolResult", events[earlier].call)
       /\ p - 1 \in Told("toolCompleted") \cup Told("toolFailed")
       /\ events[p - 1].call = events[p].call
  /\ \A p \in Told("artifactCreated") : Before(p, "toolResult", events[p].call)
  /\ \A p \in Told("iterationCompleted"), q \in Told("toolStarted") :
       q < p => \/ Before(p, "toolCompleted", events[q].call)
                \/ Before(p, "toolFailed", events[q].call)

(* A run that was neither aborted, closed nor broken by a throw has shown  *)
(* every artifact the service stored, once.                                *)
ArtifactsStreamed ==
  LET shown == Told("artifactCreated")
      artifacts == {events[p].call : p \in shown}
  IN  /\ \A p, q \in shown : events[p].call = events[q].call => p = q
      /\ artifacts \subseteq stored
      /\ Streaming /\ outcome = "returned" => artifacts = stored

(* A callback error fails the task through the handler that ran it: it     *)
(* never takes the process down ("a thrown error in any callback propagates*)
(* out of the surrounding task handler, failing the task with the error    *)
(* message", callbacks.ts).                                                *)
CallbackErrorsPropagate == outcome # "crashed"
=============================================================================
