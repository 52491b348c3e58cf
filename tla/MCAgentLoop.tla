---------------------------- MODULE MCAgentLoop ----------------------------
(* A task is given to one of the two default handlers.                     *)
EXTENDS BackgroundHandler, StreamingHandler, TLC

MCHistory == <<[role |-> "ROLE_AGENT", text |-> FALSE], [role |-> "ROLE_USER", text |-> TRUE]>>

vars == <<agentVars, backgroundVars, streamingVars>>

Init ==
  /\ handler \in {"background", "streaming"}
  /\ AgentInit /\ BackgroundInit /\ StreamingInit
  /\ handler = "streaming" => task.state = "PENDING"

AbortRun == Abort /\ UNCHANGED <<backgroundVars, streamingVars>>

Next ==
  \/ AbortRun
  \/ (BackgroundNext /\ UNCHANGED streamingVars)
  \/ (StreamingNext /\ UNCHANGED backgroundVars)

Spec == Init /\ [][Next]_vars

(* The model and the tools answer, the consumer of a stream reads on.      *)
FairSpec ==
  /\ Spec
  /\ WF_vars(BackgroundNext /\ UNCHANGED streamingVars)
  /\ WF_vars(StreamingNext /\ UNCHANGED backgroundVars)

TypeOK == AgentTypeOK /\ BackgroundTypeOK

(* Whatever the model, the tools and the callbacks do, and whenever the    *)
(* abort comes, the run ends: the iteration cap, the rejected batch and the*)
(* signal leave no way to wait for ever.                                   *)
RunsEnd == <>(pc = "done")
=============================================================================
