SPECIFICATION FairSpec
CONSTANTS
  History <- MCHistory
  SystemPrompt = TRUE
  MaxConversationHistory = 2
  MaxIterations = 2
  Tools = {"input_required", "create_artifact"}
  CalledNames = {"input_required", "create_artifact", "lookup"}
  MaxCalls = 2
  CallbacksMayThrow = TRUE
  EnableUsageMetadata = TRUE
  SpeaksBesideCalls = TRUE
CHECK_DEADLOCK FALSE
INVARIANTS
  TypeOK
  ConversationSound
  AbortBounded
  ArtifactsKept
  VerdictFits
  EventsInOrder
  ArtifactsStreamed
PROPERTIES
  RunsEnd
