SPECIFICATION DemangleSpec
CONSTANTS
  Scenarios <- AllScenarios
  BufferLengths = {4, 60}
  nodeToString <- printRoot
  Depth = 20
INVARIANTS
  DemangleTypeOK
  MentionedKept
  KeptMentioned
  ContextsFirst
  Printable
  NamesShown
  FitsBuffer
PROPERTIES
  ParserReturns
\* The call is over once there is a reply, or once it has faulted.
CHECK_DEADLOCK FALSE
