SPECIFICATION Spec
CONSTANTS
  None = None
  Items = {"x", "y"}
  Prompts = {p1, p2}
  Provisions <- Inputs
  Plans <- EnginePlans
  Replies <- ReplyTo
  Bounds <- Limits
INVARIANTS TypeOK NoDeadEnd AttemptsJustified SteeringInOrder CompletedMeansValid ChildrenAccounted
PROPERTIES CancelRecordsNoFailure ConversationWaits RunReturns ImplementsRelay
CHECK_DEADLOCK FALSE
