SPECIFICATION Spec
CONSTANTS
  None = None
  Items = {"x", "y"}
  Prompts = {}
  Provisions <- Inputs
  Plans <- ReducerPlans
  Replies <- ReplyTo
  Bounds <- Once
INVARIANT ReducerDecides
CHECK_DEADLOCK FALSE
