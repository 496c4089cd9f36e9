SPECIFICATION Spec
CONSTANTS
  None = None
  Items = {"x", "y"}
  Prompts = {}
  Provisions <- Inputs
  Plans <- StepPlans
  Replies <- ReplyTo
  Bounds <- Once
INVARIANT StaticSparesBudget
CHECK_DEADLOCK FALSE
