SPECIFICATION ReadSpec
CONSTANTS
  None = None
  Items = {"x"}
  Prompts = {}
  Provisions <- Nothing
  Plans <- TalkOnly
  Replies <- ReplyTo
  Bounds <- Limits
  Exporter = {}
  Inputs = 0
  Absent = Absent
  Probers = {}
INVARIANT StatusTrue
CHECK_DEADLOCK FALSE
