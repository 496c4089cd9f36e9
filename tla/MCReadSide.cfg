SPECIFICATION ReadSpec
CONSTANTS
  None = None
  Items = {"x"}
  Prompts = {}
  Provisions <- Nothing
  Plans <- ReadPlans
  Replies <- ReplyTo
  Bounds <- Limits
  Exporter = {e1, e2}
  Inputs = 0
  Absent = Absent
  Probers = {p1}
INVARIANTS ReadTypeOK ViewsAgree DiagnosticsTrue StatusTold BundleTrue
PROPERTY PublishedOnce
CHECK_DEADLOCK FALSE
