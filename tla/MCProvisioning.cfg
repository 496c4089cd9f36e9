CONSTANTS
  Launch = launch
  Resumer = {r1, r2}
  Cleaner = {c1}
  None = None
  Inputs = 2
SPECIFICATION Spec
INVARIANTS
  TypeOK
  StartsProvisioned
  WorkspaceRecorded
  WorktreeOwned
  LauncherTruth
PROPERTY LauncherAnswers
CHECK_DEADLOCK FALSE
