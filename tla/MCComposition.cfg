SPECIFICATION Spec
CONSTANTS
  Names <- RecipeIds
  Profiles <- BackendProfiles
  Settings <- Installations
  SuppliedPlans <- Sequences
  MaxSessions = 4
INVARIANTS CompositionTypeOK DepthSpent PreflightSound BackendsProbed FirstRequestServed
CHECK_DEADLOCK FALSE
