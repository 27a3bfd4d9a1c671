SPECIFICATION WorkspaceSpec
CONSTANTS
  Call = {c1}
  Session = {s1}
  Saved = {m1, m2}
  Edit = {e1}
  None = None
  MaxCalls = 2
  MaxSaves = 1
  MaxFailures = 0
  MaxPlans = 1
CHECK_DEADLOCK FALSE
PROPERTY AppliedIsPlanned
