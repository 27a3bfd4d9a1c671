SPECIFICATION WorkspaceSpec
CONSTANTS
  Call = {c1, c2}
  Session = {s1, s2}
  Saved = {m1}
  Edit = {e1}
  None = None
  MaxCalls = 2
  MaxSaves = 0
  MaxFailures = 0
  MaxPlans = 1
SYMMETRY MCSymmetry
CHECK_DEADLOCK FALSE
INVARIANT SessionsAreIsolated
