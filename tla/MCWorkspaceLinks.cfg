SPECIFICATION WorkspaceSpec
CONSTANTS
  Call = {c1, c2}
  Session = {s1, s2}
  Saved = {m1, m2}
  Edit = {e1}
  None = None
  MaxCalls = 2
  MaxSaves = 1
  MaxFailures = 1
  MaxPlans = 1
SYMMETRY MCSymmetry
CHECK_DEADLOCK FALSE
PROPERTY ImplementsDocuments
