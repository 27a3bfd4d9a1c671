SPECIFICATION MCIndexingSpec
CONSTANTS
  Path = {1, 2}
  Nested = {2}
  t1 = t1
  t2 = t2
  Text = {t1, t2}
  Mentioning = {t1}
  Missing = Missing
  None = None
  Blank = Blank
  NoRow = NoRow
  Incomplete = Incomplete
  MaxRetries = 1
  MaxChanges = 1
  MaxFaults = 1
CHECK_DEADLOCK FALSE
INVARIANTS
  NeverPartialSuccess
