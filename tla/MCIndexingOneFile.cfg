SPECIFICATION FairIndexingSpec
CONSTANTS
  Path = {1}
  Nested = {1}
  Text = {t1}
  Mentioning = {t1}
  Missing = Missing
  None = None
  Blank = Blank
  NoRow = NoRow
  Incomplete = Incomplete
  MaxRetries = 1
  MaxChanges = 3
  MaxFaults = 1
CHECK_DEADLOCK FALSE
INVARIANT SearchIsCurrent
PROPERTY EverythingIsIndexed
