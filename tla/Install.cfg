SPECIFICATION PagesSpec
CONSTANTS
  MaxNode = 2
  Root = Root  Gone = Gone
  Details <- MCDetails
  MaxPictures = 4
  Absent = Absent  NaN = NaN  Blank = Blank  Failed = Failed  None = None
  Param = Param  Open = Open
  Export = {e1}  MaxType = 4  MaxTree = 2  MaxRuns = 1  MaxDictEdits = 1
CHECK_DEADLOCK FALSE
INVARIANT SeedFinishes
