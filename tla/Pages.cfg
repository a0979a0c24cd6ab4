SPECIFICATION PagesSpec
CONSTANTS
  MaxNode = 5
  Root = Root  Gone = Gone
  Details <- MCDetails
  MaxPictures = 4
  Absent = Absent  NaN = NaN  Blank = Blank  Failed = Failed  None = None
  Param = Param  Open = Open
  Export = {e1, e2}  MaxType = 4  MaxTree = 3  MaxRuns = 2  MaxDictEdits = 2
CHECK_DEADLOCK FALSE
INVARIANTS TreeShowsRooted OnlyCyclesHide AlarmTableFaithful ProblemsDrawn CellsUnderHeadings RoutesUsable ExportedAsSeeded
