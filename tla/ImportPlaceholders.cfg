SPECIFICATION ImportSpec
CONSTANTS
  Push = {}
  Factory = {"F1"}
  Unit = {"u1", "u2"}
  Tag = {"a", "b"}
  SerialNumber = {"s1", "s2", "N/A"}
  Placeholder = {"N/A"}
  WorkOrderNo = {}
  Data = {"d0"}
  Absent = Absent
  None = None
  InitialStores <- KnownPlant
  Import = {"i1"}
  Sheet <- PlaceholderSheet
CHECK_DEADLOCK FALSE
INVARIANT PlaceholdersKept
