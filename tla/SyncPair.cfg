SPECIFICATION PairSpec
CONSTANTS
  Push = {"p1", "p2"}
  Factory = {"F1", "F2"}
  Unit = {"u1"}
  Tag = {"a", "b"}
  SerialNumber = {"s1", "s2", "N/A"}
  Placeholder = {"N/A"}
  WorkOrderNo = {"w1", "w2"}
  Data = {"d0", "d1"}
  Absent = Absent
  None = None
  InitialStores <- TwoPlants
  Payload <- PairPayload
  Host = {"vls-a", "vls-b"}
  HostOf <- OneOnA
  AckMayBeLost = FALSE
  Import = {"i1", "i2", "i3"}
  Sheet <- TwinSheets
  DeviceForms <- DeviceColumns
  ValveForms <- ValveColumns
  MaxAssetEdits = 1
CHECK_DEADLOCK FALSE
INVARIANTS DuplicatesOnlyByImports MountedUnlessMoved IndexSafeAcrossWriters SerialUnique SummaryTrue
