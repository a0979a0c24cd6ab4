SPECIFICATION WaitingSpec
CONSTANTS
  Push = {"p1", "p2", "p3", "p4"}
  Factory = {"F1", "F2"}
  Unit = {"u1", "u2"}
  Tag = {"a", "b"}
  SerialNumber = {"s1", "s2", "s3", "N/A"}
  Placeholder = {"N/A"}
  WorkOrderNo = {"w1", "w2"}
  Data = {"d0", "d1", "d2"}
  Absent = Absent
  None = None
  InitialStores <- KnownPlant
  Payload <- WaitingPayload
  Host = {"vls-a", "vls-b"}
  HostOf <- WaitingHosts
  AckMayBeLost = FALSE
  Import = {"i1"}
  Sheet <- ShortSheet
  DeviceForms = {}
  ValveForms = {}
  MaxAssetEdits = 0
CHECK_DEADLOCK FALSE
PROPERTY EveryWriterEnds
