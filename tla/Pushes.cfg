SPECIFICATION PushSpec
CONSTANTS
  Push = {"p1", "p2", "p3", "p4"}
  Factory = {"F1", "F2"}
  Unit = {"u1", "u2"}
  Tag = {"a", "b"}
  SerialNumber = {"s1", "s2", "s3", "N/A"}
  Placeholder = {"N/A"}
  WorkOrderNo = {"w1", "w2"}
  Data = {"d0", "d1", "d2"}
  Absent = Absent
  None = None
  InitialStores <- RaceStores
  Payload <- PairsPayload
  Host = {"vls-a", "vls-b"}
  HostOf <- OneOnA
  AckMayBeLost = FALSE
CHECK_DEADLOCK FALSE
CONSTRAINT OnePair
INVARIANTS DeviceUnique FailureMeansRolledBack PushInv WorkOrderAtHome
PROPERTIES NoNewDuplicateTag OwnPlantOnly WorkOrderKeepsPlant
