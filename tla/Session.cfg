SPECIFICATION Spec
CONSTANTS
  Request <- Requests
  Ask <- Asked
  Account = {"admin", "dora", "carol"}
  Password = {"p", "q", "r"}
  MaxUser = 4
  FirstUsers <- TwoUsers
  None = None
CHECK_DEADLOCK FALSE
CONSTRAINT OneFight
INVARIANTS SessionKept SessionInv AccountUnique
PROPERTIES SpentStaysSpent AdminsStay
