\* One apply; two writes by others, anywhere.
SPECIFICATION Spec
CONSTANTS
  Inventory <- Rows  Canonical <- Spelled  DELETE_IDS <- Order
  Expected = {54, 68, 71, 72, 77}  HUL_SURVIVOR = 68  HUL_DUPLICATE = 71  EVENT_54 = 54
  DO_NOT_TOUCH_IDS = {37}  ApprovedGroups = {{68, 71}, {72, 77}}
  NewIds = {90}  Dates = {1, 2}  Venues = {"campus", "tpo"}
  MaxWrites = 2
CHECK_DEADLOCK FALSE
INVARIANTS IInv NothingUnreported PlanDelivers OnlyOthersCollide
PROPERTIES DeletesOnlyAsReviewed HistoryExported
