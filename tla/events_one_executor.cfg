\* One executor, a reviewer, five runs of five observations of two rounds.
SPECIFICATION Spec
CONSTANTS
  Executors = {x1}
  Observations = {"oa", "gd", "room", "later", "rumour"}  Said <- Rounds
  Companies = {"acme"}  Stages = {"oa", "gd", "unknown"}  Dates = {10, 12}  Venues = {"hall"}
  MaxRuns = 5  MaxEdits = 1
CHECK_DEADLOCK FALSE
INVARIANTS IInv HistoryChains
PROPERTIES TrustLostOnlyFromConfirmed
