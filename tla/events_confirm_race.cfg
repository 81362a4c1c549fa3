\* One executor and a reviewer.
SPECIFICATION Spec
CONSTANTS
  Executors = {x1}
  Observations = {"announce", "move", "postpone"}  Said <- Moves
  Companies = {"acme"}  Stages = {"oa", "gd"}  Dates = {10, 12, 40}  Venues = {"hall"}
  MaxRuns = 3  MaxEdits = 1
CHECK_DEADLOCK FALSE
PROPERTIES ConfirmedIsFinal
