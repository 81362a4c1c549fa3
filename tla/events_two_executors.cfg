\* Two executors at once, a reviewer, five runs of three observations.
SPECIFICATION Spec
CONSTANTS
  Executors = {x1, x2}
  Observations = {"announce", "move", "postpone"}  Said <- Moves
  Companies = {"acme"}  Stages = {"oa", "gd"}  Dates = {10, 12, 40}  Venues = {"hall"}
  MaxRuns = 5  MaxEdits = 1
CHECK_DEADLOCK FALSE
SYMMETRY ExecutorSymmetry
INVARIANTS KeyFollowsDate TwinsOnlyByEdit
PROPERTIES HistoryTellsEveryChange
