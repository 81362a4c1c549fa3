\* An image no parser handles, and a PDF: one fault, one recovery, every replay.
SPECIFICATION FairSpec
CONSTANTS
  w1 = w1  image = image  pdf = pdf
  Worker = w1  Workers = {w1}  NoWorker = none  Attempts = 2  MaxStalled = 1
  Files = {image, pdf}  NoFile = nofile  Oldest <- ImageFirst
  Parsable = {pdf}  BatchSize = 2
  MaxFaults = 1  MaxFanOuts = 1  MaxRecoveries = 1
CHECK_DEADLOCK FALSE
INVARIANTS IInv
PROPERTIES AnswersAsPromised DrainLeavesOnlyLate RunEnds BacklogDrains
