\* One email with one attachment, two worker processes, up to two faults, one attempt.
SPECIFICATION Spec
CONSTANTS
  e1 = e1  e2 = e2  a1 = a1  a2 = a2
  Emails = {e1}  NoEmail = NoEmail
  Attachments = {a1}  EmailOf <- OnFirst
  Workers = {w1, w2}  NoWorker = NoWorker
  Attempts = 1  MaxStalled = 1  MaxFaults = 2
SYMMETRY WorkerSymmetry
INVARIANTS AnswersFollowExtraction
PROPERTIES FinishedMeansHandled
