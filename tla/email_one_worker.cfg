\* One email with an attachment, one worker, two faults, three attempts.
SPECIFICATION FairSpec
CONSTANTS
  e1 = e1  e2 = e2  a1 = a1  a2 = a2
  Emails = {e1}  NoEmail = NoEmail
  Attachments = {a1}  EmailOf <- OnFirst
  Workers = {w1}  NoWorker = NoWorker
  Attempts = 3  MaxStalled = 1  MaxFaults = 2
INVARIANTS NoLimbo CompletedIsDone IInv
PROPERTIES EventuallyAtRest
