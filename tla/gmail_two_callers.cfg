\* The scheduler and a request, two messages, one reconnection, one fault.
SPECIFICATION FairSpec
CONSTANTS
  scheduler = scheduler  request = request
  Callers = {scheduler, request}  Scheduler = scheduler
  MaxMessages = 2  MaxTokens = 2  MaxFaults = 1
INVARIANTS IInv NoGaps
PROPERTIES EventuallyStored
