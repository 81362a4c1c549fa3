\* A revoked token, a reconnection, no fault.
SPECIFICATION Spec
CONSTANTS
  scheduler = scheduler  request = request
  Callers = {scheduler, request}  Scheduler = scheduler
  MaxMessages = 1  MaxTokens = 2  MaxFaults = 0
INVARIANTS HealthyIsEligible
