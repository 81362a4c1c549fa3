\* One browser with two requests at once, one sign-in, two faults.
SPECIFICATION Spec
CONSTANTS
  r1 = r1  r2 = r2  s1 = s1  s2 = s2  s3 = s3  s4 = s4
  Slots = {r1, r2}  Sids = {s1, s2}  NoSid = nosid  NoFlow = 0
  MaxFlows = 1  MaxFaults = 2
SYMMETRY WebSymmetry
INVARIANTS IInv Revocable NothingTurnsForever
PROPERTIES AnonymousStaysAnonymous GoodSessionsSurvive
