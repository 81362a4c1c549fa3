\* Every email of the instance read twice, with any answers, over a new year.
SPECIFICATION Spec
CONSTANTS
  Mails <- SomeMails  Answers <- SomeAnswers  Canon <- CanonName
  Noise = {"unknown", "none", "https", "the"}  Short = {"hp"}
  MonthDays = 4  YearMonths = 2  FirstDay = 15  LastDay = 16
  MaxReadings = 2
CHECK_DEADLOCK FALSE
INVARIANTS OnANamedDay SameIdentity TrustIsEarned PassesWithItsDay
