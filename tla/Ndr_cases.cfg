SPECIFICATION FairSpec
CONSTANTS
  Shipments = {s1}
  Attempts = {a1, a2}
  Requests = {r1}
  MaxVersionRetries = 3
  MaxCrashes = 1
INVARIANTS
  AttemptsCountedOnce
  AcksOnRecord
  SubmittedIsAttended
PROPERTIES
  ImplementsCases
  CasesClose
CHECK_DEADLOCK FALSE
