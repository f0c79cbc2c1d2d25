SPECIFICATION FairSpec
CONSTANTS
  Shipments = {s1}
  Workers = {w1, w2}
  Members = {m1}
  Awbs = {a1, a2}
  NoAwb = NoAwb
  Nobody = Nobody
  MaxAttempts = 2
  JobAttempts = 2
  MaxStalls = 1
  Outstanding = 0
  Allowance = 2
  OveragePermitted = FALSE
  InitialModes = {"LIVE"}
  Budget <- CrashFaults
INVARIANTS
  IntentsSettled
  NoOrphanParcel
PROPERTIES
  NoCreateWhileUnknown
  AttemptsSettle
CHECK_DEADLOCK FALSE
