SPECIFICATION FairSpec
CONSTANTS
  Shipments = {s1, s2}
  Workers = {w1, w2}
  Members = {}
  Awbs = {a1, a2}
  NoAwb = NoAwb
  Nobody = Nobody
  MaxAttempts = 1
  JobAttempts = 2
  MaxStalls = 1
  Outstanding = 1
  Allowance = 2
  OveragePermitted = FALSE
  InitialModes = {"LIVE", "TEST"}
  Budget <- NoFaults
PROPERTIES
  AttemptsSettle
CHECK_DEADLOCK FALSE
