SPECIFICATION FairSpec
CONSTANTS
  Shipments = {s1}
  Cancellers = {}
  Schedulers = {}
  Workers = {w1}
  Viewers = {v1}
  Statuses = {"UNMAPPED", "PICKUP_SCHEDULED", "UNDELIVERED_ATTEMPT", "DELIVERED", "LOST_OR_DAMAGED"}
  MaxScans = 2
  MaxManifests = 1
  JobAttempts = 2
  MaxStalls = 1
  MaxVersionRetries = 5
  Nobody = Nobody
  Budget <- ScanFaults
INVARIANTS
  SeamsFireOnce
  OneEnding
PROPERTIES
  EndingsArrive
CHECK_DEADLOCK FALSE
