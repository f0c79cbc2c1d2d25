SPECIFICATION Spec
CONSTANTS
  Shipments = {s1}
  Cancellers = {c1, c2}
  Schedulers = {p1}
  Workers = {w1, w2}
  Viewers = {}
  Statuses = {"PICKED_UP", "DELIVERED", "CANCELLED_BY_COURIER"}
  MaxScans = 2
  MaxManifests = 1
  JobAttempts = 2
  MaxStalls = 1
  MaxVersionRetries = 1
  Nobody = Nobody
  Budget <- RaceFaults
SYMMETRY Symmetry
INVARIANTS
  SoleCanceller
  PickupSurfaced
  ScansTakeEffect
PROPERTIES
  ImplementsMachines
CHECK_DEADLOCK FALSE
