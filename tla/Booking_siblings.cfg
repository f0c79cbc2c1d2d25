SPECIFICATION Spec
CONSTANTS
  Shipments = {s1, s2}
  Workers = {w1, w2}
  Members = {m1}
  Awbs = {a1, a2}
  NoAwb = NoAwb
  Nobody = Nobody
  MaxAttempts = 1
  JobAttempts = 1
  MaxStalls = 1
  Outstanding = 1
  Allowance = 1
  OveragePermitted = FALSE
  InitialModes = {"LIVE", "TEST"}
  Budget <- SiblingFaults
SYMMETRY Symmetry
INVARIANTS
  TypeOK
  AwbUnique
  OneCarrier
  DebitOnlyBooked
  UnknownIsResolvable
PROPERTIES
  ConfirmedIsStable
CHECK_DEADLOCK FALSE
