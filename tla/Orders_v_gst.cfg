SPECIFICATION MCSpec
CONSTANTS
  Ingests = {i1, i2}
  FOs = {f1}
  Elsewhere = {}
  Payloads <- MCPayloads
  CodGateways = {"cod"}
  Profiles <- MCProfiles
  Rules <- MCRules
  DefaultWeight = 1
  CanMerge = FALSE
  ExpiryPolicy = "HOLD"
  Pickup = TRUE
  Nobody = Nobody
  MaxEdits = 2
  MaxCrashes = 1
  MaxShipments = 2
  RuleIds = {1}
  Conditions = {"cod", "zone"}
  Contents <- MCContents
  InZone = "zone"
  Members = {m1, m2}
  Evaluations = {1}
  MaxVersion = 3
  Shipments = {1, 2}
  OrderOf <- MCOrderOf
  Complete = {}
  Sellers = {"g1"}
  Slots = {1, 2, 3}
  Services = {"a", "b"}
  Books <- MCBooks
  Chains <- MCChains
  Facts <- MCFacts
  StaleAfter = 1
  Focuses = {"gst"}
SYMMETRY Symmetry
INVARIANT
  BookedHasInvoice
CHECK_DEADLOCK FALSE
