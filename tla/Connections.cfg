SPECIFICATION Spec
CONSTANTS
  Processes = {p1, p2}
  Alone = {"getQuote", "getLabel", "schedulePickup", "ndrAction"}
  MaxAdapterFaults = 1
  Apps = {"app"}
  Home <- OneApp
  Threshold = 2
  Capacity = 1
  Reserve = 1
  MaxReplaces = 1
  Couriers = {"delhivery", "shiprocket", "bluedart", "amazon_shipping", "xpressbees", "dtdc", "shadowfax"}
  LastDay = 2
  MaxReleases = 2
  MaxRows = 3
  Batches = {1, 2}
  Runs = {1, 2}
  BulkLimit = 1
  JobAttempts = 2
  SweepCap = 1
  MaxTroubles = 1
SYMMETRY Symmetry
INVARIANTS
  AnswersAreTrue
  AccountIsObeyed
  CatalogueStands
  BulkStands
CHECK_DEADLOCK FALSE
