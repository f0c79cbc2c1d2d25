SPECIFICATION Spec
CONSTANTS
  Workers = {w1, w2}
  StaffUsers = {ann, bob}
  Focuses = {"access", "native", "console", "sync", "intake", "notices", "posts", "tickets", "confirm", "links", "lookup", "reports", "labels", "rollup", "upkeep", "erasure", "ship", "settings"}
  QuotedAccount = QuotedAccount
  CardAccount = CardAccount
  FreeAccount = FreeAccount
  Accounts <- MCAccounts
  DefaultChain <- MCChain
  CostSource <- MCSources
  Bands = {1, 2}
  Ttl = 1
  ShipDays = 1
  ShipEdits = 1
  MaxAsks = 2
  Sweepers = {"daily"}
  Month = 2
  Ahead = 1
  Horizon <- MCHorizon
  Batch = 2
  KeepDays = 6
  KeepItems = 1
  Parcels = {"t", "l"}
  Tests = {"t"}
  CarrierEvents = {"IN_TRANSIT"}
  TestShipment = FALSE
  MaxAttempts = 2
  CallsPerWindow = 2
  SyncFaults = 2
  MaxReplays = 2
  Nonces = {"n1", "n2"}
  Topics = {"orders"}
  Events = {"e"}
  IntakeFaults = 1
  ReportDays = 2
  Week = 2
  MaxJobs = 2
  ReportEdits = 1
  ReportFaults = 1
  Labelled = {"s"}
  LabelDocs = 3
  TemplateEdits = 1
  MaxStalls = 1
  NativeUsers = {"n"}
  EntrySessions = {1}
  MaxInstalls = 2
  Invites = {1, 2}
  Links = {1}
  LockThreshold = 2
  MaxSecrets = 2
  MaxResets = 1
  MaxFailures = 3
  ConsoleSessions = {1, 2}
  RequireTotp = TRUE
  MaxEnrolments = 1
  MaxDepartures = 1
  Keys = {"k1", "k2", "k3"}
  FormTables = {"store_settings", "track_page_config", "label_template", "recon_settings", "courier_account", "ndr_settings", "plan", "courier", "api_key"}
  MaxWrites = 2
  MaxPapers = 2
  MaxIngests = 1
  MaxRequests = 3
  MaxCrashes = 1
  ShopMembers = {"ann", "bob", "nat"}
  Mailed = {"nat"}
  AllowedAwbs = 5
  UsedAwbs = 3
  MaxMails = 2
  WarnedShops = {"s1", "s2"}
  MaxPublished = 2
  MaxTickets = 2
  MaxReplies = 4
  Windows = {1, 2}
  MaxAge = 2
  WindowEdits = 1
  MaxHooks = 2
  MaxLinks = 2
  MaxMoves = 2
  LinkFaults = 1
  Allowed = 4
  CaptchaAfter = 2
  MaxLookups = 5
  MaxLosses = 1
  Hours = 2
  Back = 1
  Promise = 0
  MaxScans = 2
  MaxSweeps = 2
SYMMETRY MCSym
INVARIANTS
  PeopleStand
  ExchangeStands
  MessagesStand
  PapersStand
  KeptForItsTime
  PricesStand
CHECK_DEADLOCK FALSE
