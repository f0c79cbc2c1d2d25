SPECIFICATION Spec
CONSTANTS
  Focuses = {"billing", "cod", "freight", "quotes"}
  Workers = {w1, w2}
  Parcels = {p1, p2}
  Allowance = 0
  Cap = 1
  MaxCharges = 2
  MaxRows = 2
  MaxAmbiguous = 1
  MaxActivity = 3
  Docked = {"docked"}
  Readable = {2}
  Files <- MCFiles
  Owed = 10
  Tolerance = 1
  MaxUploads = 2
  MaxDeaths = 1
  Booked <- MCBooked
  Invoices <- MCInvoices
  AmountTolerance = 0
  ControlFloor = 0
  MaxReuploads = 2
  MaxActs = 2
  MaxRestarts = 1
  Seller <- MCSeller
  Tariffs <- MCTariffs
  Goods <- MCGoods
  Days = {1, 2, 3}
SYMMETRY Symmetry
INVARIANTS
  NoFreeCredit
  ResolvedIsSettled
  HonestBillPasses
PROPERTIES
  RtoSticks
CHECK_DEADLOCK FALSE
