\* Two orders compete for one unit while warehouses come and go and the stockroom
\* receives and counts stock, with calls and the worker dying half-way.
SPECIFICATION Spec
CONSTANTS
  v1 = v1
  v2 = v2
  Variant = {v1}
  MaxWarehouses = 2
  Admin = {a1}
  ReceiptSizes = {1}
  AdjustDeltas <- OneDown
  InitialStock = 1
  MaxReceived = 1
  MaxAdjusted = 1
  Clerk = {k1}
  Order = {o1, o2}
  Call = {c1}
  Worker = worker
  None = None
  Carts <- OneOfOne
  PatchTargets <- EarlyTargets
  Faults = TRUE
  MaxHistory = 3
  MaxPayments = 0
  MaxShipments = 1
CONSTRAINT StocktakesFirst
SYMMETRY OrderSymmetry
INVARIANTS
  LedgerBalanced
  ReservedMatchesOpenOrders
  SomeActive
CHECK_DEADLOCK FALSE
