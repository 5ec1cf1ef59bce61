\* Two API calls and the worker on one order, without failures, from the cart past the
\* delivery: payments, shipments and the timeout racing, and what fairness makes happen.
SPECIFICATION FairSpec
CONSTANTS
  v1 = v1
  v2 = v2
  Variant = {v1}
  MaxWarehouses = 1
  Admin = {}
  ReceiptSizes = {}
  AdjustDeltas = {}
  InitialStock = 1
  MaxReceived = 1
  MaxAdjusted = 0
  Clerk = {}
  Order = {o1}
  Call = {c1, c2}
  Worker = worker
  None = None
  Carts <- OneOfOne
  PatchTargets <- ByHand
  Faults = FALSE
  MaxHistory = 7
  MaxPayments = 2
  MaxShipments = 1
INVARIANTS
  TypeOK
  PhaseMatchesStock
  BackedByShipment
  PendingHasTimeout
  BackedByPayment
PROPERTIES
  TimeoutReached
  HistoryIsALog
CHECK_DEADLOCK FALSE
