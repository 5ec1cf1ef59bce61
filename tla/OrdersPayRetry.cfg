\* One call at a time: what becomes of a payment for a declined order?
SPECIFICATION Spec
CONSTANTS
  v1 = v1
  v2 = v2
  Variant = {v1}
  MaxWarehouses = 1
  Admin = {}
  ReceiptSizes = {}
  AdjustDeltas = {}
  InitialStock = 1
  MaxReceived = 1
  MaxAdjusted = 0
  Clerk = {}
  Order = {o1}
  Call = {c1}
  Worker = worker
  None = None
  Carts <- OneOfOne
  PatchTargets <- ByHand
  Faults = FALSE
  MaxHistory = 10
  MaxPayments = 2
  MaxShipments = 1
INVARIANTS
  SucceededPaymentPays
CHECK_DEADLOCK FALSE
