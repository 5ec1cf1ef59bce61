\* A payment and the timeout job on one order.
SPECIFICATION FairSpec
CONSTANTS
  v1 = v1
  v2 = v2
  Variant = {v1}
  MaxWarehouses = 1
  Admin = {}
  ReceiptSizes = {}
  AdjustDeltas = {}
  InitialStock = 1
  MaxReceived = 1
  MaxAdjusted = 0
  Clerk = {}
  Order = {o1}
  Call = {c1}
  Worker = worker
  None = None
  Carts <- OneOfOne
  PatchTargets <- ByHand
  Faults = FALSE
  MaxHistory = 10
  MaxPayments = 2
  MaxShipments = 1
PROPERTIES
  JobSparesPaid
CHECK_DEADLOCK FALSE
