\* One checkout of items sold by halves and by whole units, at prices that do not come
\* out even, while the cart, the prices and the customer's list change.
SPECIFICATION CheckoutSpec
CONSTANTS
  v1 = v1
  v2 = v2
  retail = retail
  wholesale = wholesale
  v3 = v3
  u1 = u1
  u2 = u2
  Variant = {v1, v2, v3}
  MaxWarehouses = 1
  Admin = {}
  ReceiptSizes = {}
  AdjustDeltas = {}
  InitialStock = 2
  MaxReceived = 2
  MaxAdjusted = 0
  Clerk = {}
  Order = {o1}
  Call = {c1}
  Worker = worker
  None = None
  Carts <- Baskets
  PatchTargets = {}
  Faults = FALSE
  MaxHistory = 0
  MaxPayments = 0
  MaxShipments = 0
  Customer = {u1}
  PriceList = {retail, wholesale}
  Retail = retail
  Amounts = {2}
  InitialPrice <- RetailOnly
  MaxQuantity = 2
  Divisible = {v1, v2}
  PerUnit = 2
  Tab = {t1}
  Coupon = {}
  CouponTerms = {}
  CouponLimits = {}
  Key = {}
  MaxEdits = 5
SYMMETRY LinesSymmetry
INVARIANTS
  ChargedAsListed
CHECK_DEADLOCK FALSE
