\* Two checkouts at once for two orders' worth of stock, in whole units, while carts,
\* prices and coupons change, with failures half-way.
SPECIFICATION CheckoutSpec
CONSTANTS
  v1 = v1
  v2 = v2
  v3 = v3
  retail = retail
  wholesale = wholesale
  u1 = u1
  u2 = u2
  Variant = {v1}
  MaxWarehouses = 1
  Admin = {}
  ReceiptSizes = {}
  AdjustDeltas = {}
  InitialStock = 2
  MaxReceived = 2
  MaxAdjusted = 0
  Clerk = {}
  Order = {o1, o2}
  Call = {c1, c2}
  Worker = worker
  None = None
  Carts <- Baskets
  PatchTargets = {}
  Faults = TRUE
  MaxHistory = 0
  MaxPayments = 0
  MaxShipments = 0
  Customer = {u1}
  PriceList = {retail, wholesale}
  Retail = retail
  Amounts = {2}
  InitialPrice <- RetailOnly
  MaxQuantity = 2
  Divisible = {}
  PerUnit = 1
  Tab = {t1}
  Coupon = {k1}
  CouponTerms <- Terms
  CouponLimits = {1}
  Key = {key1}
  MaxEdits = 4
SYMMETRY CheckoutSymmetry
INVARIANTS
  CouponCountsOrders
  OneOrderPerKey
  DiscountWithinSubtotal
  NoOversell
PROPERTIES
  ImplementsOrders
  CouponWithinLimit
CHECK_DEADLOCK FALSE
