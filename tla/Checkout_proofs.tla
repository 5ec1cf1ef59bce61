-------------------------- MODULE Checkout_proofs ---------------------------
(* Machine-checked proofs about Checkout: it implements Orders, so that what   *)
(* is proved of Orders holds of it, and it keeps keys and coupons to their     *)
(* limits.                                                                     *)
EXTENDS Checkout, OrderHistory_proofs, FiniteSetTheorems

\* What a checkout has read of the cart is an order the cart may become.
Fields == {"pc", "user", "key", "coupon", "items", "price", "list", "subtotal",
           "list2", "discount"}

ReadsCart(k) ==
  \/ k = NoCheckout
  \/ /\ DOMAIN k = Fields
     /\ k.pc # "idle"
     /\ k.items \in CartQuantities \ {NoItems}

\* The invariant the proofs rest on: carts stay within their bound, and what a
\* checkout works on was read from one.
CartInv ==
  /\ CartsTypeOK
  /\ \A c \in Call : ReadsCart(checkout[c])

\* A step that works on a checkout leaves alone what it has read of the cart.
LEMMA StillReadsCart ==
  ASSUME NEW k, ReadsCart(k), k.pc # "idle",
         NEW r, DOMAIN r = DOMAIN k, r.pc # "idle", r.items = k.items
  PROVE  ReadsCart(r)
BY DEF ReadsCart, NoCheckout

\* An empty cart, and the whole quantities among those a cart may hold.
LEMMA EmptyCart == NoItems \in CartQuantities
<1>1. 0 % PerUnit = 0
  BY PricingAssumption
<1> QED
  BY <1>1, CartsAssumption DEF NoItems, CartQuantities, Sold

\* What a cart holds stays within its bound if what is written to it does.
LEMMA CartEntry ==
  ASSUME NEW q \in CartQuantities, NEW v \in Variant, NEW n \in 0..MaxQuantity, Sold(v, n)
  PROVE  [q EXCEPT ![v] = n] \in CartQuantities
BY DEF CartQuantities

LEMMA CartInit == CheckoutInit => CartInv
<1> USE DEF CheckoutInit, CartInv, CartsTypeOK, CartsInit, Add
<1> SUFFICES ASSUME CheckoutInit PROVE CartInv
  OBVIOUS
<1>1. cart \in [Customer -> CartQuantities]
  BY EmptyCart
<1>2. adding \in [Tab -> Add]
  OBVIOUS
<1>3. ASSUME NEW c \in Call PROVE ReadsCart(checkout[c])
  BY <1>3 DEF ReadsCart
<1> QED
  BY <1>1, <1>2, <1>3

\* The operations of cart.service.ts keep carts within their bound.
LEMMA CartStep ==
  ASSUME CartsTypeOK, CartsNext
  PROVE  CartsTypeOK'
<1> USE DEF CartsTypeOK
<1>1. ASSUME NEW t \in Tab, NEW u \in Customer, NEW v \in Variant, NEW n \in 1..MaxQuantity,
             AddRead(t, u, v, n)
      PROVE  CartsTypeOK'
  <2>1. cart[u][v] \in 0..MaxQuantity
    BY DEF CartQuantities
  <2>2. cart[u][v] + n \in 1..MaxQuantity /\ Sold(v, n) /\ Sold(v, cart[u][v] + n)
    BY <1>1, <2>1, CartsAssumption DEF AddRead
  <2>3. [pc |-> "write", user |-> u, variant |-> v, quantity |-> n,
         newQuantity |-> cart[u][v] + n] \in Add
    BY <2>2 DEF Add
  <2> QED
    BY <1>1, <2>3 DEF AddRead
<1>2. ASSUME NEW t \in Tab, AddWrite(t)
      PROVE  CartsTypeOK'
  <2> DEFINE a == adding[t]
             n == IF cart[a.user][a.variant] = 0 THEN a.quantity ELSE a.newQuantity
  <2>1. a \in Add /\ a # NoAdd
    BY <1>2 DEF AddWrite
  <2>2. /\ a.user \in Customer /\ a.variant \in Variant
        /\ a.quantity \in 1..MaxQuantity /\ a.newQuantity \in 1..MaxQuantity
        /\ Sold(a.variant, a.quantity) /\ Sold(a.variant, a.newQuantity)
    BY <2>1 DEF Add
  <2>3. n \in 0..MaxQuantity /\ Sold(a.variant, n)
    BY <2>2, CartsAssumption
  <2>4. [cart[a.user] EXCEPT ![a.variant] = n] \in CartQuantities
    BY <2>2, <2>3, CartEntry
  <2>5. cart' = [cart EXCEPT ![a.user] = [cart[a.user] EXCEPT ![a.variant] = n]]
    BY <1>2 DEF AddWrite
  <2>6. cart' \in [Customer -> CartQuantities]
    BY <2>4, <2>5
  <2>7. adding' \in [Tab -> Add]
    BY <1>2 DEF AddWrite, Add
  <2> QED
    BY <2>6, <2>7
<1>3. ASSUME NEW u \in Customer, NEW v \in Variant, NEW n \in 0..MaxQuantity, UpdateItem(u, v, n)
      PROVE  CartsTypeOK'
  <2>1. [cart[u] EXCEPT ![v] = n] \in CartQuantities
    BY <1>3, CartEntry DEF UpdateItem
  <2> QED
    BY <1>3, <2>1 DEF UpdateItem
<1>4. ASSUME NEW u \in Customer, Clear(u)
      PROVE  CartsTypeOK'
  BY <1>4, EmptyCart DEF Clear
<1> QED
  BY <1>1, <1>2, <1>3, <1>4 DEF CartsNext

\* Every step of Checkout keeps the invariant.
LEMMA CartInvStep ==
  ASSUME CartInv, [CheckoutNext]_allVars
  PROVE  CartInv'
<1>1. ASSUME UNCHANGED <<cartVars, checkout>>
      PROVE  CartInv'
  BY <1>1 DEF CartInv, CartsTypeOK, cartVars
<1>2. ASSUME NEW c \in Call, NEW k, Go(c, k), ReadsCart(k), CartsTypeOK'
      PROVE  CartInv'
  BY <1>2 DEF CartInv, Go
<1>3. ASSUME UNCHANGED cartVars
      PROVE  CartsTypeOK'
  BY <1>3 DEF CartInv, CartsTypeOK, cartVars
<1>4. ASSUME NEW c \in Call, CheckoutStep(c)
      PROVE  CartInv'
  <2>0. ReadsCart(checkout[c])
    BY DEF CartInv
  <2>1. ASSUME NEW u \in Customer, NEW key, NEW k, CheckoutStart(c, u, key, k)
        PROVE  CartInv'
    <3>1. cart[u] \in CartQuantities \ {NoItems}
      BY <2>1 DEF CheckoutStart, CartInv, CartsTypeOK
    <3> DEFINE r == [pc |-> "list", user |-> u, key |-> key, coupon |-> k,
                     items |-> cart[u], price |-> price, list |-> Retail,
                     subtotal |-> 0, list2 |-> Retail, discount |-> 0]
    <3>2. ReadsCart(r)
      BY <3>1 DEF ReadsCart, Fields
    <3>3. Go(c, r) /\ UNCHANGED cartVars
      BY <2>1 DEF CheckoutStart, shopVars
    <3> QED
      BY <1>2, <1>3, <3>2, <3>3
  <2>2. CASE CheckoutTotal(c)
    <3> DEFINE k == checkout[c]
    <3>0. PICK t : Go(c, [k EXCEPT !.pc = "default", !.list = listOf[k.user], !.subtotal = t])
      BY <2>2 DEF CheckoutTotal
    <3> DEFINE r == [k EXCEPT !.pc = "default", !.list = listOf[k.user], !.subtotal = t]
    <3>1. k.pc = "list" /\ Go(c, r) /\ UNCHANGED cartVars
      BY <2>2, <3>0 DEF CheckoutTotal, shopVars
    <3>2. "pc" \in DOMAIN k /\ "items" \in DOMAIN k
      BY <2>0, <3>1 DEF ReadsCart, Fields, NoCheckout
    <3>3. DOMAIN r = DOMAIN k /\ r.pc # "idle" /\ r.items = k.items
      BY <3>2
    <3>4. ReadsCart(r)
      BY <2>0, <3>1, <3>3, StillReadsCart
    <3> QED
      BY <1>2, <1>3, <3>1, <3>4
  <2>3. ASSUME NEW o \in Order, NEW w \in Warehouse, CheckoutDefault(c, o, w)
        PROVE  CartInv'
    <3> DEFINE k == checkout[c]
               r == [k EXCEPT !.pc = "list2"]
    <3>1. k.pc = "default" /\ Go(c, r) /\ UNCHANGED cartVars
      BY <2>3 DEF CheckoutDefault, shopVars
    <3>2. "pc" \in DOMAIN k /\ "items" \in DOMAIN k
      BY <2>0, <3>1 DEF ReadsCart, Fields, NoCheckout
    <3>3. DOMAIN r = DOMAIN k /\ r.pc # "idle" /\ r.items = k.items
      BY <3>2
    <3>4. ReadsCart(r)
      BY <2>0, <3>1, <3>3, StillReadsCart
    <3> QED
      BY <1>2, <1>3, <3>1, <3>4
  <2>4. CASE CheckoutList(c)
    <3> DEFINE k == checkout[c]
               pc == IF k.coupon = None THEN "place" ELSE "coupon"
               r == [k EXCEPT !.pc = pc, !.list2 = listOf[k.user]]
    <3>1. k.pc = "list2" /\ Go(c, r) /\ UNCHANGED cartVars
      BY <2>4 DEF CheckoutList, shopVars
    <3>2. "pc" \in DOMAIN k /\ "items" \in DOMAIN k
      BY <2>0, <3>1 DEF ReadsCart, Fields, NoCheckout
    <3>3. DOMAIN r = DOMAIN k /\ r.pc # "idle" /\ r.items = k.items
      BY <3>2
    <3>4. ReadsCart(r)
      BY <2>0, <3>1, <3>3, StillReadsCart
    <3> QED
      BY <1>2, <1>3, <3>1, <3>4
  <2>5. CASE CheckoutCoupon(c)
    <3> DEFINE k == checkout[c]
    <3>0. PICK d : Go(c, [k EXCEPT !.pc = "place", !.discount = d])
      BY <2>5 DEF CheckoutCoupon
    <3> DEFINE r == [k EXCEPT !.pc = "place", !.discount = d]
    <3>1. k.pc = "coupon" /\ Go(c, r) /\ UNCHANGED cartVars
      BY <2>5, <3>0 DEF CheckoutCoupon, shopVars
    <3>2. "pc" \in DOMAIN k /\ "items" \in DOMAIN k
      BY <2>0, <3>1 DEF ReadsCart, Fields, NoCheckout
    <3>3. DOMAIN r = DOMAIN k /\ r.pc # "idle" /\ r.items = k.items
      BY <3>2
    <3>4. ReadsCart(r)
      BY <2>0, <3>1, <3>3, StillReadsCart
    <3> QED
      BY <1>2, <1>3, <3>1, <3>4
  <2>6. CASE CheckoutCommit(c)
    <3>1. Go(c, NoCheckout) /\ ReadsCart(NoCheckout)
      BY <2>6 DEF CheckoutCommit, ReadsCart
    <3>2. /\ cart' = [cart EXCEPT ![checkout[c].user] = NoItems]
          /\ UNCHANGED adding
      BY <2>6 DEF CheckoutCommit
    <3>3. CartsTypeOK'
      BY <3>2, EmptyCart DEF CartInv, CartsTypeOK
    <3> QED
      BY <1>2, <3>1, <3>3
  <2>7. CASE CheckoutEnd(c)
    <3>1. Go(c, NoCheckout) /\ ReadsCart(NoCheckout) /\ UNCHANGED cartVars
      BY <2>7 DEF CheckoutEnd, ReadsCart, shopVars
    <3> QED
      BY <1>2, <1>3, <3>1
  <2> QED
    BY <1>4, <2>1, <2>2, <2>3, <2>4, <2>5, <2>6, <2>7
    DEF CheckoutStep, CheckoutThrow, CheckoutFail
<1>5. CASE ShopStep
  <2>1. CartsTypeOK'
    BY <1>3, <1>5, CartStep DEF ShopStep, CartInv
  <2> QED
    BY <1>5, <2>1 DEF ShopStep, CartInv
<1>6. CASE LifeStep
  BY <1>1, <1>6 DEF LifeStep, shopVars
<1>7. CASE UNCHANGED allVars
  BY <1>1, <1>7 DEF allVars, checkoutVars, shopVars
<1> QED
  BY <1>4, <1>5, <1>6, <1>7 DEF CheckoutNext

\* Each step of Checkout is a step of Orders, or changes nothing of it.
LEMMA CheckoutStepIsOrdersStep ==
  ASSUME CartInv, [CheckoutNext]_allVars
  PROVE  [Next]_vars
<1>1. ASSUME OrdersStep, UNCHANGED <<adjusting, warehouseVars>>
      PROVE  [Next]_vars
  BY <1>1 DEF Next
<1>2. ASSUME NEW c \in Call, CheckoutStep(c)
      PROVE  [Next]_vars
  <2>1. ASSUME NEW o \in Order, NEW w \in Warehouse, CheckoutDefault(c, o, w)
        PROVE  [Next]_vars
    <3>0. ReadsCart(checkout[c]) /\ checkout[c].pc = "default"
      BY <2>1 DEF CartInv, CheckoutDefault
    <3>1. checkout[c].items \in Carts
      BY <3>0, CheckoutAssumption DEF ReadsCart, NoCheckout
    <3>2. Request(c)
      BY <2>1, <3>1 DEF CheckoutDefault, Request
    <3> QED
      BY <1>1, <2>1, <3>2 DEF CheckoutDefault, OrdersStep
  <2>2. CASE CheckoutCommit(c)
    <3>1. Progress(c) /\ c \in Process
      BY <2>2 DEF CheckoutCommit, Progress, Process
    <3> QED
      BY <1>1, <2>2, <3>1 DEF CheckoutCommit, OrdersStep
  <2>3. CASE CheckoutEnd(c)
    <3>1. CASE call[c].pc = "reserve"
      <4>1. Progress(c) /\ c \in Process
        BY <2>3, <3>1 DEF CheckoutEnd, Progress, Process
      <4> QED
        BY <1>1, <2>3, <3>1, <4>1 DEF CheckoutEnd, OrdersStep
    <3>2. CASE call[c].pc # "reserve"
      BY <2>3, <3>2 DEF CheckoutEnd
    <3> QED
      BY <3>1, <3>2
  <2>4. ASSUME UNCHANGED vars PROVE [Next]_vars
    BY <2>4
  <2> QED
    BY <1>2, <2>1, <2>2, <2>3, <2>4
    DEF CheckoutStep, CheckoutStart, CheckoutTotal, CheckoutList, CheckoutCoupon,
        CheckoutThrow, CheckoutFail
<1>3. CASE ShopStep
  BY <1>3 DEF ShopStep
<1>4. CASE LifeStep
  BY <1>4 DEF LifeStep
<1>5. CASE UNCHANGED allVars
  BY <1>5 DEF allVars
<1> QED
  BY <1>2, <1>3, <1>4, <1>5 DEF CheckoutNext

\* The detailed checkout implements Orders: createFromCart, cut into all its reads,
\* with any carts, prices, coupons and keys changing meanwhile, places orders as the
\* three steps of Orders do.
THEOREM CheckoutImplementsOrders == CheckoutSpec => ImplementsOrders
<1>1. CheckoutInit => Init
  BY DEF CheckoutInit
<1> QED
  BY <1>1, CartInit, CartInvStep, CheckoutStepIsOrdersStep, PTL
  DEF CheckoutSpec, ImplementsOrders, Spec

\* So no checkout reserves stock that is not there: what is proved of Orders.
THEOREM CheckoutNeverOversells == CheckoutSpec => []NoOversell
BY CheckoutImplementsOrders, NeverOversold, PTL DEF ImplementsOrders

----------------------------------------------------------------------------
\* An idempotency key has at most one order, whatever the number of orders, calls
\* and keys: the commit looks at the key again (the unique column).
THEOREM KeysAreUnique == CheckoutSpec => []OneOrderPerKey
<1> DEFINE Inv == DOMAIN bill = Order /\ OneOrderPerKey
<1>1. CheckoutInit => Inv
  BY DEF CheckoutInit, OneOrderPerKey, NoBill
<1>2. Inv /\ [CheckoutNext]_allVars => Inv'
  <2> SUFFICES ASSUME Inv, [CheckoutNext]_allVars
               PROVE  Inv'
    OBVIOUS
  <2>1. ASSUME UNCHANGED bill
        PROVE  Inv'
    BY <2>1 DEF OneOrderPerKey
  <2>2. ASSUME NEW c \in Call, CheckoutCommit(c)
        PROVE  Inv'
    <3> DEFINE q == call[c].order
               k == checkout[c]
               Billed(n) ==
                 [placed |-> TRUE, user |-> k.user, key |-> k.key, coupon |-> k.coupon,
                  list |-> k.list, list2 |-> k.list2, subtotal |-> k.subtotal,
                  discount |-> k.discount, lines |-> n]
    <3>0. PICK n : bill' = [bill EXCEPT ![q] = Billed(n)]
      BY <2>2 DEF CheckoutCommit
    <3> DEFINE b == Billed(n)
    <3>1. bill' = [bill EXCEPT ![q] = b] /\ b.key = k.key
      BY <3>0
    <3>2. DOMAIN bill' = Order
      BY <3>1
    <3>3. ~KeyTaken(k.key)
      BY <2>2 DEF CheckoutCommit, MayPlace
    <3>4. ASSUME NEW o \in Order, NEW p \in Order, o # p,
                 bill'[o].placed, bill'[p].placed,
                 bill'[o].key # None, bill'[o].key = bill'[p].key
          PROVE  FALSE
      <4>1. CASE o # q /\ p # q
        BY <3>1, <3>4, <4>1 DEF OneOrderPerKey
      <4>2. CASE o = q
        BY <3>1, <3>3, <3>4, <4>2 DEF KeyTaken
      <4>3. CASE p = q
        BY <3>1, <3>3, <3>4, <4>3 DEF KeyTaken
      <4> QED
        BY <4>1, <4>2, <4>3
    <3> QED
      BY <3>2, <3>4 DEF OneOrderPerKey
  <2>3. ASSUME NEW c \in Call, CheckoutStep(c)
        PROVE  Inv'
    BY <2>1, <2>2, <2>3
    DEF CheckoutStep, CheckoutStart, CheckoutTotal, CheckoutDefault, CheckoutList,
        CheckoutCoupon, CheckoutThrow, CheckoutFail, CheckoutEnd
  <2> QED
    BY <2>1, <2>3 DEF CheckoutNext, ShopStep, LifeStep, allVars, checkoutVars
<1> QED
  BY <1>1, <1>2, PTL DEF CheckoutSpec

\* What a redemption may not do in a step.
WithinLimit(k) ==
  coupons[k].exists /\ coupons'[k].usedCount > coupons[k].usedCount
    => \/ coupons'[k].maxUses = Unlimited
       \/ coupons'[k].usedCount <= coupons'[k].maxUses

\* A row that is new, or whose limit changes while its uses stay, or that is
\* redeemed when a use is left, is within its limit as far as this step goes.
LEMMA CouponRowStep ==
  ASSUME CouponsTypeOK, NEW k, NEW r \in CouponRow,
         coupons' = [coupons EXCEPT ![k] = r],
         k \in Coupon /\ coupons[k].exists =>
           \/ r.usedCount = coupons[k].usedCount
           \/ UsesLeft(k) /\ r.maxUses = coupons[k].maxUses
                /\ r.usedCount = coupons[k].usedCount + 1
  PROVE  CouponsTypeOK' /\ \A j \in Coupon : WithinLimit(j)
<1>1. CouponsTypeOK'
  BY DEF CouponsTypeOK
<1>2. ASSUME NEW j \in Coupon PROVE WithinLimit(j)
  <2>1. coupons[j] \in CouponRow
    BY DEF CouponsTypeOK
  <2>2. CASE j = k
    <3>1. coupons'[j] = r
      BY <2>2 DEF CouponsTypeOK
    <3> QED
      BY <2>1, <2>2, <3>1 DEF WithinLimit, UsesLeft, CouponRow, Unlimited
  <2>3. CASE j # k
    <3>1. coupons'[j] = coupons[j]
      BY <2>3 DEF CouponsTypeOK
    <3> QED
      BY <2>1, <3>1 DEF WithinLimit, CouponRow
  <2> QED
    BY <2>2, <2>3
<1> QED
  BY <1>1, <1>2

\* The operations of coupons.service.ts keep the type of the coupons and their
\* limits.
LEMMA CouponStep ==
  ASSUME CouponsTypeOK, CouponsNext
  PROVE  CouponsTypeOK' /\ \A k \in Coupon : WithinLimit(k)
<1>1. ASSUME NEW k \in Coupon, NEW maxUses \in CouponLimits \cup {Unlimited},
             NEW terms \in CouponTerms, NEW on \in BOOLEAN,
             CreateCoupon(k, terms, maxUses, on)
      PROVE  CouponsTypeOK' /\ \A j \in Coupon : WithinLimit(j)
  <2> DEFINE r == [exists |-> TRUE, kind |-> terms.kind, value |-> terms.value,
                   minTotal |-> terms.minTotal, maxUses |-> maxUses, usedCount |-> 0,
                   active |-> on]
  <2>1. terms \in CouponTerm /\ maxUses \in Nat
    BY CouponsAssumption DEF Unlimited
  <2>2. r \in CouponRow
    BY <2>1 DEF CouponTerm, CouponRow
  <2>3. coupons' = [coupons EXCEPT ![k] = r] /\ ~coupons[k].exists
    BY <1>1 DEF CreateCoupon
  <2> QED
    BY <2>2, <2>3, CouponRowStep
<1>2. ASSUME NEW k \in Coupon, NEW maxUses \in CouponLimits \cup {Unlimited},
             NEW terms \in CouponTerms, NEW on \in BOOLEAN,
             UpdateCoupon(k, maxUses, terms.minTotal, on)
      PROVE  CouponsTypeOK' /\ \A j \in Coupon : WithinLimit(j)
  <2> DEFINE m == IF maxUses = Unlimited THEN coupons[k].maxUses ELSE maxUses
             r == [coupons[k] EXCEPT !.maxUses = m, !.minTotal = terms.minTotal,
                                     !.active = on]
  <2>1. /\ coupons[k] \in CouponRow
        /\ maxUses \in Nat
        /\ terms.minTotal \in Nat
    BY CouponsAssumption DEF CouponsTypeOK, CouponTerm, Unlimited
  <2>2. m \in Nat
    BY <2>1 DEF CouponRow
  <2>3. r \in CouponRow /\ r.usedCount = coupons[k].usedCount
    BY <2>1, <2>2 DEF CouponRow
  <2>4. coupons' = [coupons EXCEPT ![k] = r]
    BY <1>2, <2>1 DEF UpdateCoupon, CouponRow, CouponsTypeOK
  <2> QED
    BY <2>3, <2>4, CouponRowStep
<1> QED
  BY <1>1, <1>2 DEF CouponsNext

LEMMA RedeemStep ==
  ASSUME CouponsTypeOK, NEW k, Redeem(k)
  PROVE  CouponsTypeOK' /\ \A j \in Coupon : WithinLimit(j)
<1>1. CASE k \in Coupon
  <2> DEFINE r == [coupons[k] EXCEPT !.usedCount = coupons[k].usedCount + 1]
  <2>1. coupons[k] \in CouponRow
    BY <1>1 DEF CouponsTypeOK
  <2>2. /\ r \in CouponRow
        /\ r.maxUses = coupons[k].maxUses
        /\ r.usedCount = coupons[k].usedCount + 1
    BY <2>1 DEF CouponRow
  <2>3. coupons' = [coupons EXCEPT ![k] = r] /\ UsesLeft(k)
    BY <1>1, <2>1 DEF Redeem, CouponRow, CouponsTypeOK
  <2> QED
    BY <2>2, <2>3, CouponRowStep
<1>2. CASE k \notin Coupon
  <2>1. coupons' = coupons
    BY <1>2 DEF Redeem, CouponsTypeOK
  <2> QED
    BY <2>1 DEF CouponsTypeOK, WithinLimit, CouponRow
<1> QED
  BY <1>1, <1>2

\* No step of any number of checkouts and staff takes a coupon past the limit it has
\* at that moment (the guarded UPDATE of coupons.service.ts).
THEOREM CouponsStayWithinLimit == CheckoutSpec => CouponWithinLimit
<1>1. CheckoutInit => CouponsTypeOK
  BY DEF CheckoutInit, CouponsInit, CouponsTypeOK, CouponRow, NoCoupon, Unlimited
<1>2. ASSUME CouponsTypeOK, [CheckoutNext]_allVars
      PROVE  CouponsTypeOK' /\ \A k \in Coupon : WithinLimit(k)
  <2>1. ASSUME UNCHANGED coupons
        PROVE  CouponsTypeOK' /\ \A k \in Coupon : WithinLimit(k)
    BY <1>2, <2>1 DEF CouponsTypeOK, CouponRow, WithinLimit
  <2>2. ASSUME NEW c \in Call, CheckoutCommit(c)
        PROVE  CouponsTypeOK' /\ \A k \in Coupon : WithinLimit(k)
    BY <1>2, <2>1, <2>2, RedeemStep DEF CheckoutCommit
  <2>3. ASSUME NEW c \in Call, CheckoutStep(c)
        PROVE  CouponsTypeOK' /\ \A k \in Coupon : WithinLimit(k)
    BY <2>1, <2>2, <2>3
    DEF CheckoutStep, CheckoutStart, CheckoutTotal, CheckoutDefault, CheckoutList,
        CheckoutCoupon, CheckoutThrow, CheckoutFail, CheckoutEnd, shopVars
  <2>4. CASE ShopStep
    BY <1>2, <2>1, <2>4, CouponStep DEF ShopStep
  <2> QED
    BY <1>2, <2>1, <2>3, <2>4 DEF CheckoutNext, LifeStep, allVars, checkoutVars, shopVars
<1>3. CouponsTypeOK /\ [CheckoutNext]_allVars
        => [\A k \in Coupon : WithinLimit(k)]_allVars
  BY <1>2
<1> QED
  BY <1>1, <1>2, <1>3, PTL DEF CheckoutSpec, CouponWithinLimit, WithinLimit

----------------------------------------------------------------------------
\* The orders placed with a coupon.
PlacedWith(k) == {o \in Order : bill[o].placed /\ bill[o].coupon = k}

\* A checkout that goes to its transaction with a coupon has found it.
FoundCoupon(k) ==
  \/ k = NoCheckout
  \/ /\ DOMAIN k = Fields
     /\ k.pc # "idle"
     /\ k.coupon \in Coupon \cup {None}
     /\ k.pc = "place" /\ k.coupon # None => coupons[k.coupon].exists

\* The invariant behind the count: an order that has a bill has been placed, so that no
\* second commit bills it, and its coupon is one that exists, so that a new one starts
\* with none; and the orders with a coupon are finitely many.
BillsInv ==
  /\ DOMAIN bill = Order
  /\ \A o \in Order : bill[o].placed =>
       /\ Placed(o)
       /\ bill[o].coupon \in Coupon => coupons[bill[o].coupon].exists
  /\ \A c \in Call : FoundCoupon(checkout[c])

CountInv ==
  \A k \in Coupon : coupons[k].exists =>
    /\ IsFiniteSet(PlacedWith(k))
    /\ coupons[k].usedCount = Cardinality(PlacedWith(k))

CouponInv == CouponsTypeOK /\ BillsInv /\ CountInv

\* No step takes an order back to before its placement.
LEMMA StaysPlaced ==
  ASSUME IType, IHistory, [Next]_vars, NEW o \in Order, Placed(o)
  PROVE  Placed(o)'
<1>1. status \in [Order -> Status]
  BY DEF IType, TypeOK
<1>2. CASE UNCHANGED <<status, history, held, taken>>
  BY <1>2 DEF Placed
<1>3. ASSUME NEW p \in Order, Opened(p) PROVE Placed(o)'
  BY <1>1, <1>3 DEF Opened, Placed
<1>4. ASSUME NEW p \in Order, NEW from, NEW to, Moved(p, from, to) PROVE Placed(o)'
  <2>1. to # "none" /\ status' = [status EXCEPT ![p] = to]
    BY <1>4, AllowedStatuses DEF Moved
  <2> QED
    BY <1>1, <2>1 DEF Placed
<1> QED
  BY <1>2, <1>3, <1>4, OrderChanges

\* What staff do to coupons: none disappears, a new one has no uses, and the others
\* keep theirs.
LEMMA CouponsKept ==
  ASSUME CouponsTypeOK, CouponsNext, NEW k \in Coupon
  PROVE  /\ coupons[k].exists => /\ coupons'[k].exists
                                 /\ coupons'[k].usedCount = coupons[k].usedCount
         /\ ~coupons[k].exists /\ coupons'[k].exists => coupons'[k].usedCount = 0
<1>1. PICK j \in Coupon, maxUses \in CouponLimits \cup {Unlimited}, terms \in CouponTerms,
           on \in BOOLEAN :
             \/ CreateCoupon(j, terms, maxUses, on)
             \/ UpdateCoupon(j, maxUses, terms.minTotal, on)
  BY DEF CouponsNext
<1>2. coupons[k] \in CouponRow /\ DOMAIN coupons = Coupon
  BY DEF CouponsTypeOK
<1>3. CASE CreateCoupon(j, terms, maxUses, on)
  BY <1>2, <1>3 DEF CreateCoupon
<1>4. CASE UpdateCoupon(j, maxUses, terms.minTotal, on)
  BY <1>2, <1>4 DEF UpdateCoupon, CouponRow
<1> QED
  BY <1>1, <1>3, <1>4

\* Steps that leave the bills alone.
LEMMA CountsKept ==
  ASSUME CouponInv, CouponsTypeOK', UNCHANGED bill,
         \A k \in Coupon :
           /\ coupons[k].exists => /\ coupons'[k].exists
                                   /\ coupons'[k].usedCount = coupons[k].usedCount
           /\ ~coupons[k].exists /\ coupons'[k].exists => coupons'[k].usedCount = 0,
         \A o \in Order : Placed(o) => Placed(o)',
         \A c \in Call : FoundCoupon(checkout[c])'
  PROVE  CouponInv'
<1>1. BillsInv'
  BY DEF CouponInv, BillsInv
<1>2. ASSUME NEW k \in Coupon, coupons'[k].exists
      PROVE  /\ IsFiniteSet(PlacedWith(k)')
             /\ coupons'[k].usedCount = Cardinality(PlacedWith(k)')
  <2>1. PlacedWith(k)' = PlacedWith(k)
    BY DEF PlacedWith
  <2>2. CASE coupons[k].exists
    BY <2>1, <2>2 DEF CouponInv, CountInv
  <2>3. CASE ~coupons[k].exists
    <3>1. PlacedWith(k) = {}
      BY <2>3 DEF CouponInv, BillsInv, PlacedWith
    <3> QED
      BY <1>2, <2>1, <2>3, <3>1, FS_EmptySet
  <2> QED
    BY <2>2, <2>3
<1> QED
  BY <1>1, <1>2 DEF CouponInv, CountInv

\* The commit adds one order to those of its coupon, and one use.
LEMMA CommitCounts ==
  ASSUME CouponInv, IType, NEW c \in Call, CheckoutCommit(c),
         \A o \in Order : Placed(o) => Placed(o)'
  PROVE  CouponInv'
<1>0. PICK q \in Order : /\ q = call[c].order /\ ~Placed(q)
                          /\ status' = [status EXCEPT ![q] = "PENDING_PAYMENT"]
  <2>1. call[c].pc = "reserve" /\ WellFormed(call[c])
    BY DEF CheckoutCommit, PlaceCommit, IType, CallTypeOK, Process
  <2> QED
    BY <2>1 DEF CheckoutCommit, PlaceCommit, WellFormed
<1> DEFINE k == checkout[c]
           Billed(n) ==
             [placed |-> TRUE, user |-> k.user, key |-> k.key, coupon |-> k.coupon,
              list |-> k.list, list2 |-> k.list2, subtotal |-> k.subtotal,
              discount |-> k.discount, lines |-> n]
<1>01. PICK n : bill' = [bill EXCEPT ![q] = Billed(n)]
  BY <1>0 DEF CheckoutCommit
<1> DEFINE b == Billed(n)
<1>1. /\ bill' = [bill EXCEPT ![q] = b]
      /\ b.placed /\ b.coupon = k.coupon
      /\ k.pc = "place"
      /\ checkout' = [checkout EXCEPT ![c] = NoCheckout]
      /\ IF k.coupon # None THEN Redeem(k.coupon) ELSE UNCHANGED coupons
  BY <1>0, <1>01 DEF CheckoutCommit, Go
<1> HIDE DEF b
<1>2. Placed(q)'
  BY <1>0 DEF IType, TypeOK, Placed
<1>3. ~bill[q].placed
  BY <1>0 DEF CouponInv, BillsInv
<1>4. k.coupon \in Coupon \cup {None} /\ (k.coupon # None => coupons[k.coupon].exists)
  BY <1>1 DEF CouponInv, BillsInv, FoundCoupon, NoCheckout
<1>5. CouponsTypeOK'
  BY <1>1, RedeemStep DEF CouponInv, CouponsTypeOK
<1>6. ASSUME NEW j \in Coupon
      PROVE  /\ coupons'[j].exists = coupons[j].exists
             /\ coupons'[j].usedCount = IF j = k.coupon THEN coupons[j].usedCount + 1
                                        ELSE coupons[j].usedCount
  <2>1. coupons[j] \in CouponRow /\ DOMAIN coupons = Coupon
    BY DEF CouponInv, CouponsTypeOK
  <2>2. None \notin Coupon
    BY CheckoutAssumption
  <2> QED
    BY <1>1, <1>4, <2>1, <2>2 DEF Redeem, CouponRow
<1>7. BillsInv'
  <2>1. DOMAIN bill' = Order
    BY <1>1 DEF CouponInv, BillsInv
  <2>2. ASSUME NEW o \in Order, bill'[o].placed
        PROVE  /\ Placed(o)'
               /\ bill'[o].coupon \in Coupon => coupons'[bill'[o].coupon].exists
    <3>1. CASE o = q
      <4>1. bill'[o].coupon = k.coupon
        BY <1>1, <1>0, <3>1 DEF CouponInv, BillsInv
      <4> QED
        BY <1>2, <1>4, <1>6, <3>1, <4>1, CheckoutAssumption
    <3>2. CASE o # q
      <4>1. bill'[o] = bill[o]
        BY <1>1, <3>2 DEF CouponInv, BillsInv
      <4> QED
        BY <1>6, <2>2, <4>1 DEF CouponInv, BillsInv
    <3> QED
      BY <3>1, <3>2
  <2>3. ASSUME NEW d \in Call PROVE FoundCoupon(checkout[d])'
    <3>1. FoundCoupon(checkout[d])
      BY DEF CouponInv, BillsInv
    <3>2. checkout'[d] = checkout[d] \/ checkout'[d] = NoCheckout
      BY <1>1
    <3> QED
      BY <1>6, <3>1, <3>2 DEF FoundCoupon
  <2> QED
    BY <2>1, <2>2, <2>3 DEF BillsInv
<1>8. ASSUME NEW j \in Coupon, coupons'[j].exists
      PROVE  /\ IsFiniteSet(PlacedWith(j)')
             /\ coupons'[j].usedCount = Cardinality(PlacedWith(j)')
  <2>1. /\ IsFiniteSet(PlacedWith(j))
        /\ coupons[j].usedCount = Cardinality(PlacedWith(j))
    BY <1>6, <1>8 DEF CouponInv, CountInv
  <2>2. q \notin PlacedWith(j)
    BY <1>3 DEF PlacedWith
  <2>3. CASE j = k.coupon
    <3>1. PlacedWith(j)' = PlacedWith(j) \cup {q}
      BY <1>1, <1>0, <2>3 DEF PlacedWith, CouponInv, BillsInv
    <3>2. /\ IsFiniteSet(PlacedWith(j) \cup {q})
          /\ Cardinality(PlacedWith(j) \cup {q}) = Cardinality(PlacedWith(j)) + 1
      BY <2>1, <2>2, FS_AddElement
    <3> QED
      BY <1>6, <2>1, <2>3, <3>1, <3>2
  <2>4. CASE j # k.coupon
    <3>1. PlacedWith(j)' = PlacedWith(j)
      BY <1>1, <1>0, <1>3, <2>4 DEF PlacedWith, CouponInv, BillsInv
    <3> QED
      BY <1>6, <2>1, <2>4, <3>1
  <2> QED
    BY <2>3, <2>4
<1> QED
  BY <1>5, <1>7, <1>8 DEF CouponInv, CountInv

\* The other steps of a checkout: a coupon is found before the transaction.
LEMMA FoundStep ==
  ASSUME CouponInv, NEW c \in Call, CheckoutStep(c), UNCHANGED <<coupons, bill>>
  PROVE  \A d \in Call : FoundCoupon(checkout[d])'
<1>1. ASSUME NEW k, Go(c, k), FoundCoupon(k)
      PROVE  \A d \in Call : FoundCoupon(checkout[d])'
  BY <1>1 DEF CouponInv, BillsInv, FoundCoupon, Go
<1>2. ASSUME NEW k, FoundCoupon(checkout[c]), checkout[c].pc # "idle",
             DOMAIN k = DOMAIN checkout[c], k.pc # "idle", k.coupon = checkout[c].coupon,
             k.pc = "place" /\ k.coupon # None => coupons[k.coupon].exists
      PROVE  FoundCoupon(k)
  BY <1>2 DEF FoundCoupon, NoCheckout
<1>3. FoundCoupon(checkout[c])
  BY DEF CouponInv, BillsInv
<1>4. checkout[c].pc # "idle" => {"pc", "coupon"} \subseteq DOMAIN checkout[c]
  BY <1>3 DEF FoundCoupon, Fields, NoCheckout
<1>5. ASSUME NEW u \in Customer, NEW key \in Key \cup {None}, NEW k \in Coupon \cup {None},
             CheckoutStart(c, u, key, k)
      PROVE  \A d \in Call : FoundCoupon(checkout[d])'
  <2> DEFINE r == [pc |-> "list", user |-> u, key |-> key, coupon |-> k,
                   items |-> cart[u], price |-> price, list |-> Retail,
                   subtotal |-> 0, list2 |-> Retail, discount |-> 0]
  <2>1. FoundCoupon(r)
    BY DEF FoundCoupon, Fields
  <2>2. Go(c, r)
    BY <1>5 DEF CheckoutStart
  <2> QED
    BY <1>1, <2>1, <2>2
<1>6. CASE CheckoutTotal(c)
  <2> DEFINE k == checkout[c]
  <2>0. PICK t : Go(c, [k EXCEPT !.pc = "default", !.list = listOf[k.user], !.subtotal = t])
    BY <1>6 DEF CheckoutTotal
  <2> DEFINE r == [k EXCEPT !.pc = "default", !.list = listOf[k.user], !.subtotal = t]
  <2>1. k.pc = "list" /\ Go(c, r)
    BY <1>6, <2>0 DEF CheckoutTotal
  <2>2. DOMAIN r = DOMAIN k /\ r.pc = "default" /\ r.coupon = k.coupon
    BY <1>4, <2>1
  <2> QED
    BY <1>1, <1>2, <1>3, <2>1, <2>2
<1>7. ASSUME NEW o \in Order, NEW w \in Warehouse, CheckoutDefault(c, o, w)
      PROVE  \A d \in Call : FoundCoupon(checkout[d])'
  <2> DEFINE r == [checkout[c] EXCEPT !.pc = "list2"]
  <2>1. checkout[c].pc = "default" /\ Go(c, r)
    BY <1>7 DEF CheckoutDefault
  <2>2. DOMAIN r = DOMAIN checkout[c] /\ r.pc = "list2" /\ r.coupon = checkout[c].coupon
    BY <1>4, <2>1
  <2> QED
    BY <1>1, <1>2, <1>3, <2>1, <2>2
<1>8. CASE CheckoutList(c)
  <2> DEFINE k == checkout[c]
             pc == IF k.coupon = None THEN "place" ELSE "coupon"
             r == [k EXCEPT !.pc = pc, !.list2 = listOf[k.user]]
  <2>1. k.pc = "list2" /\ Go(c, r)
    BY <1>8 DEF CheckoutList
  <2>2. DOMAIN r = DOMAIN k /\ r.pc = pc /\ r.coupon = k.coupon
    BY <1>4, <2>1
  <2>3. pc # "idle" /\ (pc = "place" => k.coupon = None)
    OBVIOUS
  <2> QED
    BY <1>1, <1>2, <1>3, <2>1, <2>2, <2>3
<1>9. CASE CheckoutCoupon(c)
  <2> DEFINE k == checkout[c]
  <2>0. PICK d : Go(c, [k EXCEPT !.pc = "place", !.discount = d])
    BY <1>9 DEF CheckoutCoupon
  <2> DEFINE r == [k EXCEPT !.pc = "place", !.discount = d]
  <2>1. k.pc = "coupon" /\ Go(c, r) /\ coupons[k.coupon].exists
    BY <1>9, <2>0 DEF CheckoutCoupon, ValidCoupon
  <2>2. DOMAIN r = DOMAIN k /\ r.pc = "place" /\ r.coupon = k.coupon
    BY <1>4, <2>1
  <2> QED
    BY <1>1, <1>2, <1>3, <2>1, <2>2
<1>10. ASSUME Go(c, NoCheckout)
       PROVE  \A d \in Call : FoundCoupon(checkout[d])'
  BY <1>1, <1>10 DEF FoundCoupon
<1> QED
  BY <1>5, <1>6, <1>7, <1>8, <1>9, <1>10
  DEF CheckoutStep, CheckoutCommit, CheckoutThrow, CheckoutFail, CheckoutEnd

\* Bills and uses are consistent along every behaviour, with what is known of Orders.
PlacedInv == CartInv /\ IType /\ IHistory /\ CouponInv

LEMMA PlacedInvariant == CheckoutSpec => []PlacedInv
<1> DEFINE Inv == CartInv /\ IType /\ IHistory /\ CouponInv
<1>1. CheckoutInit => Inv
  <2> SUFFICES ASSUME CheckoutInit PROVE Inv
    OBVIOUS
  <2>1. CouponsTypeOK
    BY DEF CheckoutInit, CouponsInit, CouponsTypeOK, CouponRow, NoCoupon, Unlimited
  <2>2. BillsInv
    BY DEF CheckoutInit, BillsInv, NoBill, FoundCoupon
  <2>3. CountInv
    BY DEF CheckoutInit, CouponsInit, NoCoupon, CountInv
  <2> QED
    BY <2>1, <2>2, <2>3, CartInit, InitType, InitHistory DEF CheckoutInit, CouponInv
<1>2. Inv /\ [CheckoutNext]_allVars => Inv'
  <2> SUFFICES ASSUME Inv, [CheckoutNext]_allVars PROVE Inv'
    OBVIOUS
  <2>1. [Next]_vars
    BY CheckoutStepIsOrdersStep
  <2>2. CartInv' /\ IType' /\ IHistory'
    BY <2>1, CartInvStep, StepType, StepHistory
  <2>3. \A o \in Order : Placed(o) => Placed(o)'
    BY <2>1, StaysPlaced
  <2>4. ASSUME UNCHANGED <<coupons, bill>>, \A d \in Call : FoundCoupon(checkout[d])'
        PROVE  CouponInv'
    BY <2>3, <2>4, CountsKept DEF CouponInv, CouponsTypeOK
  <2>5. ASSUME NEW c \in Call, CheckoutStep(c) PROVE CouponInv'
    <3>1. CASE CheckoutCommit(c)
      BY <2>3, <3>1, CommitCounts
    <3>2. CASE ~CheckoutCommit(c)
      <4>1. UNCHANGED <<coupons, bill>>
        BY <2>5, <3>2
        DEF CheckoutStep, CheckoutStart, CheckoutTotal, CheckoutDefault, CheckoutList,
            CheckoutCoupon, CheckoutThrow, CheckoutFail, CheckoutEnd, shopVars
      <4> QED
        BY <2>4, <2>5, <4>1, FoundStep
    <3> QED
      BY <3>1, <3>2
  <2>6. ASSUME UNCHANGED <<coupons, bill, checkout>> PROVE CouponInv'
    BY <2>4, <2>6 DEF CouponInv, BillsInv, FoundCoupon
  <2>7. ASSUME ShopStep PROVE CouponInv'
    <3>1. CASE UNCHANGED coupons
      BY <2>6, <2>7, <3>1 DEF ShopStep
    <3>2. CASE CouponsNext
      <4>1. \A k \in Coupon :
              /\ coupons[k].exists => /\ coupons'[k].exists
                                      /\ coupons'[k].usedCount = coupons[k].usedCount
              /\ ~coupons[k].exists /\ coupons'[k].exists => coupons'[k].usedCount = 0
        BY <3>2, CouponsKept DEF CouponInv
      <4>2. CouponsTypeOK' /\ UNCHANGED <<bill, checkout>>
        BY <2>7, <3>2, CouponStep DEF CouponInv, ShopStep
      <4>3. \A d \in Call : FoundCoupon(checkout[d])'
        BY <4>1, <4>2, CheckoutAssumption DEF CouponInv, BillsInv, FoundCoupon
      <4> QED
        BY <2>3, <4>1, <4>2, <4>3, CountsKept
    <3> QED
      BY <2>7, <3>1, <3>2 DEF ShopStep
  <2>8. ASSUME LifeStep PROVE CouponInv'
    BY <2>6, <2>8 DEF LifeStep, shopVars
  <2>9. ASSUME UNCHANGED allVars PROVE CouponInv'
    BY <2>6, <2>9 DEF allVars, checkoutVars, shopVars
  <2> QED
    BY <2>2, <2>5, <2>7, <2>8, <2>9 DEF CheckoutNext
<1> QED
  BY <1>1, <1>2, PTL DEF CheckoutSpec, PlacedInv

\* The uses of a coupon are the orders placed with it, whatever fails or overlaps:
\* the redemption and the order are of one transaction.
THEOREM CouponsCountTheirOrders == CheckoutSpec => []CouponCountsOrders
<1>1. PlacedInv => CouponCountsOrders
  BY DEF PlacedInv, CouponInv, CountInv, PlacedWith, CouponCountsOrders
<1> QED
  BY <1>1, PlacedInvariant, PTL

----------------------------------------------------------------------------
\* From its second step on a checkout holds the total it has computed.
Totalled(k) ==
  \/ k = NoCheckout
  \/ /\ DOMAIN k = Fields
     /\ k.pc # "idle"
     /\ k.pc # "list" => k.subtotal \in Totals(k.items, k.price, k.list)

\* A step that leaves alone what the total is made of.
LEMMA StillTotalled ==
  ASSUME NEW k, Totalled(k), k.pc \notin {"idle", "list"},
         NEW r, DOMAIN r = DOMAIN k, r.pc # "idle", r.items = k.items,
         r.price = k.price, r.list = k.list, r.subtotal = k.subtotal
  PROVE  Totalled(r)
BY DEF Totalled, NoCheckout

LEMMA TotalledStep ==
  ASSUME \A d \in Call : Totalled(checkout[d]), DOMAIN checkout = Call, [CheckoutNext]_allVars
  PROVE  (\A d \in Call : Totalled(checkout[d]))' /\ DOMAIN checkout' = Call
<1>1. ASSUME NEW c \in Call, NEW k, Go(c, k), Totalled(k)
      PROVE  (\A d \in Call : Totalled(checkout[d]))' /\ DOMAIN checkout' = Call
  BY <1>1 DEF Go, Totalled
<1>2. ASSUME UNCHANGED checkout
      PROVE  (\A d \in Call : Totalled(checkout[d]))' /\ DOMAIN checkout' = Call
  BY <1>2 DEF Totalled
<1>3. ASSUME NEW c \in Call, CheckoutStep(c)
      PROVE  (\A d \in Call : Totalled(checkout[d]))' /\ DOMAIN checkout' = Call
  <2>0. /\ Totalled(checkout[c])
        /\ checkout[c].pc \notin {"idle", "list"} =>
             {"pc", "items", "price", "list", "subtotal"} \subseteq DOMAIN checkout[c]
    BY DEF Totalled, Fields, NoCheckout
  <2>1. ASSUME NEW u \in Customer, NEW key \in Key \cup {None}, NEW k \in Coupon \cup {None},
               CheckoutStart(c, u, key, k)
        PROVE  (\A d \in Call : Totalled(checkout[d]))' /\ DOMAIN checkout' = Call
    <3> DEFINE r == [pc |-> "list", user |-> u, key |-> key, coupon |-> k,
                     items |-> cart[u], price |-> price, list |-> Retail,
                     subtotal |-> 0, list2 |-> Retail, discount |-> 0]
    <3>1. Totalled(r)
      BY DEF Totalled, Fields
    <3> QED
      BY <1>1, <2>1, <3>1 DEF CheckoutStart
  <2>2. CASE CheckoutTotal(c)
    <3> DEFINE k == checkout[c]
               l == listOf[k.user]
    <3>0. PICK t \in Totals(k.items, k.price, l) :
            Go(c, [k EXCEPT !.pc = "default", !.list = l, !.subtotal = t])
      BY <2>2 DEF CheckoutTotal
    <3> DEFINE r == [k EXCEPT !.pc = "default", !.list = l, !.subtotal = t]
    <3>1. k.pc = "list" /\ Go(c, r)
      BY <2>2, <3>0 DEF CheckoutTotal
    <3>2. DOMAIN k = Fields
      BY <2>0, <3>1 DEF Totalled, NoCheckout
    <3>3. /\ DOMAIN r = Fields /\ r.pc = "default" /\ r.items = k.items
          /\ r.price = k.price /\ r.list = l
          /\ r.subtotal \in Totals(k.items, k.price, l)
      BY <3>2 DEF Fields
    <3> HIDE DEF r
    <3>4. Totalled(r)
      BY <3>3 DEF Totalled
    <3> QED
      BY <1>1, <3>1, <3>4
  <2>3. ASSUME NEW o \in Order, NEW w \in Warehouse, CheckoutDefault(c, o, w)
        PROVE  (\A d \in Call : Totalled(checkout[d]))' /\ DOMAIN checkout' = Call
    <3> DEFINE k == checkout[c]
               r == [k EXCEPT !.pc = "list2"]
    <3>1. k.pc = "default" /\ Go(c, r)
      BY <2>3 DEF CheckoutDefault
    <3>2. /\ DOMAIN r = DOMAIN k /\ r.pc # "idle" /\ r.items = k.items
          /\ r.price = k.price /\ r.list = k.list /\ r.subtotal = k.subtotal
      BY <2>0, <3>1
    <3>3. Totalled(r)
      BY <2>0, <3>1, <3>2, StillTotalled
    <3> QED
      BY <1>1, <3>1, <3>3
  <2>4. CASE CheckoutList(c)
    <3> DEFINE k == checkout[c]
               pc == IF k.coupon = None THEN "place" ELSE "coupon"
               r == [k EXCEPT !.pc = pc, !.list2 = listOf[k.user]]
    <3>1. k.pc = "list2" /\ Go(c, r)
      BY <2>4 DEF CheckoutList
    <3>2. /\ DOMAIN r = DOMAIN k /\ r.pc # "idle" /\ r.items = k.items
          /\ r.price = k.price /\ r.list = k.list /\ r.subtotal = k.subtotal
      BY <2>0, <3>1
    <3>3. Totalled(r)
      BY <2>0, <3>1, <3>2, StillTotalled
    <3> QED
      BY <1>1, <3>1, <3>3
  <2>5. CASE CheckoutCoupon(c)
    <3> DEFINE k == checkout[c]
    <3>0. PICK d : Go(c, [k EXCEPT !.pc = "place", !.discount = d])
      BY <2>5 DEF CheckoutCoupon
    <3> DEFINE r == [k EXCEPT !.pc = "place", !.discount = d]
    <3>1. k.pc = "coupon" /\ Go(c, r)
      BY <2>5, <3>0 DEF CheckoutCoupon
    <3>2. /\ DOMAIN r = DOMAIN k /\ r.pc # "idle" /\ r.items = k.items
          /\ r.price = k.price /\ r.list = k.list /\ r.subtotal = k.subtotal
      BY <2>0, <3>1
    <3>3. Totalled(r)
      BY <2>0, <3>1, <3>2, StillTotalled
    <3> QED
      BY <1>1, <3>1, <3>3
  <2>6. ASSUME Go(c, NoCheckout)
        PROVE  (\A d \in Call : Totalled(checkout[d]))' /\ DOMAIN checkout' = Call
    BY <1>1, <2>6 DEF Totalled
  <2> QED
    BY <1>3, <2>1, <2>2, <2>3, <2>4, <2>5, <2>6
    DEF CheckoutStep, CheckoutCommit, CheckoutThrow, CheckoutFail, CheckoutEnd
<1> QED
  BY <1>2, <1>3 DEF CheckoutNext, ShopStep, LifeStep, allVars, checkoutVars

----------------------------------------------------------------------------
\* An amount is rounded by at most half a cent either way, and not at all if there is
\* nothing to round.
LEMMA NearestIsNear ==
  ASSUME NEW n \in Nat, NEW d \in Nat \ {0}, NEW c \in Nearest(n, d)
  PROVE  /\ c \in Nat
         /\ 2 * (d * c) - 2 * n \in -d..d
         /\ n % d = 0 => d * c = n
<1> DEFINE m == n \div d
<1>1. m \in Int /\ n = d * m + (n % d) /\ n % d \in 0..(d - 1)
  OBVIOUS
<1>2. c \in m..(m + 1) /\ 2 * (d * c - n) \in -d..d
  BY DEF Nearest
<1> HIDE DEF m
<1>3. m \in Nat
  <2>1. ASSUME m <= -1 PROVE FALSE
    <3>1. d * m <= d * (-1)
      BY <1>1, <2>1
    <3> QED
      BY <1>1, <3>1
  <2> QED
    BY <1>1, <2>1
<1>4. c \in Nat /\ d * c \in Nat
  BY <1>2, <1>3
<1>5. 2 * (d * c) - 2 * n \in -d..d
  BY <1>2, <1>4
<1>6. ASSUME n % d = 0 PROVE d * c = n
  <2>1. CASE c = m
    BY <1>1, <1>6, <2>1
  <2>2. CASE c = m + 1
    <3>1. d * c = d * m + d /\ d * m \in Nat
      BY <1>3, <2>2
    <3> QED
      BY <1>1, <1>5, <1>6, <3>1
  <2> QED
    BY <1>2, <1>3, <2>1, <2>2
<1> QED
  BY <1>4, <1>5, <1>6

\* What items cost is an amount, ...
LEMMA CostType ==
  ASSUME NEW q \in [Variant -> Nat], NEW p \in [Variant \X PriceList -> Nat],
         NEW l \in PriceList
  PROVE  Cost(q, p, l) \in [Variant -> Nat]
<1>1. ASSUME NEW v \in Variant PROVE q[v] * p[<<v, l>>] \in Nat
  <2>1. q[v] \in Nat /\ p[<<v, l>>] \in Nat
    OBVIOUS
  <2> QED
    BY <2>1
<1> QED
  BY <1>1 DEF Cost

\* ... and so are their total ...
LEMMA TotalType ==
  ASSUME NEW q \in [Variant -> Nat], NEW p \in [Variant \X PriceList -> Nat],
         NEW l \in PriceList
  PROVE  Totals(q, p, l) \subseteq Nat
<1> DEFINE n == SumOf(Cost(q, p, l), Variant)
<1>1. n \in Nat
  <2>1. Cost(q, p, l) \in [Variant -> Nat]
    BY CostType
  <2> QED
    BY <2>1, QuantitiesAssumption, SumNat
<1> HIDE DEF n
<1>2. \A t \in Nearest(n, PerUnit) : t \in Nat
  BY <1>1, PricingAssumption, NearestIsNear
<1> QED
  BY <1>2 DEF Totals, n

\* ... and their lines.
LEMMA LinesType ==
  ASSUME NEW f \in [Variant -> Nat], NEW line \in Lines(f)
  PROVE  /\ line \in [Variant -> Nat]
         /\ \A v \in Variant : line[v] \in Nearest(f[v], PerUnit)
         /\ SumOf(line, Variant) \in Nat
<1>1. /\ DOMAIN line = Variant
      /\ line = [v \in Variant |-> line[v]]
      /\ \A v \in Variant : line[v] \in Nearest(f[v], PerUnit)
  BY DEF Lines
<1>2. \A v \in Variant : line[v] \in Nat
  BY <1>1, PricingAssumption, NearestIsNear
<1>3. line \in [Variant -> Nat]
  BY <1>1, <1>2
<1> QED
  BY <1>1, <1>3, QuantitiesAssumption, SumNat

\* A percentage is at most 100.
CouponsFit ==
  /\ CouponsTypeOK
  /\ \A k \in Coupon : coupons[k].kind = "PERCENTAGE" => coupons[k].value <= 100

\* The discount, rounded or capped, is at most what it is taken from.
LEMMA DiscountFits ==
  ASSUME CouponsFit, NEW k \in Coupon, NEW subtotal \in Nat
  PROVE  \A d \in Discounts(k, subtotal) : d \in 0..subtotal
<1> DEFINE v == coupons[k].value
<1>1. v \in Nat /\ coupons[k].kind \in {"PERCENTAGE", "FIXED_AMOUNT"}
  BY DEF CouponsFit, CouponsTypeOK, CouponRow
<1>2. CASE coupons[k].kind = "PERCENTAGE"
  <2>1. v <= 100
    BY <1>2 DEF CouponsFit
  <2>2. Discounts(k, subtotal) = Nearest(subtotal * v, 100)
    BY <1>2 DEF Discounts
  <2> HIDE DEF v
  <2>3. \A s, n \in Nat : n <= 100 => s * n <= s * 100
    OBVIOUS
  <2>4. subtotal * v \in Nat /\ subtotal * v <= subtotal * 100
    BY <1>1, <2>1, <2>3
  <2>5. ASSUME NEW d \in Nearest(subtotal * v, 100) PROVE d \in 0..subtotal
    <3> DEFINE n == subtotal * v
    <3>1. n \in Nat /\ n <= subtotal * 100 /\ d \in Nearest(n, 100)
      BY <2>4
    <3> HIDE DEF n
    <3>2. 100 \in Nat \ {0}
      OBVIOUS
    <3>3. d \in Nat /\ 2 * (100 * d) - 2 * n \in -100..100
      BY <3>1, <3>2, NearestIsNear
    <3> QED
      BY <3>1, <3>3
  <2> QED
    BY <2>2, <2>5
<1>3. CASE coupons[k].kind = "FIXED_AMOUNT"
  BY <1>1, <1>3 DEF Discounts
<1> QED
  BY <1>1, <1>2, <1>3

\* The coupons' operations keep percentages within 100.
LEMMA CouponsFitStep ==
  ASSUME CouponsFit,
         \/ CouponsNext
         \/ \E k : Redeem(k)
         \/ UNCHANGED coupons
  PROVE  CouponsFit'
<1>1. CouponsTypeOK /\ CouponsTypeOK'
  BY CouponStep, RedeemStep DEF CouponsFit, CouponsTypeOK
<1>2. ASSUME NEW k \in Coupon, NEW maxUses, NEW terms, NEW on,
             CreateCoupon(k, terms, maxUses, on)
      PROVE  CouponsFit'
  BY <1>1, <1>2 DEF CouponsFit, CreateCoupon, CouponsTypeOK
<1>3. ASSUME NEW j \in Coupon,
             coupons'[j].kind = coupons[j].kind /\ coupons'[j].value = coupons[j].value
      PROVE  coupons'[j].kind = "PERCENTAGE" => coupons'[j].value <= 100
  BY <1>3 DEF CouponsFit
<1>4. ASSUME NEW k \in Coupon, NEW maxUses, NEW terms, NEW on,
             UpdateCoupon(k, maxUses, terms.minTotal, on), NEW j \in Coupon
      PROVE  coupons'[j].kind = coupons[j].kind /\ coupons'[j].value = coupons[j].value
  BY <1>1, <1>4 DEF UpdateCoupon, CouponsTypeOK, CouponRow
<1>5. ASSUME NEW k, Redeem(k), NEW j \in Coupon
      PROVE  coupons'[j].kind = coupons[j].kind /\ coupons'[j].value = coupons[j].value
  BY <1>1, <1>5 DEF Redeem, CouponsTypeOK, CouponRow
<1>6. CASE UNCHANGED coupons
  BY <1>6, <1>1 DEF CouponsFit
<1> QED
  BY <1>1, <1>2, <1>3, <1>4, <1>5, <1>6 DEF CouponsNext, CouponsFit

LEMMA PricingStep ==
  ASSUME PricingTypeOK, PricingNext
  PROVE  PricingTypeOK'
<1>1. ASSUME NEW S \in SUBSET DOMAIN price, NEW amount \in [S -> Amounts], SetPrices(amount)
      PROVE  PricingTypeOK'
  <2>1. /\ price' = [x \in DOMAIN price |-> IF x \in S THEN amount[x] ELSE price[x]]
        /\ DOMAIN price = Variant \X PriceList
    BY <1>1 DEF SetPrices, PricingTypeOK
  <2>2. \A x \in S : amount[x] \in Nat
    BY PricingAssumption
  <2>3. price' \in [Variant \X PriceList -> Nat]
    BY <2>1, <2>2 DEF PricingTypeOK
  <2> QED
    BY <1>1, <2>3 DEF SetPrices, PricingTypeOK
<1>2. ASSUME NEW u \in Customer, NEW l \in PriceList, AssignPriceList(u, l)
      PROVE  PricingTypeOK'
  BY <1>2 DEF AssignPriceList, PricingTypeOK
<1> QED
  BY <1>1, <1>2 DEF PricingNext

\* What a checkout holds has its types, and a discount within the subtotal: none before
\* the coupon is looked at.
Sound(k) ==
  \/ k = NoCheckout
  \/ /\ k \in CheckoutRecord
     /\ k.discount \in 0..k.subtotal
     /\ k.pc = "list" => k.subtotal = 0
     /\ k.pc = "coupon" => k.coupon # None

MoneyInv ==
  /\ CartInv
  /\ PricingTypeOK
  /\ CouponsFit
  /\ checkout \in [Call -> CheckoutRecord \cup {NoCheckout}]
  /\ \A c \in Call : Sound(checkout[c])
  /\ bill \in [Order -> Bill \cup {NoBill}]
  /\ DiscountWithinSubtotal

LEMMA MoneyInit == CheckoutInit => MoneyInv
<1> SUFFICES ASSUME CheckoutInit PROVE MoneyInv
  OBVIOUS
<1>1. CartInv
  BY CartInit
<1>2. PricingTypeOK
  BY PricingAssumption DEF CheckoutInit, PricingInit, PricingTypeOK
<1>3. CouponsFit
  BY DEF CheckoutInit, CouponsInit, CouponsFit, CouponsTypeOK, CouponRow, NoCoupon, Unlimited
<1> QED
  BY <1>1, <1>2, <1>3
  DEF CheckoutInit, MoneyInv, Sound, DiscountWithinSubtotal, NoBill

\* The steps of a checkout.
LEMMA MoneyCheckout ==
  ASSUME MoneyInv, NEW c \in Call, CheckoutStep(c), ~CheckoutCommit(c)
  PROVE  \E r : Go(c, r) /\ Sound(r)
<1> DEFINE k == checkout[c]
<1>1. Sound(k)
  BY DEF MoneyInv
<1>2. ASSUME k.pc \notin {"idle"}
      PROVE  /\ k \in CheckoutRecord
             /\ k.discount \in 0..k.subtotal
             /\ k.pc = "list" => k.subtotal = 0
             /\ k.pc = "coupon" => k.coupon # None
  BY <1>1, <1>2 DEF Sound, NoCheckout
<1>3. /\ price \in [Variant \X PriceList -> Nat] /\ listOf \in [Customer -> PriceList]
      /\ cart \in [Customer -> CartQuantities]
  BY DEF MoneyInv, PricingTypeOK, CartInv, CartsTypeOK
<1>4. ASSUME NEW u \in Customer, NEW key \in Key \cup {None}, NEW p \in Coupon \cup {None},
             CheckoutStart(c, u, key, p)
      PROVE  \E r : Go(c, r) /\ Sound(r)
  <2> DEFINE r == [pc |-> "list", user |-> u, key |-> key, coupon |-> p,
                   items |-> cart[u], price |-> price, list |-> Retail,
                   subtotal |-> 0, list2 |-> Retail, discount |-> 0]
  <2>1. Go(c, r) /\ cart[u] \in CartQuantities \ {NoItems} /\ Retail \in PriceList
    BY <1>3, <1>4, PricingAssumption DEF CheckoutStart
  <2>2. r \in CheckoutRecord
    BY <1>3, <2>1 DEF CheckoutRecord
  <2>3. Sound(r)
    BY <2>2 DEF Sound
  <2> HIDE DEF r
  <2> QED
    BY <2>1, <2>3
<1>5. CASE CheckoutTotal(c)
  <2> DEFINE l == listOf[k.user]
  <2>0. PICK t \in Totals(k.items, k.price, l) :
          Go(c, [k EXCEPT !.pc = "default", !.list = l, !.subtotal = t])
    BY <1>5 DEF CheckoutTotal
  <2> DEFINE r == [k EXCEPT !.pc = "default", !.list = l, !.subtotal = t]
  <2>1. k.pc = "list" /\ Go(c, r)
    BY <1>5, <2>0 DEF CheckoutTotal
  <2>2. k \in CheckoutRecord /\ k.discount = 0
    <3>1. k.discount \in 0..k.subtotal /\ k.subtotal = 0 /\ k \in CheckoutRecord
      BY <1>2, <2>1
    <3> HIDE DEF k
    <3> QED
      BY <3>1
  <2>3. l \in PriceList
    BY <1>3, <2>2 DEF CheckoutRecord
  <2>4. t \in Nat
    <3>1. k.items \in [Variant -> Nat] /\ k.price \in [Variant \X PriceList -> Nat]
      BY <2>2, CartsAssumption DEF CheckoutRecord, CartQuantities
    <3> HIDE DEF k, l
    <3> QED
      BY <2>0, <2>3, <3>1, TotalType
  <2> HIDE DEF k, l
  <2>5. r \in CheckoutRecord /\ r.pc = "default" /\ r.discount = 0 /\ r.subtotal = t
    BY <2>2, <2>3, <2>4 DEF CheckoutRecord
  <2> HIDE DEF r
  <2>6. Sound(r)
    BY <2>4, <2>5 DEF Sound
  <2> QED
    BY <2>1, <2>6
<1>6. ASSUME NEW o \in Order, NEW w \in Warehouse, CheckoutDefault(c, o, w)
      PROVE  \E r : Go(c, r) /\ Sound(r)
  <2> DEFINE r == [k EXCEPT !.pc = "list2"]
  <2>1. k.pc = "default" /\ Go(c, r)
    BY <1>6 DEF CheckoutDefault
  <2>2. k \in CheckoutRecord /\ k.discount \in 0..k.subtotal
    BY <1>2, <2>1
  <2> HIDE DEF k
  <2>3. r \in CheckoutRecord /\ r.pc = "list2" /\ r.discount = k.discount
        /\ r.subtotal = k.subtotal
    BY <2>2 DEF CheckoutRecord
  <2> HIDE DEF r
  <2>4. Sound(r)
    BY <2>2, <2>3 DEF Sound
  <2> QED
    BY <2>1, <2>4
<1>7. CASE CheckoutList(c)
  <2> DEFINE pc == IF k.coupon = None THEN "place" ELSE "coupon"
             l == listOf[k.user]
             r == [k EXCEPT !.pc = pc, !.list2 = l]
  <2>1. k.pc = "list2" /\ Go(c, r)
    BY <1>7 DEF CheckoutList
  <2>2. k \in CheckoutRecord /\ k.discount \in 0..k.subtotal
    BY <1>2, <2>1
  <2>3. l \in PriceList /\ pc \in {"place", "coupon"} /\ (pc = "coupon" => k.coupon # None)
    BY <1>3, <2>2 DEF CheckoutRecord
  <2> HIDE DEF k, l, pc
  <2>4. r \in CheckoutRecord /\ r.pc = pc /\ r.discount = k.discount
        /\ r.subtotal = k.subtotal /\ r.coupon = k.coupon
    BY <2>2, <2>3 DEF CheckoutRecord
  <2> HIDE DEF r
  <2>5. Sound(r)
    BY <2>2, <2>3, <2>4 DEF Sound
  <2> QED
    BY <2>1, <2>5
<1>8. CASE CheckoutCoupon(c)
  <2>0. PICK d \in Discounts(k.coupon, k.subtotal) :
          Go(c, [k EXCEPT !.pc = "place", !.discount = d])
    BY <1>8 DEF CheckoutCoupon
  <2> DEFINE r == [k EXCEPT !.pc = "place", !.discount = d]
  <2>1. k.pc = "coupon" /\ Go(c, r)
    BY <1>8, <2>0 DEF CheckoutCoupon
  <2>2. k \in CheckoutRecord /\ k.coupon # None
    BY <1>2, <2>1
  <2>3. k.coupon \in Coupon /\ k.subtotal \in Nat
    BY <2>2 DEF CheckoutRecord
  <2> HIDE DEF k
  <2>4. d \in 0..k.subtotal /\ d \in Nat
    <3>1. d \in 0..k.subtotal
      BY <2>0, <2>3, DiscountFits DEF MoneyInv
    <3> QED
      BY <2>3, <3>1
  <2>5. r \in CheckoutRecord /\ r.pc = "place" /\ r.discount = d /\ r.subtotal = k.subtotal
    BY <2>2, <2>4 DEF CheckoutRecord
  <2> HIDE DEF r
  <2>6. Sound(r)
    BY <2>4, <2>5 DEF Sound
  <2> QED
    BY <2>1, <2>6
<1>9. Sound(NoCheckout)
  BY DEF Sound
<1> HIDE DEF k
<1> QED
  BY <1>4, <1>5, <1>6, <1>7, <1>8, <1>9
  DEF CheckoutStep, CheckoutThrow, CheckoutFail, CheckoutEnd

\* The commit copies what the checkout holds.
LEMMA MoneyCommit ==
  ASSUME MoneyInv, NEW c \in Call, CheckoutCommit(c)
  PROVE  /\ bill' \in [Order -> Bill \cup {NoBill}]
         /\ DiscountWithinSubtotal'
<1> DEFINE k == checkout[c]
<1>0. PICK n \in LineTotals(k) : bill' = [bill EXCEPT ![call[c].order] =
        [placed |-> TRUE, user |-> k.user, key |-> k.key, coupon |-> k.coupon,
         list |-> k.list, list2 |-> k.list2, subtotal |-> k.subtotal,
         discount |-> k.discount, lines |-> n]]
  BY DEF CheckoutCommit
<1> DEFINE b == [placed |-> TRUE, user |-> k.user, key |-> k.key, coupon |-> k.coupon,
                list |-> k.list, list2 |-> k.list2, subtotal |-> k.subtotal,
                discount |-> k.discount, lines |-> n]
<1>1. k.pc = "place" /\ bill' = [bill EXCEPT ![call[c].order] = b]
  BY <1>0 DEF CheckoutCommit
<1>2. k \in CheckoutRecord /\ k.discount \in 0..k.subtotal
  BY <1>1 DEF MoneyInv, Sound, NoCheckout
<1>3. n \in Nat
  <2>1. /\ k.items \in [Variant -> Nat] /\ k.price \in [Variant \X PriceList -> Nat]
        /\ k.list2 \in PriceList
    BY <1>2, CartsAssumption DEF CheckoutRecord, CartQuantities
  <2> HIDE DEF k
  <2>2. Cost(k.items, k.price, k.list2) \in [Variant -> Nat]
    BY <2>1, CostType
  <2> QED
    BY <1>0, <2>2, LinesType DEF LineTotals
<1> HIDE DEF k
<1>4. b \in Bill /\ b.discount \in 0..b.subtotal
  BY <1>2, <1>3 DEF Bill, CheckoutRecord
<1> HIDE DEF b
<1>5. bill \in [Order -> Bill \cup {NoBill}] /\ DiscountWithinSubtotal
  BY DEF MoneyInv
<1>6. bill' \in [Order -> Bill \cup {NoBill}]
  BY <1>1, <1>4, <1>5
<1>7. \A o \in Order : bill'[o] = bill[o] \/ bill'[o] = b
  BY <1>1, <1>5
<1> QED
  BY <1>4, <1>5, <1>6, <1>7 DEF DiscountWithinSubtotal

LEMMA MoneyStep == MoneyInv /\ [CheckoutNext]_allVars => MoneyInv'
<1> SUFFICES ASSUME MoneyInv, [CheckoutNext]_allVars PROVE MoneyInv'
  OBVIOUS
<1>1. CartInv'
  BY CartInvStep DEF MoneyInv
<1>2. ASSUME PricingTypeOK', CouponsFit', UNCHANGED <<checkout, bill>> PROVE MoneyInv'
  BY <1>1, <1>2 DEF MoneyInv, Sound, DiscountWithinSubtotal
<1>3. ASSUME NEW c \in Call, NEW r, Go(c, r), Sound(r), PricingTypeOK', CouponsFit',
             bill' \in [Order -> Bill \cup {NoBill}], DiscountWithinSubtotal'
      PROVE  MoneyInv'
  <2>1. checkout' = [checkout EXCEPT ![c] = r] /\ r \in CheckoutRecord \cup {NoCheckout}
    BY <1>3 DEF Go, Sound
  <2>2. /\ checkout' \in [Call -> CheckoutRecord \cup {NoCheckout}]
        /\ \A d \in Call : checkout'[d] = checkout[d] \/ checkout'[d] = r
    BY <2>1 DEF MoneyInv
  <2>3. \A d \in Call : Sound(checkout'[d])
    BY <1>3, <2>2 DEF MoneyInv
  <2> QED
    BY <1>1, <1>3, <2>2, <2>3 DEF MoneyInv, Sound
<1>4. ASSUME UNCHANGED pricingVars PROVE PricingTypeOK'
  BY <1>4 DEF pricingVars, MoneyInv, PricingTypeOK
<1>5. ASSUME UNCHANGED coupons PROVE CouponsFit'
  BY <1>5, CouponsFitStep DEF MoneyInv
<1>6. ASSUME NEW c \in Call, CheckoutStep(c) PROVE MoneyInv'
  <2>1. CASE CheckoutCommit(c)
    <3>1. PricingTypeOK' /\ CouponsFit' /\ Go(c, NoCheckout)
      BY <1>4, <1>5, <2>1, CouponsFitStep DEF CheckoutCommit, MoneyInv
    <3>2. Sound(NoCheckout)
      BY DEF Sound
    <3> QED
      BY <1>3, <2>1, <3>1, <3>2, MoneyCommit
  <2>2. CASE ~CheckoutCommit(c)
    <3>1. UNCHANGED <<pricingVars, coupons, bill>>
      BY <1>6, <2>2
      DEF CheckoutStep, CheckoutStart, CheckoutTotal, CheckoutDefault, CheckoutList,
          CheckoutCoupon, CheckoutThrow, CheckoutFail, CheckoutEnd, shopVars
    <3>2. PICK r : Go(c, r) /\ Sound(r)
      BY <1>6, <2>2, MoneyCheckout
    <3>3. bill' \in [Order -> Bill \cup {NoBill}] /\ DiscountWithinSubtotal'
      BY <3>1 DEF MoneyInv, DiscountWithinSubtotal
    <3> QED
      BY <1>3, <1>4, <1>5, <3>1, <3>2, <3>3
  <2> QED
    BY <2>1, <2>2
<1>7. ASSUME ShopStep PROVE MoneyInv'
  <2>1. PricingTypeOK'
    BY <1>4, <1>7, PricingStep DEF ShopStep, MoneyInv
  <2>2. CouponsFit'
    BY <1>5, <1>7, CouponsFitStep DEF ShopStep, MoneyInv
  <2> QED
    BY <1>2, <1>7, <2>1, <2>2 DEF ShopStep
<1>8. ASSUME LifeStep \/ UNCHANGED allVars PROVE MoneyInv'
  BY <1>2, <1>4, <1>5, <1>8 DEF LifeStep, allVars, checkoutVars, shopVars
<1> QED
  BY <1>6, <1>7, <1>8 DEF CheckoutNext

\* No order is ever charged less than nothing: its discount is within its subtotal, for
\* every kind, value and rounding, and whatever staff do to the coupon meanwhile.
THEOREM DiscountsFit == CheckoutSpec => []DiscountWithinSubtotal
<1>1. MoneyInv => DiscountWithinSubtotal
  BY DEF MoneyInv
<1> QED
  BY MoneyInit, MoneyStep, <1>1, PTL DEF CheckoutSpec

----------------------------------------------------------------------------
\* The items of q in fractions of a unit: what the statement counts.
Fractional(q) == {v \in Variant : q[v] % PerUnit # 0}

\* Adding up amounts rounded one by one instead of rounding their sum: those that are
\* not fractions of a cent make no difference, each other one half a cent at most.
LEMMA LinesAreNear ==
  ASSUME NEW S, IsFiniteSet(S), NEW R \in SUBSET S, NEW f \in [S -> Nat],
         \A v \in S \ R : f[v] % PerUnit = 0,
         NEW g \in [S -> Nat], \A v \in S : g[v] \in Nearest(f[v], PerUnit)
  PROVE  /\ SumOf(f, S) \in Nat /\ SumOf(g, S) \in Nat
         /\ 2 * (PerUnit * SumOf(g, S)) - 2 * SumOf(f, S) <= PerUnit * Cardinality(R)
         /\ 2 * (PerUnit * SumOf(g, S)) - 2 * SumOf(f, S) >= -(PerUnit * Cardinality(R))
<1> DEFINE P == {T \in SUBSET S :
              LET k == Cardinality(T \cap R)
                  e == 2 * (PerUnit * SumOf(g, T)) - 2 * SumOf(f, T)
              IN  e <= PerUnit * k /\ e >= -(PerUnit * k)}
<1>0. PerUnit \in Nat \ {0}
  BY PricingAssumption
<1>1. ASSUME NEW T \in SUBSET S, \A U \in SUBSET T : U # T => U \in P
      PROVE  T \in P
  <2>1. IsFiniteSet(T) /\ IsFiniteSet(T \cap R)
    BY FS_Subset
  <2>2. /\ SumOf(f, T) = IF T = {} THEN 0 ELSE f[First(T)] + SumOf(f, T \ {First(T)})
        /\ SumOf(g, T) = IF T = {} THEN 0 ELSE g[First(T)] + SumOf(g, T \ {First(T)})
    BY <2>1, SumUnfolds
  <2>3. CASE T = {}
    <3>1. Cardinality(T \cap R) = 0
      BY <2>3, FS_EmptySet
    <3>2. SumOf(f, T) = 0 /\ SumOf(g, T) = 0
      BY <2>2, <2>3
    <3> QED
      BY <1>0, <3>1, <3>2
  <2>4. CASE T # {}
    <3> DEFINE c == First(T)
               U == T \ {c}
               k == Cardinality(U \cap R)
               a == SumOf(f, U)
               b == SumOf(g, U)
    <3>1. c \in T /\ U \in SUBSET T /\ U # T
      BY <2>4, FirstIn
    <3>2. SumOf(f, T) = f[c] + a /\ SumOf(g, T) = g[c] + b
      BY <2>2, <2>4
    <3> HIDE DEF c
    <3>3. U \in P
      BY <1>1, <3>1
    <3>4. a \in Nat /\ b \in Nat /\ k \in Nat /\ f[c] \in Nat /\ g[c] \in Nat
      <4>1. IsFiniteSet(U) /\ IsFiniteSet(U \cap R)
        BY <2>1, FS_Subset
      <4> QED
        BY <1>0, <3>1, <4>1, SumNat, FS_CardinalityType
    <3>5. /\ 2 * (PerUnit * b) - 2 * a <= PerUnit * k
          /\ 2 * (PerUnit * b) - 2 * a >= -(PerUnit * k)
      BY <3>3
    <3>6. /\ 2 * (PerUnit * g[c]) - 2 * f[c] \in -PerUnit..PerUnit
          /\ c \notin R => PerUnit * g[c] = f[c]
      <4>1. c \in S /\ g[c] \in Nearest(f[c], PerUnit)
        BY <3>1
      <4>2. c \notin R => f[c] % PerUnit = 0
        BY <4>1
      <4> QED
        BY <1>0, <3>4, <4>1, <4>2, NearestIsNear
    <3>7. Cardinality(T \cap R) = IF c \in R THEN k + 1 ELSE k
      <4>1. CASE c \in R
        <5>1. U \cap R = (T \cap R) \ {c} /\ c \in T \cap R
          BY <3>1, <4>1
        <5>2. /\ c \in T \cap R
              /\ Cardinality((T \cap R) \ {c}) = Cardinality(T \cap R) - 1
          <6> HIDE DEF c, U
          <6> QED
            BY <2>1, <5>1, FS_RemoveElement
        <5>3. Cardinality(T \cap R) \in Nat
          BY <2>1, FS_CardinalityType
        <5> QED
          BY <4>1, <5>1, <5>2, <5>3
      <4>2. CASE c \notin R
        <5>1. U \cap R = T \cap R
          BY <4>2
        <5> QED
          BY <4>2, <5>1
      <4> QED
        BY <4>1, <4>2
    <3> HIDE DEF U, k, a, b, P
    <3>8. /\ PerUnit * (g[c] + b) = PerUnit * g[c] + PerUnit * b
          /\ PerUnit * (k + 1) = PerUnit * k + PerUnit
          /\ PerUnit * g[c] \in Nat /\ PerUnit * b \in Nat /\ PerUnit * k \in Nat
      BY <1>0, <3>4
    <3>9. \A s \in Nat \ {0}, x, y, m, n, h \in Nat :
            /\ 2 * y - 2 * n <= h /\ 2 * y - 2 * n >= -h
            /\ 2 * x - 2 * m \in -s..s
            => /\ 2 * (x + y) - 2 * (m + n) <= h + s
               /\ 2 * (x + y) - 2 * (m + n) >= -(h + s)
               /\ x = m => 2 * (x + y) - 2 * (m + n) <= h /\ 2 * (x + y) - 2 * (m + n) >= -h
      OBVIOUS
    <3>10. /\ 2 * (PerUnit * g[c] + PerUnit * b) - 2 * (f[c] + a) <= PerUnit * k + PerUnit
           /\ 2 * (PerUnit * g[c] + PerUnit * b) - 2 * (f[c] + a) >= -(PerUnit * k + PerUnit)
           /\ c \notin R =>
                /\ 2 * (PerUnit * g[c] + PerUnit * b) - 2 * (f[c] + a) <= PerUnit * k
                /\ 2 * (PerUnit * g[c] + PerUnit * b) - 2 * (f[c] + a) >= -(PerUnit * k)
      BY <1>0, <3>4, <3>5, <3>6, <3>8, <3>9
    <3> QED
      BY <3>2, <3>7, <3>8, <3>10 DEF P
  <2> QED
    BY <2>3, <2>4
<1> HIDE DEF P
<1>2. S \in P
  BY <1>1, FiniteInduction
<1>3. S \cap R = R
  OBVIOUS
<1>4. SumOf(f, S) \in Nat /\ SumOf(g, S) \in Nat
  BY <1>0, SumNat
<1> QED
  BY <1>2, <1>3, <1>4 DEF P

\* So what the items of a cart come to is near its total.
LEMMA LinesNearTotal ==
  ASSUME NEW q \in CartQuantities, NEW p \in [Variant \X PriceList -> Nat],
         NEW l \in PriceList, NEW t \in Totals(q, p, l), NEW g \in Lines(Cost(q, p, l))
  PROVE  LET k == Cardinality(Fractional(q))
             more == SumOf(g, Variant) - t
         IN  IF k = 0 THEN more = 0 ELSE 2 * more \in -(k + 1)..(k + 1)
<1> DEFINE f == Cost(q, p, l)
           R == Fractional(q)
           a == SumOf(g, Variant)
           n == SumOf(f, Variant)
           k == Cardinality(R)
<1>1. q \in [Variant -> Nat] /\ R \in SUBSET Variant
  BY CartsAssumption DEF CartQuantities, Fractional
<1>2. f \in [Variant -> Nat]
  BY <1>1, CostType
<1>3. ASSUME NEW v \in Variant \ R PROVE f[v] % PerUnit = 0
  <2>1. f[v] = q[v] * p[<<v, l>>]
    BY DEF Cost
  <2>2. q[v] \in Nat /\ q[v] % PerUnit = 0 /\ p[<<v, l>>] \in Nat
    BY <1>1 DEF Fractional
  <2>3. \A s \in Nat \ {0}, x, y \in Nat : x % s = 0 => (x * y) % s = 0
    <3> SUFFICES ASSUME NEW s \in Nat \ {0}, NEW x \in Nat, NEW y \in Nat, x % s = 0
                 PROVE  (x * y) % s = 0
      OBVIOUS
    <3> DEFINE m == x \div s
    <3>1. m \in Int /\ x = s * m
      OBVIOUS
    <3> HIDE DEF m
    <3>2. x * y = s * (m * y) /\ m * y \in Int
      BY <3>1
    <3>3. \A i \in Int : (s * i) % s = 0
      OBVIOUS
    <3> QED
      BY <3>2, <3>3
  <2> QED
    BY <2>1, <2>2, <2>3, PricingAssumption
<1>4. /\ g \in [Variant -> Nat]
      /\ \A v \in Variant : g[v] \in Nearest(f[v], PerUnit)
  BY <1>2, LinesType
<1>5. t \in Nearest(n, PerUnit)
  BY DEF Totals
<1> HIDE DEF f, R
<1>6. /\ n \in Nat /\ a \in Nat
      /\ 2 * (PerUnit * a) - 2 * n <= PerUnit * k
      /\ 2 * (PerUnit * a) - 2 * n >= -(PerUnit * k)
  BY <1>1, <1>2, <1>3, <1>4, QuantitiesAssumption, LinesAreNear
<1>7. k \in Nat
  BY <1>1, QuantitiesAssumption, FS_Subset, FS_CardinalityType
<1> HIDE DEF a, n, k
<1>8. /\ t \in Nat
      /\ 2 * (PerUnit * t) - 2 * n \in -PerUnit..PerUnit
      /\ n % PerUnit = 0 => PerUnit * t = n
  BY <1>5, <1>6, PricingAssumption, NearestIsNear
<1>9. IF k = 0 THEN a - t = 0 ELSE 2 * (a - t) \in -(k + 1)..(k + 1)
  <2> SUFFICES ASSUME NEW s \in Nat \ {0}, s = PerUnit
               PROVE  IF k = 0 THEN a - t = 0 ELSE 2 * (a - t) \in -(k + 1)..(k + 1)
    BY PricingAssumption
  <2> DEFINE d == a - t
             e == k + 1
  <2>1. /\ d \in Int
        /\ s * d = s * a - s * t
        /\ s * a \in Nat /\ s * t \in Nat /\ s * k \in Nat
        /\ s * e = s * k + s
        /\ e \in Nat
    BY <1>6, <1>7, <1>8
  <2> HIDE DEF d, e
  <2>2. CASE k = 0
    <3>1. s * a = n
      BY <1>6, <2>1, <2>2
    <3>2. n % s = 0
      <4>1. \A i \in Nat : (s * i) % s = 0
        OBVIOUS
      <4> QED
        BY <1>6, <3>1, <4>1
    <3>3. s * d = 0
      BY <1>8, <2>1, <3>1, <3>2
    <3>4. \A x \in Int : s * x = 0 => x = 0
      OBVIOUS
    <3>5. d = 0
      BY <2>1, <3>3, <3>4
    <3> QED
      BY <2>2, <3>5 DEF d
  <2>3. CASE k # 0
    <3>1. 2 * (s * d) <= s * e /\ 2 * (s * d) >= -(s * e)
      BY <1>6, <1>8, <2>1
    <3>2. s * (2 * d) = 2 * (s * d) /\ s * (-(2 * d)) = -(2 * (s * d)) /\ 2 * d \in Int
      BY <2>1
    <3>3. \A x \in Int : s * x <= s * e => x <= e
      <4> SUFFICES ASSUME NEW x \in Int, s * x <= s * e, x >= e + 1 PROVE FALSE
        BY <2>1
      <4>1. s * x >= s * (e + 1) /\ s * (e + 1) = s * e + s
        BY <2>1
      <4> QED
        BY <2>1, <4>1
    <3>4. 2 * d <= e /\ -(2 * d) <= e
      BY <2>1, <3>1, <3>2, <3>3
    <3>5. 2 * d \in -e..e
      BY <2>1, <3>4
    <3> QED
      BY <2>3, <3>5 DEF d, e
  <2> QED
    BY <2>2, <2>3
<1> QED
  BY <1>9 DEF a, k, R

\* The items a checkout has read are those its order will have, once it has an id.
Announced(c) ==
  checkout[c].pc \in {"list2", "coupon", "place"} => call[c].items = checkout[c].items

\* The items of an order never change.
LEMMA ItemsStay ==
  ASSUME IType, [Next]_vars, NEW o \in Order, Placed(o)
  PROVE  items'[o] = items[o]
<1>1. ASSUME NEW c \in Process, PlaceCommit(c) PROVE items'[o] = items[o]
  BY <1>1 DEF PlaceCommit, IType, TypeOK
<1>2. CASE UNCHANGED items
  BY <1>2
<1> QED
  BY <1>1, <1>2
  DEF Next, OrdersStep, Request, Progress, PlaceRead, PatchRead, PayRead, ShipRead, DeliverRead,
      PlaceEnqueue, PayCreate, ShipCreate, DeliverWrite, UpdateRead, UpdateDefault, UpdateCommit,
      UpdateDequeue, Throw, JobStart, Fail, WorkerCrash, orderVars, vars

\* An order charges what the customer was shown: its items come to its subtotal, give or
\* take the rounding of those sold in fractions, however carts, prices and price lists
\* change meanwhile, unless the customer's own list did between the two reads of it.
THEOREM OrdersChargeAsListed == CheckoutSpec => []ChargedAsListed
<1> DEFINE Charged == /\ \A d \in Call : Totalled(checkout[d])
                      /\ \A d \in Call : Announced(d)
                      /\ ChargedAsListed
           Inv == Charged /\ PlacedInv /\ MoneyInv
<1>1. CheckoutInit => Charged
  BY DEF CheckoutInit, ChargedAsListed, NoBill, Totalled, Announced, NoCheckout
<1>2. Inv /\ PlacedInv' /\ MoneyInv' /\ [CheckoutNext]_allVars => Charged'
  <2> SUFFICES ASSUME Inv, PlacedInv', MoneyInv', [CheckoutNext]_allVars PROVE Charged'
    OBVIOUS
  <2>1. (\A d \in Call : Totalled(checkout[d]))'
    BY TotalledStep DEF MoneyInv
  <2>2. [Next]_vars
    BY CheckoutStepIsOrdersStep DEF MoneyInv
  <2>3. /\ checkout \in [Call -> CheckoutRecord \cup {NoCheckout}]
        /\ Call \subseteq DOMAIN call /\ DOMAIN call = Process
        /\ DOMAIN bill = Order
        /\ IType /\ BillsInv
    BY DEF MoneyInv, PlacedInv, CouponInv, IType, TypeOK, Process
  <2>4. ASSUME NEW o \in Order, bill[o].placed PROVE items'[o] = items[o]
    BY <2>2, <2>3, <2>4, ItemsStay DEF BillsInv
  <2>5. ASSUME UNCHANGED bill PROVE ChargedAsListed'
    BY <2>4, <2>5 DEF ChargedAsListed
  <2>6. ASSUME NEW c \in Call, CheckoutCommit(c) PROVE ChargedAsListed'
    <3> DEFINE k == checkout[c]
               q == call[c].order
    <3>0. PICK n \in LineTotals(k) : bill' = [bill EXCEPT ![q] =
            [placed |-> TRUE, user |-> k.user, key |-> k.key, coupon |-> k.coupon,
             list |-> k.list, list2 |-> k.list2, subtotal |-> k.subtotal,
             discount |-> k.discount, lines |-> n]]
      BY <2>6 DEF CheckoutCommit
    <3> DEFINE b == [placed |-> TRUE, user |-> k.user, key |-> k.key, coupon |-> k.coupon,
                    list |-> k.list, list2 |-> k.list2, subtotal |-> k.subtotal,
                    discount |-> k.discount, lines |-> n]
    <3>1. /\ bill' = [bill EXCEPT ![q] = b]
          /\ b.list = k.list /\ b.list2 = k.list2
          /\ b.subtotal = k.subtotal /\ b.lines = n
          /\ k.pc = "place"
          /\ items' = [items EXCEPT ![q] = call[c].items]
      BY <2>6, <3>0 DEF CheckoutCommit, PlaceCommit
    <3> HIDE DEF b
    <3>2. k \in CheckoutRecord
      BY <2>3, <3>1 DEF NoCheckout
    <3>3. /\ k.items \in CartQuantities /\ k.price \in [Variant \X PriceList -> Nat]
          /\ k.list \in PriceList
      BY <3>2 DEF CheckoutRecord
    <3>4. k.subtotal \in Totals(k.items, k.price, k.list)
      <4>1. Totalled(k)
        OBVIOUS
      <4> QED
        BY <3>1, <4>1 DEF Totalled, NoCheckout
    <3>5. call[c].items = k.items
      <4>1. Announced(c)
        OBVIOUS
      <4> QED
        BY <3>1, <4>1 DEF Announced
    <3> HIDE DEF k
    <3>6. ASSUME b.list = b.list2
          PROVE  LET n0 == Cardinality(Fractional(k.items))
                     more == b.lines - b.subtotal
                 IN  IF n0 = 0 THEN more = 0 ELSE 2 * more \in -(n0 + 1)..(n0 + 1)
      <4>1. PICK g \in Lines(Cost(k.items, k.price, k.list)) : b.lines = SumOf(g, Variant)
        BY <3>0, <3>1, <3>6 DEF LineTotals
      <4> QED
        BY <3>1, <3>3, <3>4, <4>1, LinesNearTotal
    <3>7. ASSUME NEW o \in Order, bill'[o].placed, bill'[o].list = bill'[o].list2
          PROVE  LET n0 == Cardinality({v \in Variant : items'[o][v] % PerUnit # 0})
                     more == bill'[o].lines - bill'[o].subtotal
                 IN  IF n0 = 0 THEN more = 0 ELSE 2 * more \in -(n0 + 1)..(n0 + 1)
      <4>1. CASE o = q
        <5>1. bill'[o] = b /\ items'[o] = k.items
          BY <2>3, <3>1, <3>5, <4>1 DEF IType, TypeOK
        <5> QED
          BY <3>6, <3>7, <5>1 DEF Fractional
      <4>2. CASE o # q
        <5>1. bill'[o] = bill[o]
          BY <2>3, <3>1, <4>2
        <5>2. items'[o] = items[o]
          BY <2>4, <3>7, <5>1
        <5> QED
          BY <3>7, <5>1, <5>2 DEF ChargedAsListed
      <4> QED
        BY <4>1, <4>2
    <3> QED
      BY <3>7 DEF ChargedAsListed
  <2>7. ASSUME NEW d \in Call, UNCHANGED <<checkout, call>> PROVE Announced(d)'
    BY <2>7 DEF Announced
  <2>8. ASSUME NEW c \in Call, CheckoutStep(c), NEW d \in Call PROVE Announced(d)'
    <3>1. CASE d = c
      <4>1. ASSUME NEW o \in Order, NEW w \in Warehouse, CheckoutDefault(c, o, w)
            PROVE  Announced(d)'
        <5>1. /\ checkout' = [checkout EXCEPT ![c] = [checkout[c] EXCEPT !.pc = "list2"]]
              /\ call' = [call EXCEPT ![c] = [Idle EXCEPT !.pc = "reserve", !.order = o,
                                              !.items = checkout[c].items, !.wh = w]]
              /\ checkout[c].pc = "default"
          BY <4>1 DEF CheckoutDefault, PlaceRead, Go
        <5>2. checkout[c] \in CheckoutRecord
          BY <2>3, <5>1 DEF NoCheckout
        <5>3. checkout'[c].items = checkout[c].items
          BY <2>3, <5>1, <5>2 DEF CheckoutRecord
        <5>4. call'[c].items = checkout[c].items
          BY <2>3, <5>1 DEF Idle
        <5> QED
          BY <3>1, <5>3, <5>4 DEF Announced
      <4>2. ASSUME NEW r, Go(c, r), UNCHANGED call, checkout[c] \in CheckoutRecord,
                   checkout[c].pc \in {"list2", "coupon", "place"},
                   r.items = checkout[c].items
            PROVE  Announced(d)'
        <5>1. checkout'[c] = r /\ call[c].items = checkout[c].items
          BY <2>3, <4>2 DEF Go, Announced
        <5> QED
          BY <3>1, <4>2, <5>1 DEF Announced
      <4>3. ASSUME NEW r, Go(c, r), r.pc \notin {"list2", "coupon", "place"}
            PROVE  Announced(d)'
        BY <2>3, <3>1, <4>3 DEF Go, Announced
      <4>4. CASE CheckoutTotal(c)
        <5>1. checkout[c] \in CheckoutRecord
          BY <2>3, <4>4 DEF CheckoutTotal, NoCheckout
        <5>0. PICK t : Go(c, [checkout[c] EXCEPT !.pc = "default",
                                 !.list = listOf[checkout[c].user], !.subtotal = t])
          BY <4>4 DEF CheckoutTotal
        <5> DEFINE r == [checkout[c] EXCEPT !.pc = "default", !.list = listOf[checkout[c].user],
                           !.subtotal = t]
        <5>2. Go(c, r) /\ r.pc = "default"
          BY <5>0, <5>1 DEF CheckoutRecord
        <5> HIDE DEF r
        <5> QED
          BY <4>3, <5>2
      <4>5. CASE CheckoutList(c)
        <5>1. checkout[c] \in CheckoutRecord /\ checkout[c].pc = "list2"
          BY <2>3, <4>5 DEF CheckoutList, NoCheckout
        <5> DEFINE pc == IF checkout[c].coupon = None THEN "place" ELSE "coupon"
                   r == [checkout[c] EXCEPT !.pc = pc, !.list2 = listOf[checkout[c].user]]
        <5>2. Go(c, r) /\ r.items = checkout[c].items
          BY <4>5, <5>1 DEF CheckoutList, CheckoutRecord
        <5>3. UNCHANGED call
          BY <4>5 DEF CheckoutList, vars
        <5> HIDE DEF r
        <5> QED
          BY <4>2, <5>1, <5>2, <5>3
      <4>6. CASE CheckoutCoupon(c)
        <5>1. checkout[c] \in CheckoutRecord /\ checkout[c].pc = "coupon"
          BY <2>3, <4>6 DEF CheckoutCoupon, NoCheckout
        <5>0. PICK t : Go(c, [checkout[c] EXCEPT !.pc = "place", !.discount = t])
          BY <4>6 DEF CheckoutCoupon
        <5> DEFINE r == [checkout[c] EXCEPT !.pc = "place", !.discount = t]
        <5>2. Go(c, r) /\ r.items = checkout[c].items
          BY <5>0, <5>1 DEF CheckoutRecord
        <5>3. UNCHANGED call
          BY <4>6 DEF CheckoutCoupon, vars
        <5> HIDE DEF r
        <5> QED
          BY <4>2, <5>1, <5>2, <5>3
      <4>7. ASSUME NEW u \in Customer, NEW key \in Key \cup {None}, NEW k \in Coupon \cup {None},
                   CheckoutStart(c, u, key, k)
            PROVE  Announced(d)'
        BY <4>3, <4>7 DEF CheckoutStart
      <4>8. ASSUME Go(c, NoCheckout) PROVE Announced(d)'
        BY <4>3, <4>8 DEF NoCheckout
      <4> QED
        BY <2>8, <4>1, <4>4, <4>5, <4>6, <4>7, <4>8
        DEF CheckoutStep, CheckoutCommit, CheckoutThrow, CheckoutFail, CheckoutEnd
    <3>2. CASE d # c
      <4>1. checkout'[d] = checkout[d]
        BY <2>3, <2>8, <3>2
        DEF CheckoutStep, CheckoutStart, CheckoutTotal, CheckoutDefault, CheckoutList,
            CheckoutCoupon, CheckoutCommit, CheckoutThrow, CheckoutFail, CheckoutEnd, Go
      <4>2. call'[d] = call[d]
        <5>1. UNCHANGED call \/ \E k : call' = [call EXCEPT ![c] = k]
          BY <2>8
          DEF CheckoutStep, CheckoutStart, CheckoutTotal, CheckoutDefault, PlaceRead,
              CheckoutList, CheckoutCoupon, CheckoutCommit, PlaceCommit, CheckoutThrow,
              CheckoutFail, CheckoutEnd, Throw, Finish, vars
        <5> QED
          BY <2>3, <3>2, <5>1
      <4>3. Announced(d)
        OBVIOUS
      <4> QED
        BY <4>1, <4>2, <4>3 DEF Announced
    <3> QED
      BY <3>1, <3>2
  <2>9. CASE \E c \in Call : CheckoutStep(c)
    <3>1. PICK c \in Call : CheckoutStep(c)
      BY <2>9
    <3>2. ChargedAsListed'
      BY <2>5, <2>6, <3>1
      DEF CheckoutStep, CheckoutStart, CheckoutTotal, CheckoutDefault, CheckoutList,
          CheckoutCoupon, CheckoutThrow, CheckoutFail, CheckoutEnd
    <3> QED
      BY <2>1, <2>8, <3>1, <3>2
  <2>10. CASE ShopStep \/ UNCHANGED allVars
    BY <2>1, <2>5, <2>7, <2>10 DEF ShopStep, allVars, checkoutVars, vars
  <2>11. CASE LifeStep
    <3>1. ASSUME NEW d \in Call PROVE Announced(d)'
      <4>1. Announced(d) /\ UNCHANGED checkout
        BY <2>11 DEF LifeStep
      <4>2. checkout[d] # NoCheckout => call'[d] = call[d]
        BY <2>11 DEF LifeStep
      <4> QED
        BY <4>1, <4>2 DEF Announced, NoCheckout
    <3> QED
      BY <2>1, <2>5, <2>11, <3>1 DEF LifeStep
  <2> QED
    BY <2>9, <2>10, <2>11 DEF CheckoutNext
<1>3. Charged => ChargedAsListed
  OBVIOUS
<1> HIDE DEF Charged
<1> QED
  BY <1>1, <1>2, <1>3, PlacedInvariant, MoneyInit, MoneyStep, PTL DEF CheckoutSpec
=============================================================================
