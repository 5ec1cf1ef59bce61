------------------------------ MODULE Checkout ------------------------------
(* createFromCart (src/modules/orders/orders.service.ts) with what Orders      *)
(* leaves out of it: the idempotency key, the cart, the price list, which is   *)
(* read twice, and the coupon, which is validated before the transaction and   *)
(* redeemed in it.  The rest of an order's life is that of Orders.             *)
EXTENDS Orders, Carts, Coupons

CONSTANTS Key,          \* idempotency keys clients send
          MaxEdits      \* bound on the changes of carts, prices and coupons

ASSUME CheckoutAssumption ==
  /\ None \notin Key \cup Coupon
  /\ CartQuantities \ {NoItems} \subseteq Carts
  /\ MaxEdits \in Nat

VARIABLES checkout,     \* per call: what createFromCart has read so far
          bill,         \* per order: what its row and its items say of the money
          edits         \* how many changes of carts, prices and coupons were made

shopVars == <<cartVars, pricingVars, coupons>>
checkoutVars == <<checkout, bill, edits, shopVars>>
allVars == <<vars, checkoutVars>>

NoCheckout == [pc |-> "idle"]
CheckoutRecord ==
  [pc : {"list", "default", "list2", "coupon", "place"}, user : Customer,
   key : Key \cup {None}, coupon : Coupon \cup {None},
   items : CartQuantities \ {NoItems}, price : [Variant \X PriceList -> Nat],
   list : PriceList, subtotal : Nat, list2 : PriceList, discount : Nat]

NoBill == [placed |-> FALSE]
Bill ==
  [placed : {TRUE}, user : Customer, key : Key \cup {None}, coupon : Coupon \cup {None},
   list : PriceList, list2 : PriceList, subtotal : Nat, discount : Nat, lines : Nat]

CheckoutTypeOK ==
  /\ CartsTypeOK
  /\ PricingTypeOK
  /\ CouponsTypeOK
  /\ checkout \in [Call -> CheckoutRecord \cup {NoCheckout}]
  /\ bill \in [Order -> Bill \cup {NoBill}]
  /\ edits \in 0..MaxEdits

CheckoutInit ==
  /\ Init
  /\ CartsInit
  /\ PricingInit
  /\ CouponsInit
  /\ checkout = [c \in Call |-> NoCheckout]
  /\ bill = [o \in Order |-> NoBill]
  /\ edits = 0

Idling(c) == call[c].pc = "idle" /\ checkout[c] = NoCheckout

KeyTaken(key) == key # None /\ \E o \in Order : bill[o].placed /\ bill[o].key = key

Go(c, record) == checkout' = [checkout EXCEPT ![c] = record]

----------------------------------------------------------------------------
\* The key is looked up: if an order has it, that order is the answer and nothing
\* changes.  Otherwise the cart is read, with its variants' prices in every list.
\* (One step for the two reads: the key is looked at again at the commit.)
CheckoutStart(c, u, key, k) ==
  /\ Idling(c)
  /\ ~KeyTaken(key)
  /\ cart[u] # NoItems
  /\ Go(c, [pc |-> "list", user |-> u, key |-> key, coupon |-> k,
            items |-> cart[u], price |-> price, list |-> Retail, subtotal |-> 0,
            list2 |-> Retail, discount |-> 0])
  /\ UNCHANGED <<vars, bill, shopVars>>

\* getCart resolves the price list and computes the total of the cart with it.
CheckoutTotal(c) ==
  LET k == checkout[c]
      l == listOf[k.user]
  IN  /\ k.pc = "list"
      /\ Priced(k.items, k.price, l)
      /\ \E subtotal \in Totals(k.items, k.price, l) :
           Go(c, [k EXCEPT !.pc = "default", !.list = l, !.subtotal = subtotal])
      /\ UNCHANGED <<vars, bill, shopVars>>

CheckoutDefault(c, o, w) ==
  /\ checkout[c].pc = "default"
  /\ PlaceRead(c, o, checkout[c].items, w)
  /\ Go(c, [checkout[c] EXCEPT !.pc = "list2"])
  /\ UNCHANGED <<adjusting, warehouseVars, bill, shopVars>>

\* createFromCart resolves the price list again, for the order items.
CheckoutList(c) ==
  LET k == checkout[c]
  IN  /\ k.pc = "list2"
      /\ Go(c, [k EXCEPT !.pc = IF k.coupon = None THEN "place" ELSE "coupon",
                         !.list2 = listOf[k.user]])
      /\ UNCHANGED <<vars, bill, shopVars>>

CheckoutCoupon(c) ==
  LET k == checkout[c]
  IN  /\ k.pc = "coupon"
      /\ ValidCoupon(k.coupon, k.subtotal)
      /\ \E discount \in Discounts(k.coupon, k.subtotal) :
           Go(c, [k EXCEPT !.pc = "place", !.discount = discount])
      /\ UNCHANGED <<vars, bill, shopVars>>

\* The conditions of the transaction besides the stock and the coupon: no order
\* has the key (a unique column) and the items have a price in list2.
MayPlace_IgnoresKey(c) ==
  LET k == checkout[c]
  IN  Priced(k.items, k.price, k.list2)
MayPlace(c) ==
  LET k == checkout[c]
  IN  /\ ~KeyTaken(k.key)
      /\ Priced(k.items, k.price, k.list2)

\* The lines of the order: each is the unit price in list2 times the quantity, both as
\* read at the start, and rounded by its column.  And what they may come to.
Lines(cost) ==
  {line \in [Variant -> UNION {Nearest(cost[v], PerUnit) : v \in Variant}] :
     \A v \in Variant : line[v] \in Nearest(cost[v], PerUnit)}
LineTotals_OfToday(k) ==
  {SumOf(line, Variant) : line \in Lines(Cost(k.items, price, k.list2))}
LineTotals(k) ==
  {SumOf(line, Variant) : line \in Lines(Cost(k.items, k.price, k.list2))}

\* The transaction: it redeems the coupon, creates the order and its items,
\* reserves the stock and empties the cart, whatever the cart holds by now.
CheckoutCommit(c) ==
  LET k == checkout[c]
  IN  /\ k.pc = "place"
      /\ MayPlace(c)
      /\ PlaceCommit(c)
      /\ IF k.coupon # None THEN Redeem(k.coupon) ELSE UNCHANGED coupons
      /\ \E lines \in LineTotals(k) : bill' = [bill EXCEPT ![call[c].order] =
           [placed |-> TRUE, user |-> k.user, key |-> k.key, coupon |-> k.coupon,
            list |-> k.list, list2 |-> k.list2, subtotal |-> k.subtotal,
            discount |-> k.discount, lines |-> lines]]
      /\ cart' = [cart EXCEPT ![k.user] = NoItems]
      /\ Go(c, NoCheckout)
      /\ UNCHANGED <<adjusting, warehouseVars, adding, pricingVars>>

----------------------------------------------------------------------------
\* The errors of createFromCart: an item without a price (409, or a TypeError when
\* it lacks one in list2 only), no default warehouse, a coupon that is not valid or
\* has just been used up, a key just taken, insufficient stock.
CheckoutRejected(c) ==
  LET k == checkout[c]
  IN  \/ k.pc = "list" /\ ~Priced(k.items, k.price, listOf[k.user])
      \/ k.pc = "default" /\ active = {}
      \/ k.pc = "coupon" /\ ~ValidCoupon(k.coupon, k.subtotal)
      \/ /\ k.pc = "place"
         /\ \/ ~MayPlace(c)
            \/ k.coupon # None /\ ~UsesLeft(k.coupon)
            \/ ~Available(k.items, call[c].wh)

\* The call ends and its transaction, if it had begun, is rolled back.
CheckoutEnd(c) ==
  /\ IF call[c].pc = "reserve"
     THEN Throw(c) /\ UNCHANGED <<adjusting, warehouseVars>>
     ELSE UNCHANGED vars
  /\ Go(c, NoCheckout)
  /\ UNCHANGED <<bill, shopVars>>

CheckoutThrow_KeepsReservation(c) ==
  /\ CheckoutRejected(c)
  /\ IF checkout[c].pc = "place" /\ Available(checkout[c].items, call[c].wh)
     THEN /\ Reserve(checkout[c].items, call[c].wh)
          /\ Finish(c)
          /\ UNCHANGED <<orderVars, payments, shipments, adjusting, warehouseVars>>
          /\ Go(c, NoCheckout)
          /\ UNCHANGED <<bill, shopVars>>
     ELSE CheckoutEnd(c)
CheckoutThrow_KeepsRedemption(c) ==
  /\ CheckoutRejected(c)
  /\ IF checkout[c].pc = "place" /\ checkout[c].coupon # None
     THEN /\ Redeem(checkout[c].coupon)
          /\ Throw(c)
          /\ Go(c, NoCheckout)
          /\ UNCHANGED <<adjusting, warehouseVars, bill, cartVars, pricingVars>>
     ELSE CheckoutEnd(c)
CheckoutThrow(c) ==
  /\ CheckoutRejected(c)
  /\ CheckoutEnd(c)

CheckoutFail(c) ==
  /\ Faults
  /\ checkout[c] # NoCheckout
  /\ CheckoutEnd(c)

----------------------------------------------------------------------------
CheckoutStep(c) ==
  \/ \E u \in Customer, key \in Key \cup {None}, k \in Coupon \cup {None} :
       CheckoutStart(c, u, key, k)
  \/ CheckoutTotal(c)
  \/ \E o \in Order, w \in Warehouse : CheckoutDefault(c, o, w)
  \/ CheckoutList(c)
  \/ CheckoutCoupon(c)
  \/ CheckoutCommit(c)
  \/ CheckoutThrow(c)
  \/ CheckoutFail(c)

\* Carts, prices and coupons change while checkouts are under way.
ShopStep ==
  /\ \/ CartsNext /\ UNCHANGED <<pricingVars, coupons>>
     \/ PricingNext /\ UNCHANGED <<cartVars, coupons>>
     \/ CouponsNext /\ UNCHANGED <<cartVars, pricingVars>>
  /\ UNCHANGED <<vars, checkout, bill>>

\* Every other step of Orders, by processes that are not in a checkout.
LifeStep ==
  /\ Next
  /\ \A c \in Call :
       /\ call'[c].pc = "reserve" => checkout[c] # NoCheckout
       /\ checkout[c] # NoCheckout => call'[c] = call[c]
  /\ UNCHANGED <<checkout, bill, shopVars>>

CheckoutNext ==
  \/ (\E c \in Call : CheckoutStep(c)) /\ UNCHANGED edits
  \/ ShopStep /\ edits < MaxEdits /\ edits' = edits + 1
  \/ LifeStep /\ UNCHANGED edits

CheckoutSpec == CheckoutInit /\ [][CheckoutNext]_allVars

----------------------------------------------------------------------------
\* The detailed checkout implements the one of Orders, and with it all that holds
\* of Orders: whatever key, cart, prices or coupon a checkout ends on, it creates
\* an order and reserves its items in one step or does neither.
ImplementsOrders == Spec

\* A coupon is never redeemed past the limit it has at that moment, by however
\* many checkouts that all found it valid (coupons.service.ts:127-137).
CouponWithinLimit ==
  [][\A k \in Coupon :
       coupons[k].exists /\ coupons'[k].usedCount > coupons[k].usedCount
         => \/ coupons'[k].maxUses = Unlimited
            \/ coupons'[k].usedCount <= coupons'[k].maxUses]_allVars

\* The uses counted on a coupon are the orders created with it: a checkout that
\* fails after it redeemed gives the use back (and a cancelled order does not).
CouponCountsOrders ==
  \A k \in Coupon :
    coupons[k].exists =>
      coupons[k].usedCount = Cardinality({o \in Order : bill[o].placed /\ bill[o].coupon = k})

\* An idempotency key has at most one order, also when the same request arrives
\* twice at once and both find the key unused (orders.service.ts:80-88).
OneOrderPerKey ==
  \A o, p \in Order :
    (bill[o].placed /\ bill[p].placed /\ bill[o].key # None /\ bill[o].key = bill[p].key)
      => o = p

\* What an order charges: its items come to its subtotal, though carts and prices
\* change during the checkout, unless the customer's price list changed between
\* the two reads of it (orders.service.ts:90 and 101).  The subtotal is rounded once
\* and the items one by one (cart.service.ts:51, orders.service.ts:175): that is no
\* difference with whole units, and else at most half a cent per rounding.
ChargedAsListed ==
  \A o \in Order :
    bill[o].placed /\ bill[o].list = bill[o].list2 =>
      LET n == Cardinality({v \in Variant : items[o][v] % PerUnit # 0})
          more == bill[o].lines - bill[o].subtotal
      IN  IF n = 0 THEN more = 0 ELSE 2 * more \in -(n + 1)..(n + 1)

\* No discount, whatever its kind and rounding, exceeds the subtotal it is taken
\* from: the total of an order is never negative (orders.service.ts:111).
DiscountWithinSubtotal ==
  \A o \in Order : bill[o].placed => bill[o].discount \in 0..bill[o].subtotal
=============================================================================
