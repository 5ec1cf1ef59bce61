------------------------------- MODULE Carts --------------------------------
(* src/modules/cart/cart.service.ts: one cart per customer.  The variants are *)
(* on sale and have no minimum quantity: a request that validateQuantity      *)
(* refuses changes nothing.                                                   *)
EXTENDS Pricing

CONSTANTS MaxQuantity,   \* bound on the quantity of a cart item
          Divisible,     \* the variants sold by METER, ROLL or KILOGRAM
          Tab            \* slots for addItem calls in progress

ASSUME CartsAssumption == MaxQuantity \in Nat \ {0} /\ Divisible \subseteq Variant

VARIABLES cart,          \* per customer: the items of the cart
          adding         \* per slot: the quantity computed, not yet written

cartVars == <<cart, adding>>

\* validateQuantity: the other variants are sold in whole units.
Sold(v, n) == v \in Divisible \/ n % PerUnit = 0

CartQuantities == {q \in [Variant -> 0..MaxQuantity] : \A v \in Variant : Sold(v, q[v])}

NoAdd == [pc |-> "idle"]
Add == {a \in [pc : {"write"}, user : Customer, variant : Variant,
               quantity : 1..MaxQuantity, newQuantity : 1..MaxQuantity] :
          Sold(a.variant, a.quantity) /\ Sold(a.variant, a.newQuantity)} \cup {NoAdd}

CartsTypeOK ==
  /\ cart \in [Customer -> CartQuantities]
  /\ adding \in [Tab -> Add]

CartsInit ==
  /\ cart = [u \in Customer |-> NoItems]
  /\ adding = [t \in Tab |-> NoAdd]

\* addItem, up to its upsert: the row is read and the new quantity computed ...
AddRead(t, u, v, n) ==
  /\ adding[t] = NoAdd
  /\ cart[u][v] + n <= MaxQuantity
  /\ Sold(v, n) /\ Sold(v, cart[u][v] + n)
  /\ adding' = [adding EXCEPT ![t] = [pc |-> "write", user |-> u, variant |-> v,
                                      quantity |-> n, newQuantity |-> cart[u][v] + n]]
  /\ UNCHANGED cart

\* ... and written, over whatever the row holds by then; a row that is gone is
\* created with the quantity of the request.
AddWrite(t) ==
  LET a == adding[t]
  IN  /\ a # NoAdd
      /\ cart' = [cart EXCEPT ![a.user][a.variant] =
                    IF @ = 0 THEN a.quantity ELSE a.newQuantity]
      /\ adding' = [adding EXCEPT ![t] = NoAdd]

\* updateItem, on a row that exists; n = 0 deletes it, as removeItem does.
UpdateItem(u, v, n) ==
  /\ cart[u][v] > 0
  /\ Sold(v, n)
  /\ cart' = [cart EXCEPT ![u][v] = n]
  /\ UNCHANGED adding

Clear(u) ==
  /\ cart' = [cart EXCEPT ![u] = NoItems]
  /\ UNCHANGED adding

CartsNext ==
  \/ \E t \in Tab, u \in Customer, v \in Variant, n \in 1..MaxQuantity : AddRead(t, u, v, n)
  \/ \E t \in Tab : AddWrite(t)
  \/ \E u \in Customer, v \in Variant, n \in 0..MaxQuantity : UpdateItem(u, v, n)
  \/ \E u \in Customer : Clear(u)
=============================================================================
