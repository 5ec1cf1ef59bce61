----------------------------- MODULE Quantities -----------------------------
(* How much of each variant: what a cart holds, an order lists, a movement    *)
(* moves.  0 is no row for that variant.  (prisma/schema.prisma: CartItem,    *)
(* OrderItem, InventoryMovement.)                                             *)
EXTENDS Integers, FiniteSetsExt

CONSTANT Variant

ASSUME QuantitiesAssumption == IsFiniteSet(Variant)

Quantities == [Variant -> Nat]

NoItems == [v \in Variant |-> 0]

\* The quantities of a single variant.
One(v, n) == [u \in Variant |-> IF u = v THEN n ELSE 0]

\* What f adds up to over S.
SumOf(f, S) == MapThenSumSet(LAMBDA x : f[x], S)
=============================================================================
