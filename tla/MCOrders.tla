------------------------------ MODULE MCOrders ------------------------------
(* Instances of Orders for TLC.                                               *)
EXTENDS OrderProperties, TLC

CONSTANTS v1, v2

OneOfOne == {[v \in Variant |-> 1]}
OneOfEach == {[v \in Variant |-> IF v = x THEN 1 ELSE 0] : x \in Variant}

ByHand == OrderStatus \ {"PAID", "PAYMENT_FAILED", "SHIPPED", "DELIVERED"}
EarlyTargets == {"PAID", "CONFIRMED", "CANCELLED"}

OneDown == {-1}

\* Stocktakes are made, and end, before there is a second warehouse.
StocktakesFirst == (\E k \in Clerk : adjusting[k] # NoAdjustment) => created = 1

OrderSymmetry == Permutations(Call) \cup Permutations(Order)
=============================================================================
