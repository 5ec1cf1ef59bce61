----------------------------- MODULE MCCheckout -----------------------------
(* An instance of Checkout for TLC: half units whose prices do not come out    *)
(* even, a percentage coupon that rounds and a fixed one worth more than a cart. *)
EXTENDS Checkout, TLC

CONSTANTS v1, v2, v3, retail, wholesale, u1, u2

Baskets == CartQuantities \ {NoItems}

RetailOnly ==
  [x \in Variant \X PriceList |-> IF x[2] = retail THEN 3 ELSE 0]

Terms ==
  {[kind |-> "PERCENTAGE", value |-> 50, minTotal |-> 0],
   [kind |-> "FIXED_AMOUNT", value |-> 5, minTotal |-> 3]}

CheckoutSymmetry == Permutations(Call) \cup Permutations(Order)
LinesSymmetry == Permutations(Divisible)
=============================================================================
