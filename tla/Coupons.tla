------------------------------ MODULE Coupons -------------------------------
(* src/modules/promotions/coupons.service.ts.  Amounts are in cents, a        *)
(* percentage is a whole number.  The validity dates are folded into active:  *)
(* whether a coupon may be used now changes at any moment either way.         *)
EXTENDS Cents

CONSTANTS Coupon,
          CouponTerms,   \* what coupons may be created as
          CouponLimits   \* the maxUses staff may set

Unlimited == 0           \* maxUses is null

CouponTerm == [kind : {"PERCENTAGE", "FIXED_AMOUNT"}, value : Nat \ {0}, minTotal : Nat]

ASSUME CouponsAssumption ==
  /\ CouponTerms \subseteq CouponTerm
  /\ CouponLimits \subseteq Nat \ {0}

VARIABLE coupons         \* the row of each coupon, or NoCoupon

CouponRow ==
  [exists : BOOLEAN, kind : {"PERCENTAGE", "FIXED_AMOUNT"}, value : Nat \ {0},
   minTotal : Nat, maxUses : Nat, usedCount : Nat, active : BOOLEAN]

NoCoupon ==
  [exists |-> FALSE, kind |-> "FIXED_AMOUNT", value |-> 1, minTotal |-> 0,
   maxUses |-> Unlimited, usedCount |-> 0, active |-> FALSE]

CouponsTypeOK == coupons \in [Coupon -> CouponRow]

CouponsInit == coupons = [k \in Coupon |-> NoCoupon]

\* create(): a percentage above 100 is refused, and a code that exists (409).
CreateCoupon(k, terms, maxUses, active) ==
  /\ ~coupons[k].exists
  /\ terms.kind = "PERCENTAGE" => terms.value <= 100
  /\ coupons' = [coupons EXCEPT ![k] =
       [exists |-> TRUE, kind |-> terms.kind, value |-> terms.value,
        minTotal |-> terms.minTotal, maxUses |-> maxUses, usedCount |-> 0,
        active |-> active]]

\* update(): a limit that is not given stays; one that is may be below the uses
\* already made.
UpdateCoupon(k, maxUses, minTotal, active) ==
  /\ coupons[k].exists
  /\ coupons' = [coupons EXCEPT ![k].maxUses = IF maxUses = Unlimited THEN @ ELSE maxUses,
                                ![k].minTotal = minTotal, ![k].active = active]

UsesLeft(k) ==
  coupons[k].maxUses = Unlimited \/ coupons[k].usedCount < coupons[k].maxUses

\* validate(): what is checked before the transaction of createFromCart.
ValidCoupon(k, subtotal) ==
  /\ coupons[k].exists
  /\ coupons[k].active
  /\ UsesLeft(k)
  /\ subtotal >= coupons[k].minTotal

\* What the discount may be: a percentage is rounded to a cent.
Discounts_Uncapped(k, subtotal) ==
  IF coupons[k].kind = "PERCENTAGE" THEN Nearest(subtotal * coupons[k].value, 100)
  ELSE {coupons[k].value}
Discounts(k, subtotal) ==
  IF coupons[k].kind = "PERCENTAGE" THEN Nearest(subtotal * coupons[k].value, 100)
  ELSE {IF coupons[k].value <= subtotal THEN coupons[k].value ELSE subtotal}

\* redeem(): one guarded UPDATE, inside the transaction of createFromCart.
Redeem_Unguarded(k) ==
  coupons' = [coupons EXCEPT ![k].usedCount = @ + 1]
Redeem(k) ==
  /\ UsesLeft(k)
  /\ coupons' = [coupons EXCEPT ![k].usedCount = @ + 1]

CouponsNext ==
  \E k \in Coupon, maxUses \in CouponLimits \cup {Unlimited},
     terms \in CouponTerms, active \in BOOLEAN :
    \/ CreateCoupon(k, terms, maxUses, active)
    \/ UpdateCoupon(k, maxUses, terms.minTotal, active)
=============================================================================
