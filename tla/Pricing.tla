------------------------------ MODULE Pricing -------------------------------
(* src/modules/pricing/pricing.service.ts: the prices of the variants, list   *)
(* by list, in cents, and the list each customer buys from.                   *)
EXTENDS Quantities, Cents

CONSTANTS Customer,
          PriceList,
          Retail,        \* the list of a customer without one of their own
          Amounts,       \* the amounts staff may set
          InitialPrice,  \* the prices set before we look
          PerUnit        \* quantities count in parts of a unit: 1000, by Decimal(12,3)

ASSUME PricingAssumption ==
  /\ Retail \in PriceList
  /\ Amounts \subseteq Nat \ {0}
  /\ PerUnit \in Nat \ {0}
  /\ InitialPrice \in [Variant \X PriceList -> Nat]

VARIABLES price,         \* <<variant, list>> to its amount; 0 is no price
          listOf         \* per customer: the list resolvePriceListForUser finds

pricingVars == <<price, listOf>>

PricingTypeOK ==
  /\ price \in [Variant \X PriceList -> Nat]
  /\ listOf \in [Customer -> PriceList]

PricingInit ==
  /\ price = InitialPrice
  /\ listOf = [u \in Customer |-> Retail]

\* setPrice and bulkUpdate: the upserts of one request, in one transaction.
SetPrices(amount) ==
  /\ price' = [x \in DOMAIN price |-> IF x \in DOMAIN amount THEN amount[x] ELSE price[x]]
  /\ UNCHANGED listOf

\* assignCustomerPriceList; clearing the assignment is assigning Retail.
AssignPriceList(u, l) ==
  /\ listOf' = [listOf EXCEPT ![u] = l]
  /\ UNCHANGED price

PricingNext ==
  \/ \E S \in SUBSET DOMAIN price \ {{}} : \E amount \in [S -> Amounts] : SetPrices(amount)
  \/ \E u \in Customer, l \in PriceList : AssignPriceList(u, l)

\* Every item of q has a price in list l, prices being p; and what they cost, in parts of
\* a cent.
Priced(q, p, l) == \A v \in Variant : q[v] > 0 => p[<<v, l>>] > 0
Cost(q, p, l) == [v \in Variant |-> q[v] * p[<<v, l>>]]

\* What the total of a cart may be: it is rounded once, over all its items.
Totals(q, p, l) == Nearest(SumOf(Cost(q, p, l), Variant), PerUnit)
=============================================================================
