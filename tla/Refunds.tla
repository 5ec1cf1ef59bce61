------------------------------ MODULE Refunds -------------------------------
(* Refunds of a payment: PaymentsService.refund, cut at its four database      *)
(* accesses.  A refund row is always SUCCEEDED, so a payment's refunds are     *)
(* their sum.  Amounts are in cents.                                           *)
EXTENDS Integers, FiniteSets

CONSTANTS Payment,       \* the payments that may come to exist
          Amounts,       \* order totals: what a payment may be for
          RefundSizes,   \* the amounts staff ask to refund
          Refunder       \* slots for refund calls in progress

\* A total is never negative (a coupon may bring it to 0); dto.amount IsPositive.
ASSUME RefundsAssumption ==
  /\ Amounts \subseteq Nat
  /\ RefundSizes \subseteq Nat \ {0}
  /\ IsFiniteSet(Refunder)

VARIABLES payments,      \* the row of each payment, or NoPayment
          refunded,      \* the sum of each payment's refund rows
          refunding      \* per slot: how far the call is and what it has read

vars == <<payments, refunded, refunding>>

NoPayment == [status |-> "PENDING", amount |-> 0]

Idle == [at |-> "idle"]

\* A call past its first read, its second, or its refund row.
Refunding ==
  [at : {"sum"}, payment : Payment, amount : RefundSizes]
    \cup [at : {"create", "mark"}, payment : Payment, amount : RefundSizes,
          refundedSoFar : Nat]

RefundsTypeOK ==
  /\ payments \in [Payment -> [status : {"PENDING", "SUCCEEDED", "FAILED", "REFUNDED"},
                               amount : Amounts \cup {0}]]
  /\ refunded \in [Payment -> Nat]
  /\ refunding \in [Refunder -> Refunding \cup {Idle}]

RefundsInit ==
  /\ payments = [p \in Payment |-> NoPayment]
  /\ refunded = [p \in Payment |-> 0]
  /\ refunding = [k \in Refunder |-> Idle]

At(k, stage) == refunding[k].at = stage

EndRefund(k) == refunding' = [refunding EXCEPT ![k] = Idle]

\* pay(): the payment's row, for the whole order total.
CreatePayment(p, amount, succeeded) ==
  /\ payments[p] = NoPayment
  /\ payments' = [payments EXCEPT ![p] =
       [status |-> IF succeeded THEN "SUCCEEDED" ELSE "FAILED", amount |-> amount]]
  /\ UNCHANGED <<refunded, refunding>>

\* refund() reads the payment; only a succeeded one can be refunded.
RefundFind(k, p, amount) ==
  /\ At(k, "idle")
  /\ payments[p].status = "SUCCEEDED"
  /\ refunding' = [refunding EXCEPT ![k] =
       [at |-> "sum", payment |-> p, amount |-> amount]]
  /\ UNCHANGED <<payments, refunded>>

\* refund() sums the refunds so far and refuses (400) to exceed the payment.
SumOf_Nothing(p) == 0
SumOf(p) == refunded[p]

RefundSum(k) ==
  LET call == refunding[k]
      p == call.payment
  IN  /\ At(k, "sum")
      /\ IF SumOf(p) + call.amount > payments[p].amount
         THEN EndRefund(k)
         ELSE refunding' = [refunding EXCEPT ![k] =
                [at |-> "create", payment |-> p, amount |-> call.amount,
                 refundedSoFar |-> SumOf(p)]]
      /\ UNCHANGED <<payments, refunded>>

\* The refund's row; the call goes on with the sum it read before.
RefundCreate(k) ==
  /\ At(k, "create")
  /\ refunded' = [refunded EXCEPT ![refunding[k].payment] = @ + refunding[k].amount]
  /\ refunding' = [refunding EXCEPT ![k].at = "mark"]
  /\ UNCHANGED payments

\* The payment is marked when the sum read and this refund cover it.
Covers_Always(call) == TRUE
Covers(call) == call.refundedSoFar + call.amount >= payments[call.payment].amount

RefundMark(k) ==
  /\ At(k, "mark")
  /\ payments' = IF Covers(refunding[k])
                 THEN [payments EXCEPT ![refunding[k].payment].status = "REFUNDED"]
                 ELSE payments
  /\ EndRefund(k)
  /\ UNCHANGED refunded

\* A database error or the end of the process drops a call between two accesses.
RefundFail(k) ==
  /\ ~At(k, "idle")
  /\ EndRefund(k)
  /\ UNCHANGED <<payments, refunded>>

Next ==
  \/ \E p \in Payment, amount \in Amounts, succeeded \in BOOLEAN :
       CreatePayment(p, amount, succeeded)
  \/ \E k \in Refunder :
       \/ \E p \in Payment, amount \in RefundSizes : RefundFind(k, p, amount)
       \/ RefundSum(k)
       \/ RefundCreate(k)
       \/ RefundMark(k)
       \/ RefundFail(k)

Spec == RefundsInit /\ [][Next]_vars

\* What is paid back is bounded: calls that overlap may each be measured against
\* the whole payment (payments.service.ts:90-99), but never against more, whatever
\* calls came before.  With one call at a time this is the promise of
\* "refund amount exceeds the remaining refundable balance".
RefundsBounded ==
  \A p \in Payment : refunded[p] <= Cardinality(Refunder) * payments[p].amount

\* A payment that is marked REFUNDED has been paid back in full, although the mark
\* is decided on a sum that may be out of date and written in a step of its own
\* (payments.service.ts:110-115).
RefundedMeansAll ==
  \A p \in Payment :
    payments[p].status = "REFUNDED" => refunded[p] >= payments[p].amount
=============================================================================
