-------------------------- MODULE OrderStatusRules --------------------------
(* The order life cycle as src/modules/orders/order-status.rules.ts states   *)
(* it: which status may follow which, and where each status stands with      *)
(* respect to the stock.                                                     *)

EXTENDS Integers

OrderStatus ==
  {"DRAFT", "PENDING_PAYMENT", "PAID", "PAYMENT_FAILED", "CONFIRMED",
   "PROCESSING", "READY_TO_SHIP", "SHIPPED", "DELIVERED", "RETURN_REQUESTED",
   "RETURNED", "CANCELLED", "REFUNDED"}

\* The table as a relation on statuses; CANCELLED and REFUNDED have no successor.
ALLOWED_TRANSITIONS ==
  ({"DRAFT"} \X {"PENDING_PAYMENT", "CANCELLED"})
    \cup ({"PENDING_PAYMENT"} \X {"PAID", "PAYMENT_FAILED", "CANCELLED"})
    \cup ({"PAYMENT_FAILED"} \X {"PENDING_PAYMENT", "CANCELLED"})
    \cup ({"PAID"} \X {"CONFIRMED", "CANCELLED"})
    \cup ({"CONFIRMED"} \X {"PROCESSING", "CANCELLED"})
    \cup ({"PROCESSING"} \X {"READY_TO_SHIP", "CANCELLED"})
    \cup ({"READY_TO_SHIP"} \X {"SHIPPED"})
    \cup ({"SHIPPED"} \X {"DELIVERED", "RETURN_REQUESTED"})
    \cup ({"DELIVERED"} \X {"RETURN_REQUESTED"})
    \cup ({"RETURN_REQUESTED"} \X {"RETURNED"})
    \cup ({"RETURNED"} \X {"REFUNDED"})

canTransition(from, to) == <<from, to>> \in ALLOWED_TRANSITIONS

StockPhase == {"RESERVED", "DEDUCTED", "NONE"}

stockPhaseFor(s) ==
  IF s \in {"DRAFT", "PENDING_PAYMENT", "PAID"} THEN "RESERVED"
  ELSE IF s \in {"CONFIRMED", "PROCESSING", "READY_TO_SHIP", "SHIPPED",
                 "DELIVERED"} THEN "DEDUCTED"
  ELSE "NONE"

\* The branches of updateStatus: what a transition does to the order's stock.
\* Any pair of phases it does not name (NONE to RESERVED is one) moves nothing.
StockMove_ForgetsReturn(from, to) ==
  LET fromPhase == stockPhaseFor(from)
  IN  IF fromPhase = "RESERVED" /\ stockPhaseFor(to) = "NONE" THEN "RELEASE"
      ELSE IF fromPhase = "RESERVED" /\ stockPhaseFor(to) = "DEDUCTED" THEN "DEDUCT"
      ELSE "KEEP"
StockMove_ForgetsDeduct(from, to) ==
  IF stockPhaseFor(to) # "NONE" THEN "KEEP"
  ELSE IF stockPhaseFor(from) = "RESERVED" THEN "RELEASE"
  ELSE IF stockPhaseFor(from) = "DEDUCTED" THEN "RETURN"
  ELSE "KEEP"
StockMove(from, to) ==
  LET fromPhase == stockPhaseFor(from)
      toPhase   == stockPhaseFor(to)
  IN  IF fromPhase = "RESERVED" /\ toPhase = "NONE" THEN "RELEASE"
      ELSE IF fromPhase = "RESERVED" /\ toPhase = "DEDUCTED" THEN "DEDUCT"
      ELSE IF fromPhase = "DEDUCTED" /\ toPhase = "NONE" THEN "RETURN"
      ELSE "KEEP"

\* The one allowed transition that enters a stock-holding phase from outside:
\* the retry of a declined payment.
Reopens(from, to) ==
  stockPhaseFor(from) = "NONE" /\ stockPhaseFor(to) # "NONE"

\* What an order in a phase should hold: how many times its items are reserved,
\* and how many times they are taken out of the stock on hand.
HeldIn(phase)  == IF phase = "RESERVED" THEN 1 ELSE 0
TakenIn(phase) == IF phase = "DEDUCTED" THEN 1 ELSE 0

\* What each kind of movement adds to those two numbers.
HeldChange(move) ==
  IF move \in {"RELEASE", "DEDUCT"} THEN -1 ELSE 0
TakenChange(move) ==
  IF move = "DEDUCT" THEN 1 ELSE IF move = "RETURN" THEN -1 ELSE 0
=============================================================================
