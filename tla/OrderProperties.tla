--------------------------- MODULE OrderProperties --------------------------
(* What the orders, the stock and the payments must satisfy, in the states    *)
(* and along the runs of Orders.                                              *)
EXTENDS Orders

\* The abstract order log: what the history table promises of every order.
Log == INSTANCE OrderLog WITH Order <- Order, status <- status, history <- history

\* Every step of the system appends allowed rows to the history and leaves the
\* status equal to the last row, from whichever process it comes: the service
\* (orders.service.ts:386-403) implements the abstract log.
HistoryIsALog == Log!LogSpec

----------------------------------------------------------------------------
\* Each row of o's history leaves the status the row before it reached.
Unbroken(o) ==
  \A i \in 2..Len(history[o]) : history[o][i].from = history[o][i - 1].to

\* No row of o's history comes back into a phase that holds stock.
NeverReopened(o) ==
  \A i \in 2..Len(history[o]) : ~Reopens(history[o][i].from, history[o][i].to)

Clean(o) == Unbroken(o) /\ NeverReopened(o)

\* The phases of order-status.rules.ts are what the stock shows: an order whose
\* history is one unbroken chain that never reopens has its items reserved once
\* in the RESERVED phase, taken once in the DEDUCTED phase and neither otherwise,
\* whatever other calls on it failed, were rejected or were overtaken.
PhaseMatchesStock ==
  \A o \in Order : Placed(o) /\ Clean(o) =>
    /\ held[o] = HeldIn(stockPhaseFor(status[o]))
    /\ taken[o] = TakenIn(stockPhaseFor(status[o]))

\* The reserved balance is exactly what open orders account for: as long as every
\* order is clean, the reservations of a variant, over all the warehouses, are
\* the quantities of the orders in the RESERVED phase.  (Over all of them: an
\* order is released in the default warehouse of the day, wherever it reserved.)
ReservedMatchesOpenOrders ==
  (\A o \in Order : Clean(o)) =>
    \A v \in Variant :
      SumOf([w \in Warehouse |-> reserved[<<v, w>>]], Warehouse)
        = SumOf([o \in Order |-> items[o][v]],
                {o \in Order : Placed(o) /\ stockPhaseFor(status[o]) = "RESERVED"})

----------------------------------------------------------------------------
\* The statuses an order can only reach through PAID, SHIPPED and DELIVERED.
PaidLine == {"PAID", "CONFIRMED", "PROCESSING", "READY_TO_SHIP", "SHIPPED",
             "DELIVERED", "RETURN_REQUESTED", "RETURNED", "REFUNDED"}
ShippedLine == {"SHIPPED", "DELIVERED", "RETURN_REQUESTED", "RETURNED", "REFUNDED"}

\* Unless staff write PAID by hand, no interleaving of payments, cancellations and
\* timeouts puts an order in PAID or beyond without a succeeded payment
\* (payments.service.ts creates the payment before it asks for the transition).
BackedByPayment ==
  "PAID" \notin PatchTargets =>
    \A o \in Order : status[o] \in PaidLine => payments[o]["SUCCEEDED"] > 0

\* Unless staff write SHIPPED or DELIVERED by hand, an order that is or was
\* shipped has a shipment, and a delivered order a delivered one
\* (shipments.service.ts writes the shipment before it asks for the transition).
BackedByShipment ==
  {"SHIPPED", "DELIVERED"} \cap PatchTargets = {} =>
    \A o \in Order :
      /\ status[o] \in ShippedLine => shipments[o] # <<>>
      /\ status[o] = "DELIVERED" => \E i \in 1..Len(shipments[o]) :
                                      shipments[o][i] = "DELIVERED"

----------------------------------------------------------------------------
\* In runs without faults and with one warehouse, a pending order that was not
\* reopened always has its timeout coming: its job waits or runs, or the call
\* that created the order is about to add it.  Neither the removal of jobs by
\* updateStatus nor a job that skips or is rejected ever loses it.
PendingHasTimeout ==
  ~Faults /\ MaxWarehouses = 1 =>
    \A o \in Order : status[o] = "PENDING_PAYMENT" /\ NeverReopened(o) =>
      \/ job[o] \in {"delayed", "active"}
      \/ \E c \in Call : call[c].pc = "enqueue" /\ call[c].order = o

\* In the same runs every pending order leaves PENDING_PAYMENT, by the job or before
\* it, unless a declined payment is retried: the retry finds its job gone.
TimeoutReached ==
  \A o \in Order :
    status[o] = "PENDING_PAYMENT"
      ~> status[o] # "PENDING_PAYMENT" \/ ~NeverReopened(o)

----------------------------------------------------------------------------
(* What the documents of the repository say and the code does not keep.       *)

\* "... otherwise the job ignores itself safely (no effect on a paid order)"
\* (PLAN.md:129): the job never cancels an order that is paid.  Its test and updateStatus
\* read the status separately, and PAID may be cancelled.
JobSparesPaid ==
  [][\A o \in Order :
       (/\ call[Worker].pc = "commit" /\ call[Worker].order = o
        /\ history'[o] # history[o] /\ call'[Worker] # call[Worker])
         => status[o] \notin PaidLine]_vars

\* "On success: creates a SUCCEEDED payment and moves the order to PAID"
\* (API_CONTRACT.md:513): with no payment of it under way, a declined order has no
\* succeeded payment that never paid it.  pay() accepts a PAYMENT_FAILED order,
\* which the table does not let go to PAID.
SucceededPaymentPays ==
  \A o \in Order :
    (status[o] = "PAYMENT_FAILED" /\ \A c \in Process : call[c].order # o)
      => \/ payments[o]["SUCCEEDED"] = 0
         \/ \E i \in 1..Len(history[o]) : history[o][i].to = "PAID"
=============================================================================
