------------------------------- MODULE Orders -------------------------------
(* The orders of src/modules/orders and everything that moves one through its *)
(* life: checkout, PATCH of the status, payments, shipments, and the worker   *)
(* that cancels an order whose payment is late.  A call is cut into its        *)
(* database accesses; the accesses of different calls interleave.  A           *)
(* transaction is one step: under READ COMMITTED the locks it takes make its   *)
(* writes appear at its commit, while what it computed from reads made before  *)
(* it is kept in the call's record and may be stale.                           *)
EXTENDS Inventory, OrderStatusRules, Sequences

CONSTANTS Order,         \* ids of the orders that may ever be created
          Call,          \* slots for API calls in progress
          Worker,        \* the worker process; it runs one job at a time
          None,          \* no order
          Carts,         \* the quantities a cart may hold when it is ordered
          PatchTargets,  \* the statuses clients ask PATCH for
          Faults,        \* whether calls and processes may fail half-way
          MaxHistory,    \* bound: no call starts on an order with that history
          MaxPayments,   \* bound on the payments of an order, likewise
          MaxShipments   \* bound on the shipments of an order, likewise

ASSUME OrdersAssumption ==
  /\ None \notin Order
  /\ Worker \notin Call
  /\ Carts \subseteq [Variant -> Nat]
  /\ PatchTargets \subseteq OrderStatus
  /\ Faults \in BOOLEAN
  /\ MaxHistory \in Nat
  /\ MaxPayments \in Nat
  /\ MaxShipments \in Nat

Process == Call \cup {Worker}

Status == OrderStatus \cup {"none"}   \* none: no such order, or SQL NULL
PaymentStatus == {"SUCCEEDED", "FAILED"}
ShipmentStatus == {"SHIPPED", "DELIVERED"}
JobState == {"none", "delayed", "active", "gone"}

VARIABLES status,     \* per order: its status
          items,      \* per order: the quantities ordered, by variant
          history,    \* per order: its order_status_history rows, oldest first
          held,       \* per order: RESERVE - RELEASE - DEDUCT movements, in
                      \*   multiples of its items
          taken,      \* per order: DEDUCT - RETURN movements, likewise
          payments,   \* per order: how many payments were created in a status
          shipments,  \* per order: the statuses of its shipments
          job,        \* per order: its stock-release job in the queue
          call        \* per process: the call it is executing

orderVars == <<status, items, history, held, taken>>
vars == <<orderVars, payments, shipments, job, call, inventoryVars, warehouseVars>>

Stage == {"idle",
          "reserve", "enqueue",                       \* createFromCart
          "pay", "ship", "deliver",                   \* what precedes updateStatus
          "read", "default", "commit", "dequeue"}     \* updateStatus

Idle == [pc |-> "idle", order |-> None, from |-> "none", to |-> "none",
         wh |-> 0, items |-> NoItems, shipment |-> 0]

CallRecord ==
  [pc : Stage, order : Order \cup {None}, from : Status, to : Status,
   wh : 0..MaxWarehouses, items : [Variant -> Nat], shipment : Nat]

HistoryRow == [from : Status, to : Status]

TypeOK ==
  /\ WarehousesTypeOK
  /\ InventoryTypeOK
  /\ status \in [Order -> Status]
  /\ items \in [Order -> [Variant -> Nat]]
  /\ history \in [Order -> Seq(HistoryRow)]
  /\ held \in [Order -> Int]
  /\ taken \in [Order -> Int]
  /\ payments \in [Order -> [PaymentStatus -> Nat]]
  /\ shipments \in [Order -> Seq(ShipmentStatus)]
  /\ job \in [Order -> JobState]
  /\ call \in [Process -> CallRecord]

Init ==
  /\ WarehousesInit
  /\ InventoryInit
  /\ status = [o \in Order |-> "none"]
  /\ items = [o \in Order |-> NoItems]
  /\ history = [o \in Order |-> <<>>]
  /\ held = [o \in Order |-> 0]
  /\ taken = [o \in Order |-> 0]
  /\ payments = [o \in Order |-> [p \in PaymentStatus |-> 0]]
  /\ shipments = [o \in Order |-> <<>>]
  /\ job = [o \in Order |-> "none"]
  /\ call = [c \in Process |-> Idle]

----------------------------------------------------------------------------
\* Placed orders, and the calls that may still start on one (bounds only).
Placed(o) == status[o] # "none"
MayStart(o) == Placed(o) /\ Len(history[o]) < MaxHistory

Row(from, to) == [from |-> from, to |-> to]

\* Process c ends its call.  A job that ends, well or not, is not run again: no
\* attempts are configured, so a job that throws is failed for good.
Finish(c) ==
  /\ call' = [call EXCEPT ![c] = Idle]
  /\ job' = IF c = Worker THEN [job EXCEPT ![call[c].order] = "gone"] ELSE job

----------------------------------------------------------------------------
\* createFromCart.  The cart and the default warehouse are read ...
PlaceRead(c, o, q, w) ==
  /\ call[c].pc = "idle"
  /\ ~Placed(o) /\ \A d \in Process : call[d].order # o    \* o is a fresh id
  /\ IsDefault(w)
  /\ call' = [call EXCEPT ![c] = [Idle EXCEPT !.pc = "reserve", !.order = o,
                                              !.items = q, !.wh = w]]
  /\ UNCHANGED <<orderVars, payments, shipments, job, stockVars>>

\* ... one transaction creates the order and reserves every item or fails ...
PlaceCommit(c) ==
  LET o == call[c].order
      q == call[c].items
  IN  /\ call[c].pc = "reserve"
      /\ ~Placed(o)
      /\ Reserve(q, call[c].wh)
      /\ status' = [status EXCEPT ![o] = "PENDING_PAYMENT"]
      /\ items' = [items EXCEPT ![o] = q]
      /\ history' = [history EXCEPT ![o] = <<Row("none", "PENDING_PAYMENT")>>]
      /\ held' = [held EXCEPT ![o] = @ + 1]
      /\ call' = [call EXCEPT ![c] = [Idle EXCEPT !.pc = "enqueue", !.order = o]]
      /\ UNCHANGED <<taken, payments, shipments, job>>

\* ... and only after its commit is the delayed job added to the queue.
PlaceEnqueue(c) ==
  /\ call[c].pc = "enqueue"
  /\ job' = [job EXCEPT ![call[c].order] = "delayed"]
  /\ call' = [call EXCEPT ![c] = Idle]
  /\ UNCHANGED <<orderVars, payments, shipments, stockVars>>

----------------------------------------------------------------------------
\* updateStatus.  Its first read, with the check of the transition: o's status
\* as it is now will be the call's `from`.
CheckTransition_Unchecked(o, to) == Placed(o)
CheckTransition(o, to) == canTransition(status[o], to)

Checked(o, to) ==
  [Idle EXCEPT !.pc = "default", !.order = o, !.from = status[o], !.to = to]

\* PATCH /orders/:id/status: staff may ask for any status, a customer for
\* CANCELLED; both are in PatchTargets.
PatchRead(c, o, to) ==
  /\ call[c].pc = "idle"
  /\ MayStart(o)
  /\ CheckTransition(o, to)
  /\ call' = [call EXCEPT ![c] = Checked(o, to)]
  /\ UNCHANGED <<orderVars, payments, shipments, job, stockVars>>

\* The same read, made for payments, shipments and the worker.
UpdateRead(c) ==
  LET o  == call[c].order
      to == call[c].to
  IN  /\ call[c].pc = "read"
      /\ CheckTransition(o, to)
      /\ call' = [call EXCEPT ![c] = Checked(o, to)]
      /\ UNCHANGED <<orderVars, payments, shipments, job, stockVars>>

\* findDefault, before the transaction: not the warehouse the order was placed in
\* but the one that is the default by now.
UpdateDefault_RemovesJobFirst(c, w) ==
  /\ call[c].pc = "default"
  /\ IsDefault(w)
  /\ call' = [call EXCEPT ![c] = [@ EXCEPT !.pc = "commit", !.wh = w]]
  /\ job' = [job EXCEPT ![call[c].order] = "gone"]
  /\ UNCHANGED <<orderVars, payments, shipments, stockVars>>
UpdateDefault(c, w) ==
  /\ call[c].pc = "default"
  /\ IsDefault(w)
  /\ call' = [call EXCEPT ![c] = [@ EXCEPT !.pc = "commit", !.wh = w]]
  /\ UNCHANGED <<orderVars, payments, shipments, job, stockVars>>

MoveStock(move, q, w) ==
  \/ move = "RELEASE" /\ Release(q, w)
  \/ move = "DEDUCT" /\ Deduct(q, w)
  \/ move = "RETURN" /\ ReturnStock(q, w)
  \/ move = "KEEP" /\ UNCHANGED stockVars

\* The transaction: the stock moves by the phases of from and to, and the status
\* is overwritten whatever it has become since it was read.
UpdateCommit(c) ==
  LET o    == call[c].order
      from == call[c].from
      to   == call[c].to
      move == StockMove(from, to)
  IN  /\ call[c].pc = "commit"
      /\ MoveStock(move, items[o], call[c].wh)
      /\ status' = [status EXCEPT ![o] = to]
      /\ history' = [history EXCEPT ![o] = Append(@, Row(from, to))]
      /\ held' = [held EXCEPT ![o] = @ + HeldChange(move)]
      /\ taken' = [taken EXCEPT ![o] = @ + TakenChange(move)]
      /\ IF from = "PENDING_PAYMENT"
         THEN /\ call' = [call EXCEPT ![c] = [Idle EXCEPT !.pc = "dequeue", !.order = o]]
              /\ job' = job
         ELSE Finish(c)
      /\ UNCHANGED <<items, payments, shipments>>

\* queue.remove: it takes out a job that still waits; the failure to remove one
\* that is running, the worker's own included, is swallowed.
UpdateDequeue(c) ==
  LET o == call[c].order
  IN  /\ call[c].pc = "dequeue"
      /\ job' = IF job[o] = "delayed" \/ c = Worker
                THEN [job EXCEPT ![o] = "gone"] ELSE job
      /\ call' = [call EXCEPT ![c] = Idle]
      /\ UNCHANGED <<orderVars, payments, shipments, stockVars>>

----------------------------------------------------------------------------
\* payments.service.ts pay(): the order's status is read ...
MayPay(o) == status[o] \in {"PENDING_PAYMENT", "PAYMENT_FAILED"}

PayRead(c, o, succeeded) ==
  /\ call[c].pc = "idle"
  /\ MayStart(o)
  /\ payments[o]["SUCCEEDED"] + payments[o]["FAILED"] < MaxPayments
  /\ MayPay(o)
  /\ call' = [call EXCEPT ![c] =
                [Idle EXCEPT !.pc = "pay", !.order = o,
                             !.to = IF succeeded THEN "PAID" ELSE "PAYMENT_FAILED"]]
  /\ UNCHANGED <<orderVars, payments, shipments, job, stockVars>>

\* ... the payment is created, and then updateStatus starts from its own read.
Outcome_Inverted(to) == IF to = "PAID" THEN "FAILED" ELSE "SUCCEEDED"
Outcome(to) == IF to = "PAID" THEN "SUCCEEDED" ELSE "FAILED"

PayCreate(c) ==
  /\ call[c].pc = "pay"
  /\ payments' = [payments EXCEPT ![call[c].order][Outcome(call[c].to)] = @ + 1]
  /\ call' = [call EXCEPT ![c] = [@ EXCEPT !.pc = "read"]]
  /\ UNCHANGED <<orderVars, shipments, job, stockVars>>

----------------------------------------------------------------------------
\* shipments.service.ts ship(): the status is read, a shipment created, and the
\* order moved to SHIPPED.
ShipRead_NoShipment(c, o) ==
  /\ call[c].pc = "idle"
  /\ MayStart(o)
  /\ status[o] = "READY_TO_SHIP"
  /\ call' = [call EXCEPT ![c] = [Idle EXCEPT !.pc = "read", !.order = o,
                                              !.to = "SHIPPED"]]
  /\ UNCHANGED <<orderVars, payments, shipments, job, stockVars>>
ShipRead(c, o) ==
  /\ call[c].pc = "idle"
  /\ MayStart(o)
  /\ Len(shipments[o]) < MaxShipments
  /\ status[o] = "READY_TO_SHIP"
  /\ call' = [call EXCEPT ![c] = [Idle EXCEPT !.pc = "ship", !.order = o,
                                              !.to = "SHIPPED"]]
  /\ UNCHANGED <<orderVars, payments, shipments, job, stockVars>>

ShipCreate_Pending(c) ==
  /\ call[c].pc = "ship"
  /\ shipments' = [shipments EXCEPT ![call[c].order] = Append(@, "PENDING")]
  /\ call' = [call EXCEPT ![c] = [@ EXCEPT !.pc = "read"]]
  /\ UNCHANGED <<orderVars, payments, job, stockVars>>
ShipCreate(c) ==
  /\ call[c].pc = "ship"
  /\ shipments' = [shipments EXCEPT ![call[c].order] = Append(@, "SHIPPED")]
  /\ call' = [call EXCEPT ![c] = [@ EXCEPT !.pc = "read"]]
  /\ UNCHANGED <<orderVars, payments, job, stockVars>>

\* markDelivered(): likewise from a shipment that is SHIPPED.
DeliverRead(c, o, i) ==
  /\ call[c].pc = "idle"
  /\ MayStart(o)
  /\ shipments[o][i] = "SHIPPED"
  /\ call' = [call EXCEPT ![c] = [Idle EXCEPT !.pc = "deliver", !.order = o,
                                              !.to = "DELIVERED", !.shipment = i]]
  /\ UNCHANGED <<orderVars, payments, shipments, job, stockVars>>

DeliverWrite(c) ==
  /\ call[c].pc = "deliver"
  /\ shipments' = [shipments EXCEPT ![call[c].order] =
                     [@ EXCEPT ![call[c].shipment] = "DELIVERED"]]
  /\ call' = [call EXCEPT ![c] = [@ EXCEPT !.pc = "read", !.shipment = 0]]
  /\ UNCHANGED <<orderVars, payments, job, stockVars>>

----------------------------------------------------------------------------
\* The worker takes a job whose delay is over (time is not modelled: it may be
\* over at any moment).  process() reads the order; unless it is still pending
\* the job ends, else updateStatus is called to cancel it.
StillPending_TestsDeclined(o) == status[o] = "PAYMENT_FAILED"
StillPending(o) == status[o] = "PENDING_PAYMENT"

JobStart(o) ==
  /\ call[Worker].pc = "idle"
  /\ job[o] = "delayed"
  /\ IF StillPending(o)
     THEN /\ job' = [job EXCEPT ![o] = "active"]
          /\ call' = [call EXCEPT ![Worker] =
                        [Idle EXCEPT !.pc = "read", !.order = o, !.to = "CANCELLED"]]
     ELSE /\ job' = [job EXCEPT ![o] = "gone"]
          /\ call' = call
  /\ UNCHANGED <<orderVars, payments, shipments, stockVars>>

----------------------------------------------------------------------------
\* The errors the code throws between its steps: insufficient stock or another
\* condition of the checkout (its key, its coupon and its prices are in module
\* Checkout), a transition that is not allowed (409), no active warehouse (404), and
\* a release or a deduction from a warehouse where the variant has no row.
Rejected(c) ==
  LET k == call[c]
  IN  \/ k.pc = "reserve"
      \/ k.pc = "read" /\ ~CheckTransition(k.order, k.to)
      \/ k.pc = "default" /\ active = {}
      \/ /\ k.pc = "commit"
         /\ StockMove(k.from, k.to) \in {"RELEASE", "DEDUCT"}
         /\ ~(RowsOf(items[k.order], k.wh) \subseteq rows)

Throw(c) ==
  /\ Rejected(c)
  /\ Finish(c)
  /\ UNCHANGED <<orderVars, payments, shipments, stockVars>>

\* A lost connection, a deadlocked or timed-out transaction, the end of the
\* process: the call goes no further and its open transaction is rolled back.
Fail(c) ==
  /\ Faults
  /\ call[c].pc # "idle"
  /\ Finish(c)
  /\ UNCHANGED <<orderVars, payments, shipments, stockVars>>

\* The worker dies; BullMQ finds the job stalled and puts it back to be run again
\* (BullMQ's own limit on the number of times is not modelled).
WorkerCrash ==
  /\ Faults
  /\ call[Worker].pc # "idle"
  /\ job' = [job EXCEPT ![call[Worker].order] = "delayed"]
  /\ call' = [call EXCEPT ![Worker] = Idle]
  /\ UNCHANGED <<orderVars, payments, shipments, stockVars>>

----------------------------------------------------------------------------
\* The requests that reach the API.
Request(c) ==
  \/ \E o \in Order, q \in Carts, w \in Warehouse : PlaceRead(c, o, q, w)
  \/ \E o \in Order, to \in PatchTargets : PatchRead(c, o, to)
  \/ \E o \in Order, succeeded \in BOOLEAN : PayRead(c, o, succeeded)
  \/ \E o \in Order : ShipRead(c, o)
  \/ \E o \in Order : \E i \in 1..Len(shipments[o]) : DeliverRead(c, o, i)

\* What a process does to get on with the call it is executing.
Progress(c) ==
  \/ PlaceCommit(c)
  \/ PlaceEnqueue(c)
  \/ PayCreate(c)
  \/ ShipCreate(c)
  \/ DeliverWrite(c)
  \/ UpdateRead(c)
  \/ \E w \in Warehouse : UpdateDefault(c, w)
  \/ UpdateCommit(c)
  \/ UpdateDequeue(c)
  \/ Throw(c)

OrdersStep ==
  \/ \E c \in Call : Request(c)
  \/ \E o \in Order : JobStart(o)
  \/ \E c \in Process : Progress(c) \/ Fail(c)
  \/ WorkerCrash

Next ==
  \/ OrdersStep /\ UNCHANGED <<adjusting, warehouseVars>>
  \/ /\ StockroomNext
     /\ UNCHANGED <<orderVars, payments, shipments, job, call, warehouseVars>>
  \/ /\ WarehousesNext
     /\ UNCHANGED <<orderVars, payments, shipments, job, call, inventoryVars>>

Spec == Init /\ [][Next]_vars

\* Node runs every call it has started, and BullMQ every job that is due, as long
\* as the processes live; that is assumed of runs without faults only.
Fairness ==
  /\ \A c \in Process : WF_vars(Progress(c) /\ UNCHANGED <<adjusting, warehouseVars>>)
  /\ \A o \in Order : WF_vars(JobStart(o) /\ UNCHANGED <<adjusting, warehouseVars>>)

FairSpec == Spec /\ Fairness
=============================================================================
