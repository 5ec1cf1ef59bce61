------------------------ MODULE OrderHistory_proofs -------------------------
(* Proofs about what the history of an order says of its status and of its    *)
(* stock, about the payments and shipments behind its status and about its     *)
(* timeout, for every value of the constants of Orders.                        *)
EXTENDS Orders_proofs

\* The last row of a placed order's history is its status, and an order that does
\* not exist yet holds nothing.
HistoryInv ==
  \A o \in Order :
    /\ Placed(o) => /\ Len(history[o]) > 0
                    /\ history[o][Len(history[o])].to = status[o]
    /\ ~Placed(o) => history[o] = <<>> /\ held[o] = 0 /\ taken[o] = 0

\* A call that has checked its transition found it allowed, and the status it
\* leaves from is one the order had then: some row of its history reached it.
PendingInv ==
  \A c \in Process : call[c].pc \in {"default", "commit"} =>
    /\ canTransition(call[c].from, call[c].to)
    /\ \E i \in 1..Len(history[call[c].order]) :
         history[call[c].order][i].to = call[c].from

IHistory == HistoryInv /\ PendingInv

\* The two ways in which an order changes.
Opened(o) ==
  /\ ~Placed(o)
  /\ status' = [status EXCEPT ![o] = "PENDING_PAYMENT"]
  /\ history' = [history EXCEPT ![o] = <<Row("none", "PENDING_PAYMENT")>>]
  /\ held' = [held EXCEPT ![o] = held[o] + 1]
  /\ taken' = taken

Moved(o, from, to) ==
  /\ canTransition(from, to)
  /\ \E i \in 1..Len(history[o]) : history[o][i].to = from
  /\ status' = [status EXCEPT ![o] = to]
  /\ history' = [history EXCEPT ![o] = Append(history[o], Row(from, to))]
  /\ held' = [held EXCEPT ![o] = held[o] + HeldChange(StockMove(from, to))]
  /\ taken' = [taken EXCEPT ![o] = taken[o] + TakenChange(StockMove(from, to))]

LEMMA AllowedStatuses ==
  ASSUME NEW from, NEW to, canTransition(from, to)
  PROVE  /\ from \in OrderStatus /\ to \in OrderStatus
         /\ from # "none" /\ to # "none"
BY DEF canTransition, ALLOWED_TRANSITIONS, OrderStatus

\* Every step opens an order, moves one, or leaves them all as they are.
LEMMA OrderChanges ==
  ASSUME IType, IHistory, [Next]_vars
  PROVE  \/ UNCHANGED <<status, history, held, taken>>
         \/ \E o \in Order : Opened(o)
         \/ \E o \in Order, from, to \in OrderStatus : Moved(o, from, to)
<1>1. ASSUME NEW c \in Process, PlaceCommit(c)
      PROVE  \E o \in Order : Opened(o)
  BY <1>1 DEF PlaceCommit, Opened, IType, CallTypeOK, WellFormed
<1>2. ASSUME NEW c \in Process, UpdateCommit(c)
      PROVE  \E o \in Order, from, to \in OrderStatus : Moved(o, from, to)
  <2>1. /\ call[c].order \in Order /\ call[c].pc = "commit"
        /\ canTransition(call[c].from, call[c].to)
        /\ \E i \in 1..Len(history[call[c].order]) :
             history[call[c].order][i].to = call[c].from
    BY <1>2 DEF UpdateCommit, IType, CallTypeOK, WellFormed, IHistory, PendingInv
  <2>2. call[c].from \in OrderStatus /\ call[c].to \in OrderStatus
    BY <2>1, AllowedStatuses
  <2>3. Moved(call[c].order, call[c].from, call[c].to)
    BY <1>2, <2>1 DEF UpdateCommit, Moved
  <2> QED
    BY <2>1, <2>2, <2>3
<1>3. ASSUME NEW c \in Process, Progress(c), ~PlaceCommit(c), ~UpdateCommit(c)
      PROVE  UNCHANGED <<status, history, held, taken>>
  BY <1>3
  DEF Progress, PlaceEnqueue, PayCreate, ShipCreate, DeliverWrite, UpdateRead,
      UpdateDefault, UpdateDequeue, Throw, orderVars
<1>4. ASSUME NEW c \in Call, Request(c)
      PROVE  UNCHANGED <<status, history, held, taken>>
  BY <1>4 DEF Request, PlaceRead, PatchRead, PayRead, ShipRead, DeliverRead, orderVars
<1>5. ASSUME OrdersStep, \A c \in Process : ~PlaceCommit(c) /\ ~UpdateCommit(c)
      PROVE  UNCHANGED <<status, history, held, taken>>
  BY <1>3, <1>4, <1>5 DEF OrdersStep, Fail, WorkerCrash, JobStart, orderVars
<1>6. CASE UNCHANGED orderVars
  BY <1>6 DEF orderVars
<1> QED
  BY <1>1, <1>2, <1>5, <1>6 DEF Next, vars

\* Rows are only ever added at the end of a history.
LEMMA HistoryGrows ==
  ASSUME IType, IHistory, [Next]_vars, NEW o \in Order, NEW i \in 1..Len(history[o])
  PROVE  i \in 1..Len(history'[o]) /\ history'[o][i] = history[o][i]
<1>1. history \in [Order -> Seq(HistoryRow)]
  BY DEF IType, TypeOK
<1>2. ASSUME NEW p \in Order, Opened(p)
      PROVE  i \in 1..Len(history'[o]) /\ history'[o][i] = history[o][i]
  BY <1>1, <1>2 DEF Opened, IHistory, HistoryInv
<1>3. ASSUME NEW p \in Order, NEW from \in OrderStatus, NEW to \in OrderStatus,
             Moved(p, from, to)
      PROVE  i \in 1..Len(history'[o]) /\ history'[o][i] = history[o][i]
  <2>1. Row(from, to) \in HistoryRow
    BY DEF Row, HistoryRow, Status
  <2> QED
    BY <1>1, <1>3, <2>1 DEF Moved
<1> QED
  BY <1>2, <1>3, OrderChanges

LEMMA HistoryInvStep ==
  ASSUME IType, IHistory, [Next]_vars
  PROVE  HistoryInv'
<1> USE DEF HistoryInv, Placed
<1>1. /\ history \in [Order -> Seq(HistoryRow)] /\ status \in [Order -> Status]
      /\ held \in [Order -> Int] /\ taken \in [Order -> Int] /\ HistoryInv
  BY DEF IType, TypeOK, IHistory
<1>2. ASSUME NEW p \in Order, Opened(p)
      PROVE  HistoryInv'
  BY <1>1, <1>2 DEF Opened, Row
<1>3. ASSUME NEW p \in Order, NEW from \in OrderStatus, NEW to \in OrderStatus,
             Moved(p, from, to)
      PROVE  HistoryInv'
  <2>1. Row(from, to) \in HistoryRow /\ Row(from, to).to = to /\ to # "none"
    BY <1>3, AllowedStatuses DEF Row, HistoryRow, Status, Moved
  <2>2. history[p] # <<>> /\ status[p] # "none"
    BY <1>1, <1>3 DEF Moved
  <2>3. ASSUME NEW o \in Order, o # p
        PROVE  /\ history'[o] = history[o] /\ status'[o] = status[o]
               /\ held'[o] = held[o] /\ taken'[o] = taken[o]
    BY <1>1, <1>3, <2>3 DEF Moved
  <2>4. history'[p] = Append(history[p], Row(from, to)) /\ status'[p] = to
    BY <1>1, <1>3 DEF Moved
  <2>5. Len(history'[p]) > 0 /\ history'[p][Len(history'[p])].to = to
    BY <1>1, <2>1, <2>4
  <2> QED
    BY <1>1, <2>1, <2>2, <2>3, <2>4, <2>5
<1>4. CASE UNCHANGED <<status, history, held, taken>>
  BY <1>1, <1>4
<1> QED
  BY <1>2, <1>3, <1>4, OrderChanges

\* A call becomes pending by a check of the status as it is, and stays so while
\* rows are added.
LEMMA PendingInvStep ==
  ASSUME IType, IHistory, [Next]_vars
  PROVE  PendingInv'
<1> DEFINE Ok(r) == r.pc \in {"default", "commit"} =>
                      /\ canTransition(r.from, r.to)
                      /\ \E i \in 1..Len(history[r.order]) : history[r.order][i].to = r.from
           Kept(d) == /\ call'[d].pc \in {"default", "commit"}
                           => call[d].pc \in {"default", "commit"}
                      /\ call'[d].pc \in {"default", "commit"} =>
                           /\ call'[d].from = call[d].from /\ call'[d].to = call[d].to
                           /\ call'[d].order = call[d].order
           Fresh(d) == \E o \in Order, to \in Status :
                         CheckTransition(o, to) /\ call'[d] = Checked(o, to)
<1>1. call \in [Process -> CallRecord] /\ \A c \in Process : WellFormed(call[c])
  BY DEF IType, CallTypeOK
<1>2. ASSUME NEW d \in Process PROVE Kept(d) \/ Fresh(d)
  <2> USE <1>1
  <2> DEFINE Left(c) == /\ \A e \in Process : e # c => call'[e] = call[e]
                        /\ call'[c].pc \notin {"default", "commit"}
  <2>0. ASSUME NEW c \in Process, Left(c) PROVE Kept(d)
    BY <2>0
  <2>a. Idle.pc = "idle"
    BY DEF Idle
  <2>1. ASSUME NEW c \in Call, Request(c) PROVE Kept(d) \/ Fresh(d)
    <3>1. ASSUME NEW o \in Order, NEW to \in PatchTargets, PatchRead(c, o, to)
          PROVE  Kept(d) \/ Fresh(d)
      <4>1. to \in Status /\ c \in Process
        BY OrdersAssumption DEF Status, Process
      <4> QED
        BY <3>1, <4>1 DEF PatchRead
    <3>2. c \in Process
      BY DEF Process
    <3>3. ASSUME NEW o \in Order, NEW q \in Carts, NEW w \in Warehouse, PlaceRead(c, o, q, w)
          PROVE  Left(c)
      BY <3>2, <3>3 DEF PlaceRead, Idle
    <3>4. ASSUME NEW o \in Order, NEW succeeded \in BOOLEAN, PayRead(c, o, succeeded)
          PROVE  Left(c)
      <4> DEFINE t == IF succeeded THEN "PAID" ELSE "PAYMENT_FAILED"
      <4>1. call' = [call EXCEPT ![c] = [Idle EXCEPT !.pc = "pay", !.order = o, !.to = t]]
        BY <3>4 DEF PayRead
      <4> HIDE DEF t
      <4> QED
        BY <3>2, <4>1 DEF Idle
    <3>5. ASSUME NEW o \in Order, ShipRead(c, o)
          PROVE  Left(c)
      BY <3>2, <3>5 DEF ShipRead, Idle
    <3>6. ASSUME NEW o \in Order, NEW i \in 1..Len(shipments[o]), DeliverRead(c, o, i)
          PROVE  Left(c)
      BY <3>2, <3>6 DEF DeliverRead, Idle
    <3> HIDE DEF Kept, Fresh, Left
    <3> QED
      BY <2>0, <2>1, <3>1, <3>2, <3>3, <3>4, <3>5, <3>6 DEF Request
  <2>2. ASSUME NEW c \in Process, UpdateRead(c) PROVE Kept(d) \/ Fresh(d)
    <3>1. call[c].order \in Order /\ call[c].to \in Status
      BY <2>2 DEF UpdateRead, WellFormed, CallRecord
    <3> QED
      BY <2>2, <3>1 DEF UpdateRead
  <2>3. ASSUME NEW c \in Process, NEW w \in Warehouse, UpdateDefault(c, w) PROVE Kept(d)
    <3>1. call[c] \in CallRecord
      OBVIOUS
    <3>2. call' = [call EXCEPT ![c] = [call[c] EXCEPT !.pc = "commit", !.wh = w]]
      BY <2>3 DEF UpdateDefault
    <3> QED
      BY <2>3, <3>1, <3>2 DEF UpdateDefault, CallRecord
  <2>4. ASSUME NEW c \in Process, PlaceCommit(c) \/ PlaceEnqueue(c) PROVE Kept(d)
    <3>1. CASE PlaceCommit(c)
      <4>1. Left(c)
        BY <3>1 DEF PlaceCommit, Idle
      <4> QED
        BY <2>0, <4>1
    <3>2. CASE PlaceEnqueue(c)
      <4>1. Left(c)
        BY <3>2, <2>a DEF PlaceEnqueue
      <4> QED
        BY <2>0, <4>1
    <3> QED
      BY <2>4, <3>1, <3>2
  <2>5. ASSUME NEW c \in Process, PayCreate(c) \/ ShipCreate(c) \/ DeliverWrite(c)
        PROVE  Kept(d)
    <3>1. call[c] \in CallRecord
      OBVIOUS
    <3> QED
      BY <2>5, <3>1 DEF PayCreate, ShipCreate, DeliverWrite, CallRecord
  <2>6. ASSUME NEW c \in Process, UpdateCommit(c) \/ UpdateDequeue(c) PROVE Kept(d)
    <3>1. \/ call' = [call EXCEPT ![c] = Idle]
          \/ \E o : call' = [call EXCEPT ![c] = [Idle EXCEPT !.pc = "dequeue", !.order = o]]
      BY <2>6 DEF UpdateCommit, UpdateDequeue, Finish
    <3>2. Left(c)
      <4>1. CASE call' = [call EXCEPT ![c] = Idle]
        BY <4>1, <2>a
      <4>2. ASSUME NEW o, call' = [call EXCEPT ![c] = [Idle EXCEPT !.pc = "dequeue", !.order = o]]
            PROVE  Left(c)
        BY <4>2 DEF Idle
      <4> QED
        BY <3>1, <4>1, <4>2
    <3> QED
      BY <2>0, <3>2
  <2>7. ASSUME NEW c \in Process, Throw(c) \/ Fail(c) PROVE Kept(d)
    BY <2>a, <2>7 DEF Throw, Fail, Finish
  <2>8. ASSUME NEW o \in Order, JobStart(o) PROVE Kept(d)
    BY <2>8 DEF JobStart, Process, Idle
  <2>9. CASE WorkerCrash
    BY <2>9, <2>a DEF WorkerCrash, Process
  <2>10. CASE UNCHANGED call
    BY <2>10
  <2>11. OrdersStep \/ UNCHANGED call
    BY DEF Next, vars
  <2> HIDE DEF Kept, Fresh
  <2> QED
    BY <2>1, <2>2, <2>3, <2>4, <2>5, <2>6, <2>7, <2>8, <2>9, <2>10, <2>11
    DEF OrdersStep, Progress
<1>3. ASSUME NEW d \in Process, Fresh(d) PROVE Ok(call[d])'
  <2>1. PICK o \in Order, to \in Status :
          CheckTransition(o, to) /\ call'[d] = Checked(o, to)
    BY <1>3
  <2>2. /\ call'[d].from = status[o] /\ call'[d].to = to /\ call'[d].order = o
        /\ canTransition(status[o], to)
    BY <2>1 DEF Checked, CheckTransition, Idle
  <2>3. Placed(o)
    BY <2>2, AllowedStatuses DEF Placed
  <2>4. /\ Len(history[o]) \in 1..Len(history[o])
        /\ history[o][Len(history[o])].to = status[o]
    BY <2>3 DEF IHistory, HistoryInv, IType, TypeOK
  <2> QED
    BY <2>2, <2>4, HistoryGrows
<1>4. ASSUME NEW d \in Process, Kept(d) PROVE Ok(call[d])'
  <2>1. SUFFICES ASSUME call'[d].pc \in {"default", "commit"} PROVE Ok(call[d])'
    OBVIOUS
  <2>2. /\ call[d].pc \in {"default", "commit"} /\ call[d].order \in Order
        /\ call'[d].from = call[d].from /\ call'[d].to = call[d].to
        /\ call'[d].order = call[d].order
    BY <1>1, <1>4, <2>1 DEF WellFormed
  <2>3. Ok(call[d])
    BY DEF IHistory, PendingInv
  <2> QED
    BY <2>2, <2>3, HistoryGrows
<1> QED
  BY <1>2, <1>3, <1>4 DEF PendingInv

LEMMA InitHistory == Init => IHistory
BY DEF Init, IHistory, HistoryInv, PendingInv, Placed, Idle

LEMMA StepHistory == IType /\ IHistory /\ [Next]_vars => IHistory'
BY HistoryInvStep, PendingInvStep DEF IHistory

----------------------------------------------------------------------------
\* A row added to a history: what the clean extension says of the history before
\* and of the row.
LEMMA CleanExtension ==
  ASSUME NEW h \in Seq(HistoryRow), Len(h) > 0, NEW r \in HistoryRow,
         \A i \in 2..Len(Append(h, r)) :
           /\ Append(h, r)[i].from = Append(h, r)[i - 1].to
           /\ ~Reopens(Append(h, r)[i].from, Append(h, r)[i].to)
  PROVE  /\ \A i \in 2..Len(h) : h[i].from = h[i - 1].to /\ ~Reopens(h[i].from, h[i].to)
         /\ r.from = h[Len(h)].to /\ ~Reopens(r.from, r.to)
<1> DEFINE g == Append(h, r)
<1>1. Len(g) = Len(h) + 1 /\ g[Len(h) + 1] = r /\ \A i \in 1..Len(h) : g[i] = h[i]
  OBVIOUS
<1>2. ASSUME NEW i \in 2..Len(h)
      PROVE  h[i].from = h[i - 1].to /\ ~Reopens(h[i].from, h[i].to)
  <2>1. i \in 2..Len(g) /\ i \in 1..Len(h) /\ i - 1 \in 1..Len(h)
    BY <1>1
  <2>2. g[i] = h[i] /\ g[i - 1] = h[i - 1]
    BY <1>1, <2>1
  <2>3. g[i].from = g[i - 1].to /\ ~Reopens(g[i].from, g[i].to)
    BY <2>1
  <2> QED
    BY <2>2, <2>3
<1>3. r.from = h[Len(h)].to /\ ~Reopens(r.from, r.to)
  <2>1. Len(h) + 1 \in 2..Len(g) /\ Len(h) \in 1..Len(h) /\ (Len(h) + 1) - 1 = Len(h)
    BY <1>1
  <2>2. /\ g[Len(h) + 1].from = g[(Len(h) + 1) - 1].to
        /\ ~Reopens(g[Len(h) + 1].from, g[Len(h) + 1].to)
    BY <2>1
  <2> QED
    BY <1>1, <2>1, <2>2
<1> QED
  BY <1>2, <1>3

\* In every reachable state, an order whose history is one chain that never
\* reopens holds in the stock exactly what order-status.rules.ts says of its
\* status, however many calls on it raced, failed or were rejected.
THEOREM PhaseAlwaysMatchesStock == Spec => []PhaseMatchesStock
<1>1. Init => PhaseMatchesStock
  BY DEF Init, PhaseMatchesStock, Placed
<1>2. IType /\ IHistory /\ PhaseMatchesStock /\ [Next]_vars => PhaseMatchesStock'
  <2> SUFFICES ASSUME IType, IHistory, PhaseMatchesStock, [Next]_vars,
                      NEW o \in Order, Placed(o)', Clean(o)'
               PROVE  /\ held'[o] = HeldIn(stockPhaseFor(status'[o]))
                      /\ taken'[o] = TakenIn(stockPhaseFor(status'[o]))
    BY DEF PhaseMatchesStock
  <2>1. /\ history \in [Order -> Seq(HistoryRow)] /\ status \in [Order -> Status]
        /\ held \in [Order -> Int] /\ taken \in [Order -> Int] /\ HistoryInv
    BY DEF IType, TypeOK, IHistory
  <2>2. Clean(o)' <=> \A i \in 2..Len(history'[o]) :
                        /\ history'[o][i].from = history'[o][i - 1].to
                        /\ ~Reopens(history'[o][i].from, history'[o][i].to)
    BY DEF Clean, Unbroken, NeverReopened
  <2>3. CASE UNCHANGED <<status[o], history[o], held[o], taken[o]>>
    <3>1. Placed(o) /\ Clean(o)
      BY <2>2, <2>3 DEF Placed, Clean, Unbroken, NeverReopened
    <3> QED
      BY <2>3, <3>1 DEF PhaseMatchesStock
  <2>4. CASE Opened(o)
    <3>1. held[o] = 0 /\ taken[o] = 0
      BY <2>1, <2>4 DEF Opened, HistoryInv
    <3> QED
      BY <2>1, <2>4, <3>1 DEF Opened, HeldIn, TakenIn, stockPhaseFor
  <2>5. ASSUME NEW from \in OrderStatus, NEW to \in OrderStatus, Moved(o, from, to)
        PROVE  /\ held'[o] = HeldIn(stockPhaseFor(status'[o]))
               /\ taken'[o] = TakenIn(stockPhaseFor(status'[o]))
    <3> DEFINE h == history[o]
               r == Row(from, to)
    <3>1. /\ h \in Seq(HistoryRow) /\ r \in HistoryRow /\ r.from = from /\ r.to = to
          /\ Len(h) > 0 /\ history'[o] = Append(h, r) /\ status'[o] = to
      <4>1. h \in Seq(HistoryRow) /\ Len(h) > 0
        BY <2>1, <2>5 DEF Moved
      <4>2. r \in HistoryRow /\ r.from = from /\ r.to = to
        BY DEF Row, HistoryRow, Status
      <4>3. history'[o] = Append(h, r) /\ status'[o] = to
        BY <2>1, <2>5 DEF Moved
      <4> QED
        BY <4>1, <4>2, <4>3
    <3>2. /\ \A i \in 2..Len(h) : h[i].from = h[i - 1].to /\ ~Reopens(h[i].from, h[i].to)
          /\ from = h[Len(h)].to /\ ~Reopens(from, to)
      <4> HIDE DEF h, r
      <4>1. \A i \in 2..Len(Append(h, r)) :
              /\ Append(h, r)[i].from = Append(h, r)[i - 1].to
              /\ ~Reopens(Append(h, r)[i].from, Append(h, r)[i].to)
        BY <2>2, <3>1
      <4>2. /\ \A i \in 2..Len(h) :
                  h[i].from = h[i - 1].to /\ ~Reopens(h[i].from, h[i].to)
            /\ r.from = h[Len(h)].to /\ ~Reopens(r.from, r.to)
        BY <3>1, <4>1, CleanExtension
      <4> QED
        BY <3>1, <4>2
    <3>3. Placed(o) /\ status[o] = from
      BY <2>1, <3>1, <3>2 DEF HistoryInv
    <3>4. Clean(o)
      BY <3>2 DEF Clean, Unbroken, NeverReopened
    <3>5. /\ held[o] = HeldIn(stockPhaseFor(from))
          /\ taken[o] = TakenIn(stockPhaseFor(from))
      BY <3>3, <3>4 DEF PhaseMatchesStock
    <3>6. /\ held'[o] = held[o] + HeldChange(StockMove(from, to))
          /\ taken'[o] = taken[o] + TakenChange(StockMove(from, to))
      BY <2>1, <2>5 DEF Moved
    <3> QED
      BY <2>5, <3>1, <3>2, <3>5, <3>6, MoveMatchesPhases DEF Moved
  <2>6. ASSUME NEW p \in Order, p # o,
               Opened(p) \/ (\E from, to \in OrderStatus : Moved(p, from, to))
        PROVE  UNCHANGED <<status[o], history[o], held[o], taken[o]>>
    BY <2>1, <2>6 DEF Opened, Moved
  <2> QED
    BY <2>3, <2>4, <2>5, <2>6, OrderChanges
<1> QED
  BY InitType, StepType, InitHistory, StepHistory, <1>1, <1>2, PTL DEF Spec

----------------------------------------------------------------------------
PlacedOrders == {o \in Order : Placed(o)}

ReservedAll(v) == SumOf([w \in Warehouse |-> reserved[<<v, w>>]], Warehouse)
HeldAll(v) == SumOf([o \in Order |-> held[o] * items[o][v]], PlacedOrders)

\* The reservations of a variant, over all the warehouses, are what the orders hold
\* of it, clean or not: a transaction changes both by the same quantity.
ReservationsAreHeld ==
  /\ IsFiniteSet(PlacedOrders)
  /\ \A v \in Variant : ReservedAll(v) = HeldAll(v)

\* One warehouse's cell of each variant changes by times the quantity.
Change(q, w, times) ==
  reserved' = [x \in Cell |-> IF x[2] = w THEN reserved[x] + times * q[x[1]] ELSE reserved[x]]

LEMMA ReservedAllChanges ==
  ASSUME reserved \in [Cell -> Int], NEW v \in Variant, NEW w \in Warehouse,
         NEW q \in [Variant -> Nat], NEW times \in {-1, 0, 1}, Change(q, w, times)
  PROVE  /\ ReservedAll(v) \in Int
         /\ ReservedAll(v)' = ReservedAll(v) + times * q[v]
<1> DEFINE f == [u \in Warehouse |-> reserved[<<v, u>>]]
           g == [u \in Warehouse |-> reserved'[<<v, u>>]]
<1>1. IsFiniteSet(Warehouse)
  BY WarehousesAssumption, FS_Interval DEF Warehouse
<1>2. times * q[v] \in Int
  OBVIOUS
<1>3. ASSUME NEW u \in Warehouse
      PROVE  /\ f[u] \in Int
             /\ g[u] = IF u = w THEN f[u] + times * q[v] ELSE f[u]
  BY <1>3, CellParts DEF Change
<1> HIDE DEF f, g
<1>4. \A u \in Warehouse : f[u] \in Int /\ g[u] \in Int
  BY <1>2, <1>3
<1>5. \A u \in Warehouse \ {w} : g[u] = f[u]
  BY <1>3
<1>6. SumOf(g, Warehouse) = SumOf(f, Warehouse) + (g[w] - f[w])
  BY <1>1, <1>4, <1>5, SumChanges
<1>7. SumOf(f, Warehouse) \in Int
  BY <1>1, <1>4, SumSplit
<1>8. SumOf(g, Warehouse) = SumOf(f, Warehouse) + times * q[v]
  BY <1>2, <1>3, <1>4, <1>6, <1>7
<1> QED
  BY <1>7, <1>8 DEF ReservedAll, f, g

\* A new order holds its items once ...
LEMMA PlaceKeepsReservations ==
  ASSUME IType, IHistory, ReservationsAreHeld, NEW c \in Process, PlaceCommit(c)
  PROVE  ReservationsAreHeld'
<1> DEFINE o == call[c].order
           q == call[c].items
           w == call[c].wh
<1>1. /\ o \in Order /\ q \in [Variant -> Nat] /\ w \in Warehouse
      /\ reserved \in [Cell -> Int] /\ held \in [Order -> Int]
      /\ items \in [Order -> [Variant -> Nat]] /\ status \in [Order -> Status]
  BY DEF PlaceCommit, IType, TypeOK, InventoryTypeOK, CallTypeOK, WellFormed, CallRecord
<1>2. /\ ~Placed(o) /\ held[o] = 0
      /\ status' = [status EXCEPT ![o] = "PENDING_PAYMENT"]
      /\ held' = [held EXCEPT ![o] = held[o] + 1]
      /\ items' = [items EXCEPT ![o] = q]
      /\ reserved' = Plus(reserved, q, w)
  BY <1>1 DEF PlaceCommit, Reserve, IHistory, HistoryInv
<1>3. Change(q, w, 1)
  BY <1>1, <1>2, CellParts DEF Change, Plus
<1> HIDE DEF o, q, w
<1>4. PlacedOrders' = PlacedOrders \cup {o} /\ o \notin PlacedOrders
  BY <1>1, <1>2 DEF PlacedOrders, Placed
<1>5. IsFiniteSet(PlacedOrders) /\ IsFiniteSet(PlacedOrders')
  BY <1>4, FS_AddElement DEF ReservationsAreHeld
<1>6. ASSUME NEW v \in Variant PROVE (ReservedAll(v) = HeldAll(v))'
  <2> DEFINE f == [p \in Order |-> held[p] * items[p][v]]
             g == [p \in Order |-> held'[p] * items'[p][v]]
             P == PlacedOrders
  <2>1. \A p \in P : f[p] = g[p]
    BY <1>1, <1>2, <1>4 DEF PlacedOrders
  <2>2. \A p \in Order : items[p][v] \in Nat /\ items'[p][v] \in Nat /\ held[p] \in Int
                           /\ held'[p] \in Int
    BY <1>1, <1>2
  <2>3. \A p \in Order : f[p] \in Int /\ g[p] \in Int
    BY <2>2
  <2>4. g[o] = q[v] /\ q[v] \in Nat
    BY <1>1, <1>2
  <2>5. P \subseteq Order /\ IsFiniteSet(P) /\ IsFiniteSet(P \cup {o}) /\ o \notin P
    BY <1>4, <1>5 DEF PlacedOrders
  <2> HIDE DEF f, g, P
  <2>6. SumOf(f, P) = SumOf(g, P) /\ SumOf(f, P) \in Int
    BY <2>1, <2>3, <2>5, SumSame, SumSplit
  <2>7. SumOf(g, P \cup {o}) = g[o] + SumOf(g, P)
    <3>1. (P \cup {o}) \ {o} = P /\ o \in P \cup {o}
      BY <2>5
    <3>2. \A p \in P \cup {o} : g[p] \in Int
      BY <1>1, <2>3, <2>5
    <3> QED
      BY <2>5, <3>1, <3>2, SumSplit
  <2>8. HeldAll(v) = SumOf(f, P) /\ HeldAll(v)' = SumOf(g, P \cup {o})
    BY <1>4 DEF HeldAll, f, g, P
  <2>9. /\ ReservedAll(v) \in Int
        /\ ReservedAll(v)' = ReservedAll(v) + 1 * q[v]
    BY <1>1, <1>3, ReservedAllChanges
  <2>10. ReservedAll(v) = HeldAll(v)
    BY DEF ReservationsAreHeld
  <2>11. HeldAll(v)' = HeldAll(v) + q[v]
    BY <2>4, <2>6, <2>7, <2>8
  <2> QED
    BY <2>4, <2>9, <2>10, <2>11
<1> QED
  BY <1>5, <1>6 DEF ReservationsAreHeld

\* ... and a change of status moves as much stock as it says the order holds less.
LEMMA MoveKeepsReservations ==
  ASSUME IType, IHistory, ReservationsAreHeld, NEW c \in Process, UpdateCommit(c)
  PROVE  ReservationsAreHeld'
<1> DEFINE o == call[c].order
           w == call[c].wh
           q == items[o]
           move == StockMove(call[c].from, call[c].to)
           times == HeldChange(move)
<1>1. /\ o \in Order /\ q \in [Variant -> Nat] /\ w \in Warehouse
      /\ reserved \in [Cell -> Int] /\ held \in [Order -> Int]
      /\ items \in [Order -> [Variant -> Nat]] /\ status \in [Order -> Status]
  BY DEF UpdateCommit, IType, TypeOK, InventoryTypeOK, CallTypeOK, WellFormed, CallRecord
<1>2. Placed(o) /\ call[c].to # "none"
  <2>1. /\ canTransition(call[c].from, call[c].to)
        /\ \E i \in 1..Len(history[o]) : history[o][i].to = call[c].from
    BY DEF UpdateCommit, IHistory, PendingInv
  <2>2. history[o] # <<>>
    BY <2>1
  <2> QED
    BY <1>1, <2>1, <2>2, AllowedStatuses DEF IHistory, HistoryInv
<1>3. /\ times \in {-1, 0, 1}
      /\ status' = [status EXCEPT ![o] = call[c].to]
      /\ held' = [held EXCEPT ![o] = held[o] + times]
      /\ items' = items
      /\ MoveStock(move, q, w)
  BY DEF UpdateCommit, HeldChange
<1>4. Change(q, w, times)
  <2>0. reserved = [x \in Cell |-> reserved[x]] /\ \A x \in Cell : q[x[1]] \in Nat
    BY <1>1, CellParts
  <2>1. CASE move \in {"RELEASE", "DEDUCT"}
    <3>1. reserved' = Minus(reserved, q, w)
      BY <1>3, <2>1 DEF MoveStock, Release, Deduct
    <3>2. times = -1
      BY <2>1 DEF HeldChange
    <3> HIDE DEF times, q, w
    <3> QED
      BY <1>1, <2>0, <3>1, <3>2 DEF Change, Minus
  <2>2. CASE move \notin {"RELEASE", "DEDUCT"}
    <3>1. reserved' = reserved
      BY <1>3, <2>2 DEF MoveStock, ReturnStock, stockVars
    <3>2. times = 0
      BY <2>2 DEF HeldChange
    <3> HIDE DEF times, q, w
    <3> QED
      BY <1>1, <2>0, <3>1, <3>2 DEF Change
  <2> QED
    BY <2>1, <2>2
<1> HIDE DEF o, w, q, move, times
<1>5. PlacedOrders' = PlacedOrders /\ o \in PlacedOrders
  BY <1>1, <1>2, <1>3 DEF PlacedOrders, Placed
<1>6. ASSUME NEW v \in Variant PROVE (ReservedAll(v) = HeldAll(v))'
  <2> DEFINE f == [p \in Order |-> held[p] * items[p][v]]
             g == [p \in Order |-> held'[p] * items'[p][v]]
             P == PlacedOrders
  <2>1. /\ \A p \in Order : items[p][v] \in Nat /\ held[p] \in Int /\ held'[p] \in Int
        /\ q[v] \in Nat /\ items[o][v] = q[v]
    BY <1>1, <1>3 DEF q
  <2>2. \A p \in Order : f[p] \in Int /\ g[p] \in Int
    BY <1>3, <2>1
  <2>3. \A p \in P \ {o} : g[p] = f[p]
    BY <1>1, <1>3 DEF PlacedOrders
  <2>4. g[o] - f[o] = times * q[v]
    <3>1. f[o] = held[o] * q[v] /\ g[o] = (held[o] + times) * q[v]
      BY <1>1, <1>3, <2>1
    <3>2. \A h \in Int, n \in Nat : \A t \in {-1, 0, 1} : (h + t) * n - h * n = t * n
      OBVIOUS
    <3> HIDE DEF f, g
    <3> QED
      BY <1>1, <1>3, <2>1, <3>1, <3>2
  <2>5. P \subseteq Order /\ IsFiniteSet(P) /\ o \in P
    BY <1>5 DEF PlacedOrders, ReservationsAreHeld
  <2> HIDE DEF f, g, P
  <2>6. \A p \in P : f[p] \in Int /\ g[p] \in Int
    BY <2>2, <2>5
  <2>7. SumOf(g, P) = SumOf(f, P) + (g[o] - f[o]) /\ SumOf(f, P) \in Int
    BY <2>3, <2>5, <2>6, SumChanges, SumSplit
  <2>8. HeldAll(v) = SumOf(f, P) /\ HeldAll(v)' = SumOf(g, P)
    BY <1>5 DEF HeldAll, f, g, P
  <2>9. /\ ReservedAll(v) \in Int
        /\ ReservedAll(v)' = ReservedAll(v) + times * q[v]
    BY <1>1, <1>3, <1>4, ReservedAllChanges
  <2>10. ReservedAll(v) = HeldAll(v)
    BY DEF ReservationsAreHeld
  <2> QED
    BY <2>4, <2>7, <2>8, <2>9, <2>10
<1> QED
  BY <1>5, <1>6 DEF ReservationsAreHeld

\* No other step changes a reservation, or what an order is or holds.
LEMMA OthersKeepReservations ==
  ASSUME IType, [Next]_vars, \A c \in Process : ~PlaceCommit(c) /\ ~UpdateCommit(c)
  PROVE  UNCHANGED <<reserved, status, held, items>>
<1>1. ASSUME NEW c \in Process, Progress(c)
      PROVE  UNCHANGED <<reserved, status, held, items>>
  BY <1>1
  DEF Progress, PlaceEnqueue, PayCreate, ShipCreate, DeliverWrite, UpdateRead,
      UpdateDefault, UpdateDequeue, Throw, orderVars, stockVars
<1>2. ASSUME NEW c \in Call, Request(c)
      PROVE  UNCHANGED <<reserved, status, held, items>>
  BY <1>2 DEF Request, PlaceRead, PatchRead, PayRead, ShipRead, DeliverRead, orderVars,
              stockVars
<1>3. CASE OrdersStep
  BY <1>1, <1>2, <1>3 DEF OrdersStep, Fail, WorkerCrash, JobStart, orderVars, stockVars
<1>4. ASSUME StockroomNext PROVE UNCHANGED reserved
  BY <1>4, StockroomSteps DEF IType, TypeOK, Enter, stockVars
<1>5. CASE UNCHANGED orderVars /\ UNCHANGED reserved
  BY <1>5 DEF orderVars
<1> QED
  BY <1>3, <1>4, <1>5 DEF Next, vars, inventoryVars

LEMMA InitReservations == Init => ReservationsAreHeld
<1> SUFFICES ASSUME Init PROVE ReservationsAreHeld
  OBVIOUS
<1>1. PlacedOrders = {}
  BY DEF Init, PlacedOrders, Placed
<1>2. IsFiniteSet({})
  BY FS_EmptySet
<1>3. ASSUME NEW v \in Variant PROVE ReservedAll(v) = 0
  <2> DEFINE f == [w \in Warehouse |-> reserved[<<v, w>>]]
  <2>1. IsFiniteSet(Warehouse)
    BY WarehousesAssumption, FS_Interval DEF Warehouse
  <2>2. \A w \in Warehouse \ {} : f[w] = 0
    BY CellParts DEF Init, InventoryInit, Nothing
  <2> HIDE DEF f
  <2>3. SumOf(f, Warehouse) = SumOf(f, {})
    BY <2>1, <2>2, SumZeros
  <2>4. SumOf(f, {}) = 0
    BY <1>2, SumUnfolds
  <2> QED
    BY <2>3, <2>4 DEF ReservedAll, f
<1>4. ASSUME NEW v \in Variant PROVE HeldAll(v) = 0
  BY <1>1, <1>2, SumUnfolds DEF HeldAll
<1> QED
  BY <1>1, <1>2, <1>3, <1>4 DEF ReservationsAreHeld

LEMMA StepReservations ==
  IType /\ IHistory /\ ReservationsAreHeld /\ [Next]_vars => ReservationsAreHeld'
<1> SUFFICES ASSUME IType, IHistory, ReservationsAreHeld, [Next]_vars
             PROVE  ReservationsAreHeld'
  OBVIOUS
<1>1. CASE UNCHANGED <<reserved, status, held, items>>
  BY <1>1 DEF ReservationsAreHeld, ReservedAll, HeldAll, PlacedOrders, Placed
<1> QED
  BY <1>1, PlaceKeepsReservations, MoveKeepsReservations, OthersKeepReservations

\* As long as every order's history is one chain that never reopens, the reserved
\* balance of a variant, over all the warehouses, is what the open orders account
\* for, whatever the default warehouse was when they were placed and moved on.
THEOREM ReservationsAreOpenOrders == Spec => []ReservedMatchesOpenOrders
<1>1. IType /\ ReservationsAreHeld /\ PhaseMatchesStock => ReservedMatchesOpenOrders
  <2> SUFFICES ASSUME IType, ReservationsAreHeld, PhaseMatchesStock,
                      \A o \in Order : Clean(o), NEW v \in Variant
               PROVE  ReservedAll(v) =
                        SumOf([o \in Order |-> items[o][v]],
                              {o \in Order : Placed(o) /\ stockPhaseFor(status[o]) = "RESERVED"})
    BY DEF ReservedMatchesOpenOrders, ReservedAll
  <2> DEFINE f == [o \in Order |-> held[o] * items[o][v]]
             g == [o \in Order |-> items[o][v]]
             R == {o \in Order : Placed(o) /\ stockPhaseFor(status[o]) = "RESERVED"}
  <2>1. IsFiniteSet(PlacedOrders) /\ R \in SUBSET PlacedOrders /\ IsFiniteSet(R)
    <3>1. R \in SUBSET PlacedOrders
      BY DEF PlacedOrders
    <3> HIDE DEF R
    <3> QED
      BY <3>1, FS_Subset DEF ReservationsAreHeld
  <2>2. ASSUME NEW o \in PlacedOrders
        PROVE  /\ o \in Order
               /\ held[o] = IF stockPhaseFor(status[o]) = "RESERVED" THEN 1 ELSE 0
               /\ items[o][v] \in Nat
    BY DEF PlacedOrders, PhaseMatchesStock, HeldIn, IType, TypeOK
  <2>3. \A o \in R : f[o] = g[o] /\ f[o] \in Int
    BY <2>1, <2>2
  <2>4. \A o \in PlacedOrders \ R : f[o] = 0
    BY <2>2 DEF PlacedOrders
  <2> HIDE DEF f, g, R
  <2>5. SumOf(f, PlacedOrders) = SumOf(f, R)
    BY <2>1, <2>3, <2>4, SumZeros
  <2>6. SumOf(f, R) = SumOf(g, R)
    BY <2>1, <2>3, SumSame
  <2>7. ReservedAll(v) = SumOf(f, PlacedOrders)
    BY DEF ReservationsAreHeld, HeldAll, f
  <2> QED
    BY <2>5, <2>6, <2>7 DEF g, R
<1> QED
  BY InitType, StepType, InitHistory, StepHistory, InitReservations, StepReservations,
     PhaseAlwaysMatchesStock, <1>1, PTL DEF Spec

----------------------------------------------------------------------------
\* The order service implements the abstract order log: from every interleaving
\* of its calls, the history of each order grows by allowed rows that leave a
\* status the order had, and the status is the last row's (orders.service.ts).
THEOREM ImplementsOrderLog == Spec => HistoryIsALog
<1>1. Init => Log!LogInit
  BY DEF Init, Log!LogInit
<1>2. IType /\ IHistory /\ [Next]_vars => [Log!LogNext]_Log!logVars
  <2> SUFFICES ASSUME IType, IHistory, [Next]_vars
               PROVE  Log!LogNext \/ UNCHANGED <<status, history>>
    BY DEF Log!logVars
  <2>1. ASSUME NEW o \in Order, Opened(o)
        PROVE  Log!Open(o)
    BY <2>1 DEF Opened, Log!Open, IHistory, HistoryInv, Row
  <2>2. ASSUME NEW o \in Order, NEW from \in OrderStatus, NEW to \in OrderStatus,
               Moved(o, from, to)
        PROVE  \E i \in 1..Len(history[o]) : Log!Move(o, i, to)
    <3>1. PICK i \in 1..Len(history[o]) : history[o][i].to = from
      BY <2>2 DEF Moved
    <3>2. Log!canTransition(from, to)
      BY <2>2 DEF Moved, canTransition, ALLOWED_TRANSITIONS, Log!canTransition,
                  Log!ALLOWED_TRANSITIONS
    <3>3. history' = [history EXCEPT ![o] =
                        Append(history[o], [from |-> history[o][i].to, to |-> to])]
      BY <2>2, <3>1 DEF Moved, Row
    <3> QED
      BY <2>2, <3>1, <3>2, <3>3 DEF Moved, Log!Move
  <2>3. Log!OrderStatus = OrderStatus
    BY DEF Log!OrderStatus, OrderStatus
  <2> QED
    BY <2>1, <2>2, <2>3, OrderChanges DEF Log!LogNext
<1> QED
  BY InitType, StepType, InitHistory, StepHistory, <1>1, <1>2, PTL
  DEF Spec, HistoryIsALog, Log!LogSpec

----------------------------------------------------------------------------
\* How the record of a process changes in a step, as far as its transition goes.
Rests(r) == \/ r.pc \in {"idle", "reserve", "enqueue", "dequeue"}
            \/ r.pc = "pay" /\ r.to \in {"PAID", "PAYMENT_FAILED"}
            \/ r.pc = "ship" /\ r.to = "SHIPPED"
            \/ r.pc = "read" /\ r.to = "CANCELLED"
AsksDelivery(d) ==
  /\ call'[d].pc = "deliver" /\ call'[d].order \in Order
  /\ call'[d].shipment \in 1..Len(shipments[call'[d].order])
  /\ call'[d].to = "DELIVERED" /\ UNCHANGED shipments
Checks(d) ==
  \E o \in Order, to \in Status :
    /\ \/ to \in PatchTargets
       \/ call[d].pc = "read" /\ call[d].order = o /\ call[d].to = to
    /\ canTransition(status[o], to)
    /\ call'[d] = Checked(o, to)
    /\ UNCHANGED <<status, payments, shipments>>
Prepares(d) ==
  /\ call[d].pc = "default" /\ call'[d].pc = "commit"
  /\ call'[d].order = call[d].order /\ call'[d].to = call[d].to
Records(d) ==
  /\ PayCreate(d) \/ ShipCreate(d) \/ DeliverWrite(d)
  /\ call'[d].pc = "read" /\ call'[d].order = call[d].order /\ call'[d].to = call[d].to

LEMMA CallChanges ==
  ASSUME IType, [Next]_vars, NEW d \in Process
  PROVE  \/ call'[d] = call[d] \/ Rests(call'[d]) \/ AsksDelivery(d)
         \/ Checks(d) \/ Prepares(d) \/ Records(d)
<1> DEFINE Goal == \/ call'[d] = call[d] \/ Rests(call'[d]) \/ AsksDelivery(d)
                   \/ Checks(d) \/ Prepares(d) \/ Records(d)
<1>T. /\ call \in [Process -> CallRecord] /\ \A c \in Process : WellFormed(call[c])
      /\ Worker \in Process /\ \A c \in Call : c \in Process
  BY DEF IType, CallTypeOK, Process
<1>I. Rests(Idle)
  BY DEF Rests, Idle
<1>L. ASSUME NEW c \in Process, NEW r, call' = [call EXCEPT ![c] = r], Rests(r)
      PROVE  Goal
  BY <1>T, <1>L
<1>1. ASSUME NEW c \in Call, NEW o \in Order, NEW q \in Carts, NEW w \in Warehouse,
             PlaceRead(c, o, q, w)
      PROVE  Goal
  BY <1>T, <1>1 DEF PlaceRead, Rests, Idle
<1>2. ASSUME NEW c \in Call, NEW o \in Order, NEW to \in PatchTargets, PatchRead(c, o, to)
      PROVE  Goal
  <2>1. to \in Status
    BY OrdersAssumption DEF Status
  <2> QED
    BY <1>T, <1>2, <2>1 DEF PatchRead, CheckTransition, Checks, orderVars
<1>3. ASSUME NEW c \in Call, NEW o \in Order, NEW succeeded \in BOOLEAN,
             PayRead(c, o, succeeded)
      PROVE  Goal
  <2> DEFINE t == IF succeeded THEN "PAID" ELSE "PAYMENT_FAILED"
  <2>1. call' = [call EXCEPT ![c] = [Idle EXCEPT !.pc = "pay", !.order = o, !.to = t]]
    BY <1>3 DEF PayRead
  <2>2. t \in {"PAID", "PAYMENT_FAILED"}
    OBVIOUS
  <2> HIDE DEF t
  <2> QED
    BY <1>T, <2>1, <2>2 DEF Rests, Idle
<1>4. ASSUME NEW c \in Call, NEW o \in Order, ShipRead(c, o)
      PROVE  Goal
  BY <1>T, <1>4 DEF ShipRead, Rests, Idle
<1>5. ASSUME NEW c \in Call, NEW o \in Order, NEW i \in 1..Len(shipments[o]),
             DeliverRead(c, o, i)
      PROVE  Goal
  BY <1>T, <1>5 DEF DeliverRead, AsksDelivery, Idle
<1>6. ASSUME NEW c \in Process, UpdateRead(c)
      PROVE  Goal
  <2>1. call[c].order \in Order /\ call[c].to \in Status
    BY <1>T, <1>6 DEF UpdateRead, WellFormed, CallRecord
  <2> QED
    BY <1>T, <1>6, <2>1 DEF UpdateRead, CheckTransition, Checks, orderVars
<1>7. ASSUME NEW c \in Process, NEW w \in Warehouse, UpdateDefault(c, w)
      PROVE  Goal
  <2>1. call' = [call EXCEPT ![c] = [call[c] EXCEPT !.pc = "commit", !.wh = w]]
    BY <1>7 DEF UpdateDefault
  <2> QED
    BY <1>T, <1>7, <2>1 DEF UpdateDefault, Prepares, CallRecord
<1>8. ASSUME NEW c \in Process, PlaceCommit(c)
      PROVE  Goal
  BY <1>T, <1>8 DEF PlaceCommit, Rests, Idle
<1>9. ASSUME NEW c \in Process, PayCreate(c) \/ ShipCreate(c) \/ DeliverWrite(c)
      PROVE  Goal
  <2>1. \/ call' = [call EXCEPT ![c] = [call[c] EXCEPT !.pc = "read"]]
        \/ call' = [call EXCEPT ![c] = [call[c] EXCEPT !.pc = "read", !.shipment = 0]]
    BY <1>9 DEF PayCreate, ShipCreate, DeliverWrite
  <2>2. call'[c].pc = "read" /\ call'[c].order = call[c].order /\ call'[c].to = call[c].to
    BY <1>T, <2>1 DEF CallRecord
  <2>3. d # c => call'[d] = call[d]
    BY <1>T, <2>1
  <2> QED
    BY <1>9, <2>2, <2>3 DEF Records
<1>10. ASSUME NEW c \in Process, UpdateCommit(c)
       PROVE  Goal
  <2>1. Rests([Idle EXCEPT !.pc = "dequeue", !.order = call[c].order])
    BY DEF Rests, Idle
  <2>2. \/ call' = [call EXCEPT ![c] = Idle]
        \/ call' = [call EXCEPT ![c] = [Idle EXCEPT !.pc = "dequeue", !.order = call[c].order]]
    BY <1>10 DEF UpdateCommit, Finish
  <2> QED
    BY <1>I, <1>L, <2>1, <2>2
<1>11. ASSUME NEW c \in Process,
              PlaceEnqueue(c) \/ UpdateDequeue(c) \/ Throw(c) \/ Fail(c)
       PROVE  Goal
  BY <1>I, <1>L, <1>11 DEF PlaceEnqueue, UpdateDequeue, Throw, Fail, Finish
<1>12. ASSUME NEW o \in Order, JobStart(o)
       PROVE  Goal
  BY <1>T, <1>12 DEF JobStart, Rests, Idle
<1>13. ASSUME WorkerCrash
       PROVE  Goal
  BY <1>I, <1>L, <1>T, <1>13 DEF WorkerCrash
<1>14. OrdersStep \/ UNCHANGED call
  BY DEF Next, vars
<1> HIDE DEF Goal
<1>15. UNCHANGED call => Goal
  BY DEF Goal
<1>16. ASSUME NEW c \in Call, Request(c)
       PROVE  Goal
  BY <1>1, <1>2, <1>3, <1>4, <1>5, <1>16 DEF Request
<1>17. ASSUME NEW c \in Process, Progress(c)
       PROVE  Goal
  BY <1>6, <1>7, <1>8, <1>9, <1>10, <1>11, <1>17 DEF Progress
<1>18. ASSUME OrdersStep
       PROVE  Goal
  BY <1>11, <1>12, <1>13, <1>16, <1>17, <1>18 DEF OrdersStep
<1> QED
  BY <1>14, <1>15, <1>18 DEF Goal
----------------------------------------------------------------------------
\* What payments.service.ts and shipments.service.ts ask for, and of which shipment.
AskInv ==
  \A c \in Process :
    /\ call[c].pc = "pay" => call[c].to \in {"PAID", "PAYMENT_FAILED"}
    /\ call[c].pc = "ship" => call[c].to = "SHIPPED"
    /\ call[c].pc = "deliver" => /\ call[c].to = "DELIVERED"
                                 /\ call[c].shipment \in 1..Len(shipments[call[c].order])

\* Shipments are added, and delivered for good.
Shipped(o) == shipments[o] # <<>>
Delivered(o) == \E i \in 1..Len(shipments[o]) : shipments[o][i] = "DELIVERED"

LEMMA ShipmentsGrow ==
  ASSUME IType, [Next]_vars, NEW o \in Order
  PROVE  /\ Len(shipments[o]) <= Len(shipments'[o])
         /\ Shipped(o) => Shipped(o)'
         /\ Delivered(o) => Delivered(o)'
<1>1. shipments \in [Order -> Seq(ShipmentStatus)]
  BY DEF IType, TypeOK
<1>2. ASSUME NEW c \in Process, ShipCreate(c)
      PROVE  /\ Len(shipments[o]) <= Len(shipments'[o])
             /\ Shipped(o) => Shipped(o)'
             /\ Delivered(o) => Delivered(o)'
  <2> DEFINE p == call[c].order
  <2>1. shipments' = [shipments EXCEPT ![p] = Append(shipments[p], "SHIPPED")]
    BY <1>2 DEF ShipCreate
  <2>2. "SHIPPED" \in ShipmentStatus
    BY DEF ShipmentStatus
  <2>3. \/ shipments'[o] = shipments[o]
        \/ shipments'[o] = Append(shipments[o], "SHIPPED")
    BY <1>1, <2>1
  <2>4. CASE shipments'[o] = Append(shipments[o], "SHIPPED")
    <3>1. /\ Len(shipments'[o]) = Len(shipments[o]) + 1
          /\ \A i \in 1..Len(shipments[o]) : shipments'[o][i] = shipments[o][i]
      BY <1>1, <2>2, <2>4
    <3> QED
      BY <1>1, <3>1 DEF Shipped, Delivered
  <2> QED
    BY <1>1, <2>3, <2>4 DEF Shipped, Delivered
<1>3. ASSUME NEW c \in Process, DeliverWrite(c)
      PROVE  /\ Len(shipments[o]) <= Len(shipments'[o])
             /\ Shipped(o) => Shipped(o)'
             /\ Delivered(o) => Delivered(o)'
  <2> DEFINE p == call[c].order
             n == call[c].shipment
  <2>1. shipments' = [shipments EXCEPT ![p] = [shipments[p] EXCEPT ![n] = "DELIVERED"]]
    BY <1>3 DEF DeliverWrite
  <2> HIDE DEF n
  <2>2. \/ shipments'[o] = shipments[o]
        \/ shipments'[o] = [shipments[o] EXCEPT ![n] = "DELIVERED"]
    BY <1>1, <2>1
  <2>3. CASE shipments'[o] = [shipments[o] EXCEPT ![n] = "DELIVERED"]
    <3>1. PICK m \in Nat : shipments[o] \in [1..m -> ShipmentStatus] /\ Len(shipments[o]) = m
      BY <1>1
    <3>2. Len(shipments'[o]) = m
      <4>1. shipments'[o] \in Seq(ShipmentStatus)
        <5>1. "DELIVERED" \in ShipmentStatus /\ shipments[o] \in Seq(ShipmentStatus)
          BY <1>1 DEF ShipmentStatus
        <5> QED
          BY <2>3, <5>1, SeqExcept
      <4>2. DOMAIN shipments'[o] = 1..m
        BY <2>3, <3>1
      <4> QED
        BY <3>1, <4>1, <4>2, LenProperties
    <3>3. \A i \in 1..m : shipments[o][i] = "DELIVERED" => shipments'[o][i] = "DELIVERED"
      BY <2>3, <3>1
    <3> QED
      BY <1>1, <3>1, <3>2, <3>3 DEF Shipped, Delivered
  <2> QED
    BY <1>1, <2>2, <2>3 DEF Shipped, Delivered
<1>4. OrdersStep /\ (\A c \in Process : ~ShipCreate(c) /\ ~DeliverWrite(c)) => shipments' = shipments
  BY DEF OrdersStep, Request, Progress, PlaceRead, PatchRead, PayRead, ShipRead, DeliverRead,
     PlaceCommit, PlaceEnqueue, PayCreate, UpdateRead, UpdateDefault, UpdateCommit,
     UpdateDequeue, Throw, Fail, WorkerCrash, JobStart, orderVars
<1>5. OrdersStep \/ shipments' = shipments
  BY DEF Next, vars
<1>6. CASE shipments' = shipments
  BY <1>1, <1>6 DEF Shipped, Delivered
<1> QED
  BY <1>2, <1>3, <1>4, <1>5, <1>6

LEMMA InitAsk == Init => AskInv
BY DEF Init, AskInv, Idle

LEMMA StepAsk == IType /\ AskInv /\ [Next]_vars => AskInv'
<1> SUFFICES ASSUME IType, AskInv, [Next]_vars, NEW d \in Process
             PROVE  /\ call'[d].pc = "pay" => call'[d].to \in {"PAID", "PAYMENT_FAILED"}
                    /\ call'[d].pc = "ship" => call'[d].to = "SHIPPED"
                    /\ call'[d].pc = "deliver" =>
                         /\ call'[d].to = "DELIVERED"
                         /\ call'[d].shipment \in 1..Len(shipments'[call'[d].order])
  BY DEF AskInv
<1>T. shipments \in [Order -> Seq(ShipmentStatus)] /\ WellFormed(call[d])
      /\ shipments' \in [Order -> Seq(ShipmentStatus)]
  BY StepType DEF IType, TypeOK, CallTypeOK
<1>1. CASE call'[d] = call[d]
  <2>1. call[d].pc = "deliver" => Len(shipments[call[d].order]) <= Len(shipments'[call[d].order])
    BY <1>T, ShipmentsGrow DEF WellFormed
  <2>2. call[d].pc = "deliver" => /\ Len(shipments[call[d].order]) \in Nat
                                  /\ Len(shipments'[call[d].order]) \in Nat
    BY <1>T DEF WellFormed
  <2> QED
    BY <1>1, <2>1, <2>2 DEF AskInv
<1>2. CASE Rests(call'[d])
  BY <1>2 DEF Rests
<1>3. CASE AsksDelivery(d)
  BY <1>3 DEF AsksDelivery
<1>4. CASE Checks(d)
  BY <1>4 DEF Checks, Checked, Idle
<1>5. CASE Prepares(d) \/ Records(d)
  BY <1>5 DEF Prepares, Records
<1> QED
  BY <1>1, <1>2, <1>3, <1>4, <1>5, CallChanges


----------------------------------------------------------------------------
\* Who has a succeeded payment keeps it; a call that asks for PAID, or is past the check
\* of a transition beyond it, has one.
Settled(o) == payments[o]["SUCCEEDED"] > 0
PaidCall(c) ==
  \/ call[c].pc = "read" /\ call[c].to = "PAID"
  \/ call[c].pc \in {"default", "commit"} /\ call[c].to \in PaidLine
PaymentInv ==
  /\ \A o \in Order : status[o] \in PaidLine => Settled(o)
  /\ \A c \in Process : PaidCall(c) => Settled(call[c].order)

\* The status of an order changes by the opening of it or by what a call asks for.
LEMMA StatusChanges ==
  ASSUME IType, [Next]_vars, NEW o \in Order
  PROVE  \/ status'[o] = status[o]
         \/ status'[o] = "PENDING_PAYMENT"
         \/ \E c \in Process : /\ call[c].pc = "commit" /\ call[c].order = o
                               /\ status'[o] = call[c].to /\ UNCHANGED <<payments, shipments>>
<1>T. status \in [Order -> Status]
  BY DEF IType, TypeOK
<1>1. ASSUME NEW c \in Process, PlaceCommit(c) \/ UpdateCommit(c)
      PROVE  \/ status'[o] = status[o]
             \/ status'[o] = "PENDING_PAYMENT"
             \/ /\ call[c].pc = "commit" /\ call[c].order = o
                /\ status'[o] = call[c].to /\ UNCHANGED <<payments, shipments>>
  BY <1>T, <1>1 DEF PlaceCommit, UpdateCommit
<1>2. ASSUME OrdersStep, \A c \in Process : ~PlaceCommit(c) /\ ~UpdateCommit(c)
      PROVE  status' = status
  BY <1>2 DEF OrdersStep, Request, Progress, PlaceRead, PatchRead, PayRead, ShipRead, DeliverRead,
     PlaceEnqueue, PayCreate, ShipCreate, DeliverWrite, UpdateRead, UpdateDefault, UpdateDequeue,
     Throw, Fail, WorkerCrash, JobStart, orderVars
<1>3. OrdersStep \/ status' = status
  BY DEF Next, vars, orderVars
<1> QED
  BY <1>1, <1>2, <1>3

LEMMA PaymentsGrow ==
  ASSUME IType, [Next]_vars, NEW o \in Order, Settled(o)
  PROVE  Settled(o)'
<1>1. /\ payments \in [Order -> [PaymentStatus -> Nat]]
      /\ payments' \in [Order -> [PaymentStatus -> Nat]]
  BY StepType DEF IType, TypeOK
<1>2. ASSUME NEW c \in Process, PayCreate(c)
      PROVE  Settled(o)'
  <2> DEFINE p == call[c].order
             t == Outcome(call[c].to)
  <2>1. payments' = [payments EXCEPT ![p] = [payments[p] EXCEPT ![t] = payments[p][t] + 1]]
    BY <1>2 DEF PayCreate
  <2>2. t \in PaymentStatus
    BY DEF Outcome, PaymentStatus
  <2> HIDE DEF t
  <2>3. \A s \in PaymentStatus : payments'[o][s] >= payments[o][s]
    BY <1>1, <2>1, <2>2
  <2> QED
    BY <1>1, <2>3 DEF Settled, PaymentStatus
<1>3. OrdersStep /\ (\A c \in Process : ~PayCreate(c)) => payments' = payments
  BY DEF OrdersStep, Request, Progress, PlaceRead, PatchRead, PayRead, ShipRead, DeliverRead,
     PlaceCommit, PlaceEnqueue, ShipCreate, DeliverWrite, UpdateRead, UpdateDefault, UpdateCommit,
     UpdateDequeue, Throw, Fail, WorkerCrash, JobStart, orderVars
<1>4. OrdersStep \/ payments' = payments
  BY DEF Next, vars
<1> QED
  BY <1>2, <1>3, <1>4 DEF Settled

\* Unless staff write PAID by hand, no order is PAID or beyond without a succeeded payment,
\* however payments, cancellations and timeouts interleave (payments.service.ts:48).
THEOREM PaidOrdersWerePaid == Spec => []BackedByPayment
<1>1. CASE "PAID" \notin PatchTargets
  <2>1. Init => PaymentInv
    BY DEF Init, PaymentInv, PaidLine, PaidCall, Idle
  <2>2. IType /\ AskInv /\ PaymentInv /\ [Next]_vars => PaymentInv'
    <3> SUFFICES ASSUME IType, AskInv, PaymentInv, [Next]_vars
                 PROVE  PaymentInv'
      OBVIOUS
    <3>T. /\ call \in [Process -> CallRecord] /\ \A c \in Process : WellFormed(call[c])
          /\ payments \in [Order -> [PaymentStatus -> Nat]]
      BY DEF IType, TypeOK, CallTypeOK
    <3>1. ASSUME NEW o \in Order, status'[o] \in PaidLine
          PROVE  Settled(o)'
      <4>1. "PENDING_PAYMENT" \notin PaidLine
        BY DEF PaidLine
      <4> QED
        BY <3>1, <4>1, StatusChanges, PaymentsGrow DEF PaymentInv, PaidCall
    <3>2. ASSUME NEW d \in Process, PaidCall(d)'
          PROVE  Settled(call[d].order)'
      <4>1. CASE call'[d] = call[d]
        BY <3>T, <3>2, <4>1, PaymentsGrow DEF PaymentInv, PaidCall, WellFormed
      <4>2. ~Rests(call'[d]) /\ ~AsksDelivery(d)
        BY <3>2 DEF PaidCall, Rests, AsksDelivery
      <4>3. CASE Checks(d)
        <5>1. PICK o \in Order, to \in Status :
                /\ to \in PatchTargets \/ (call[d].pc = "read" /\ call[d].order = o /\ call[d].to = to)
                /\ canTransition(status[o], to) /\ call'[d] = Checked(o, to)
                /\ payments' = payments
          BY <4>3 DEF Checks
        <5>2. call'[d].order = o /\ call'[d].to = to /\ to \in PaidLine
          BY <3>2, <5>1 DEF Checked, PaidCall, Idle
        <5>3. to = "PAID" \/ status[o] \in PaidLine
          BY <5>1, <5>2 DEF canTransition, ALLOWED_TRANSITIONS, PaidLine
        <5> QED
          BY <1>1, <5>1, <5>2, <5>3 DEF PaymentInv, PaidCall, Settled
      <4>4. CASE Prepares(d)
        BY <3>T, <3>2, <4>4, PaymentsGrow DEF PaymentInv, PaidCall, Prepares, WellFormed
      <4>5. CASE Records(d)
        <5>1. call'[d].to = "PAID" /\ call'[d].order = call[d].order /\ call[d].to = "PAID"
          BY <3>2, <4>5 DEF Records, PaidCall
        <5> DEFINE p == call[d].order
        <5>2. CASE PayCreate(d)
          <6>1. payments' = [payments EXCEPT ![p] =
                  [payments[p] EXCEPT !["SUCCEEDED"] = payments[p]["SUCCEEDED"] + 1]]
            BY <5>1, <5>2 DEF PayCreate, Outcome
          <6>2. p \in Order
            BY <3>T, <5>2 DEF PayCreate, WellFormed
          <6> QED
            BY <3>T, <5>1, <6>1, <6>2 DEF Settled, PaymentStatus
        <5>3. CASE ShipCreate(d) \/ DeliverWrite(d)
          BY <5>1, <5>3 DEF AskInv, ShipCreate, DeliverWrite
        <5> QED
          BY <4>5, <5>2, <5>3 DEF Records
      <4> QED
        BY <4>1, <4>2, <4>3, <4>4, <4>5, CallChanges
    <3> QED
      BY <3>1, <3>2 DEF PaymentInv
  <2>3. PaymentInv => BackedByPayment
    BY DEF PaymentInv, BackedByPayment, Settled
  <2> QED
    BY InitType, StepType, InitAsk, StepAsk, <2>1, <2>2, <2>3, PTL DEF Spec
<1>2. CASE ~("PAID" \notin PatchTargets)
  <2>1. BackedByPayment
    BY <1>2 DEF BackedByPayment
  <2> QED
    BY <2>1, PTL
<1> QED
  BY <1>1, <1>2

----------------------------------------------------------------------------
\* An order that is or was shipped, and a call that is about to make it so, has what it
\* takes.
HasShipped(o, to) == /\ to \in ShippedLine => Shipped(o)
                     /\ to = "DELIVERED" => Delivered(o)
ShippingCall(c) ==
  \/ call[c].pc = "read" /\ call[c].to \in {"SHIPPED", "DELIVERED"}
  \/ call[c].pc \in {"default", "commit"}
ShippingInv ==
  /\ \A o \in Order : HasShipped(o, status[o])
  /\ \A c \in Process : ShippingCall(c) => HasShipped(call[c].order, call[c].to)

\* Unless staff write SHIPPED or DELIVERED by hand, an order that is or was shipped has a
\* shipment and a delivered one a delivered shipment, however calls interleave
\* (shipments.service.ts:27, shipments.service.ts:67).
THEOREM ShippedOrdersWereShipped == Spec => []BackedByShipment
<1>1. CASE {"SHIPPED", "DELIVERED"} \cap PatchTargets = {}
  <2>1. Init => ShippingInv
    BY DEF Init, ShippingInv, ShippedLine, ShippingCall, HasShipped, Idle
  <2>2. IType /\ AskInv /\ ShippingInv /\ [Next]_vars => ShippingInv'
    <3> SUFFICES ASSUME IType, AskInv, ShippingInv, [Next]_vars
                 PROVE  ShippingInv'
      OBVIOUS
    <3>T. /\ call \in [Process -> CallRecord] /\ \A c \in Process : WellFormed(call[c])
          /\ shipments \in [Order -> Seq(ShipmentStatus)]
      BY DEF IType, TypeOK, CallTypeOK
    <3>0. ASSUME NEW o \in Order, NEW to, HasShipped(o, to)
          PROVE  HasShipped(o, to)'
      BY <3>0, ShipmentsGrow DEF HasShipped
    <3>1. ASSUME NEW o \in Order
          PROVE  HasShipped(o, status[o])'
      <4>1. CASE status'[o] = status[o]
        BY <3>0, <4>1 DEF ShippingInv, HasShipped
      <4>2. CASE status'[o] = "PENDING_PAYMENT"
        BY <4>2 DEF HasShipped, ShippedLine
      <4>3. ASSUME NEW c \in Process, call[c].pc = "commit", call[c].order = o,
                   status'[o] = call[c].to, UNCHANGED shipments
            PROVE  HasShipped(o, status[o])'
        BY <4>3 DEF ShippingInv, ShippingCall, HasShipped, Shipped, Delivered
      <4> QED
        BY <4>1, <4>2, <4>3, StatusChanges
    <3>2. ASSUME NEW d \in Process, ShippingCall(d)'
          PROVE  HasShipped(call[d].order, call[d].to)'
      <4>0. ASSUME ShippingCall(d), call[d].order \in Order,
                   call'[d].order = call[d].order, call'[d].to = call[d].to
            PROVE  HasShipped(call[d].order, call[d].to)'
        <5>1. HasShipped(call[d].order, call[d].to)
          BY <4>0 DEF ShippingInv
        <5> QED
          BY <4>0, <5>1, ShipmentsGrow DEF HasShipped, Shipped, Delivered
      <4>1. CASE call'[d] = call[d]
        BY <3>T, <3>2, <4>0, <4>1 DEF ShippingCall, WellFormed
      <4>2. ~Rests(call'[d]) /\ ~AsksDelivery(d)
        BY <3>2 DEF ShippingCall, Rests, AsksDelivery
      <4>3. CASE Checks(d)
        <5>1. PICK o \in Order, to \in Status :
                /\ to \in PatchTargets \/ (call[d].pc = "read" /\ call[d].order = o /\ call[d].to = to)
                /\ canTransition(status[o], to) /\ call'[d] = Checked(o, to)
                /\ shipments' = shipments
          BY <4>3 DEF Checks
        <5>2. call'[d].order = o /\ call'[d].to = to
          BY <5>1 DEF Checked, Idle
        <5>3. to \in {"SHIPPED", "DELIVERED"} => HasShipped(o, to)
          BY <1>1, <5>1 DEF ShippingInv, ShippingCall
        <5>4. to \in ShippedLine \ {"SHIPPED", "DELIVERED"} => status[o] \in ShippedLine
          BY <5>1 DEF canTransition, ALLOWED_TRANSITIONS, ShippedLine
        <5>5. HasShipped(o, to)
          BY <5>3, <5>4 DEF ShippingInv, HasShipped, ShippedLine
        <5> QED
          BY <5>1, <5>2, <5>5 DEF HasShipped, Shipped, Delivered
      <4>4. CASE Prepares(d)
        BY <3>T, <4>0, <4>4 DEF ShippingCall, Prepares, WellFormed
      <4>5. CASE Records(d)
        <5>1. /\ call'[d].to \in {"SHIPPED", "DELIVERED"} /\ call'[d].order = call[d].order
              /\ call[d].to = call'[d].to
          BY <3>2, <4>5 DEF Records, ShippingCall
        <5> DEFINE p == call[d].order
                   n == call[d].shipment
        <5>2. CASE PayCreate(d)
          BY <5>1, <5>2 DEF AskInv, PayCreate
        <5>3. CASE ShipCreate(d)
          <6>1. shipments' = [shipments EXCEPT ![p] = Append(shipments[p], "SHIPPED")]
            BY <5>3 DEF ShipCreate
          <6>2. p \in Order /\ call[d].to = "SHIPPED"
            BY <3>T, <5>3 DEF ShipCreate, WellFormed, AskInv
          <6>3. shipments'[p] = Append(shipments[p], "SHIPPED") /\ shipments[p] \in Seq(ShipmentStatus)
            BY <3>T, <6>1, <6>2
          <6>4. Append(shipments[p], "SHIPPED") # <<>>
            BY <6>3 DEF ShipmentStatus
          <6> QED
            BY <5>1, <6>2, <6>3, <6>4 DEF HasShipped, Shipped
        <5>4. CASE DeliverWrite(d)
          <6>1. shipments' = [shipments EXCEPT ![p] = [shipments[p] EXCEPT ![n] = "DELIVERED"]]
            BY <5>4 DEF DeliverWrite
          <6>2. p \in Order /\ n \in 1..Len(shipments[p])
            BY <3>T, <5>4 DEF DeliverWrite, WellFormed, AskInv
          <6>3. /\ shipments'[p][n] = "DELIVERED"
                /\ Len(shipments[p]) <= Len(shipments'[p])
            BY <3>T, <6>1, <6>2, ShipmentsGrow
          <6>4. Len(shipments[p]) \in Nat /\ Len(shipments'[p]) \in Nat
            BY <6>2, StepType DEF IType, TypeOK
          <6>5. n \in 1..Len(shipments'[p])
            BY <6>2, <6>3, <6>4
          <6> QED
            BY <5>1, <6>3, <6>5 DEF HasShipped, Shipped, Delivered
        <5> QED
          BY <4>5, <5>2, <5>3, <5>4 DEF Records
      <4> QED
        BY <4>1, <4>2, <4>3, <4>4, <4>5, CallChanges
    <3> QED
      BY <3>1, <3>2 DEF ShippingInv
  <2>3. ShippingInv => BackedByShipment
    BY DEF ShippingInv, BackedByShipment, HasShipped, Shipped, Delivered
  <2> QED
    BY InitType, StepType, InitAsk, StepAsk, <2>1, <2>2, <2>3, PTL DEF Spec
<1>2. CASE {"SHIPPED", "DELIVERED"} \cap PatchTargets # {}
  <2>1. BackedByShipment
    BY <1>2 DEF BackedByShipment
  <2> QED
    BY <2>1, PTL
<1> QED
  BY <1>1, <1>2

----------------------------------------------------------------------------
(* The stock-release job, with one warehouse and without faults.              *)

\* An order that has left PENDING_PAYMENT comes back to it only by being reopened.
LeavesForGood ==
  \A o \in Order :
    /\ \A i \in 1..Len(history[o]) : history[o][i].to # "DRAFT"
    /\ Len(history[o]) >= 2 /\ NeverReopened(o) => status[o] # "PENDING_PAYMENT"
\* A call about to take a job out of the queue has moved its order.
DequeuesMoved ==
  \A c \in Process : call[c].pc = "dequeue" => Len(history[call[c].order]) >= 2
\* The worker only cancels.
WorkerCancels ==
  /\ call[Worker].pc \in {"idle", "read", "default", "commit", "dequeue"}
  /\ call[Worker].pc \in {"read", "default", "commit"} => call[Worker].to = "CANCELLED"
\* What the transaction of updateStatus may look for is there.
RowsThere ==
  /\ \A o \in Order : Placed(o) => RowsOf(items[o], 1) \subseteq rows
  /\ active = {1}
  /\ \A a \in Admin : updating[a] # NoUpdate => updating[a].isActive

LEMMA NeverReopenedBefore ==
  ASSUME IType, IHistory, [Next]_vars, NEW o \in Order, NeverReopened(o)'
  PROVE  NeverReopened(o)
<1>1. history \in [Order -> Seq(HistoryRow)]
  BY DEF IType, TypeOK
<1>2. ASSUME NEW i \in 2..Len(history[o])
      PROVE  ~Reopens(history[o][i].from, history[o][i].to)
  <2>1. i \in 1..Len(history[o])
    BY <1>1
  <2>2. i \in 1..Len(history'[o]) /\ history'[o][i] = history[o][i]
    BY <2>1, HistoryGrows
  <2>3. i \in 2..Len(history'[o])
    BY <2>2
  <2> QED
    BY <2>2, <2>3 DEF NeverReopened
<1> QED
  BY <1>2 DEF NeverReopened

LEMMA LeavesStep ==
  ASSUME IType, IHistory, LeavesForGood, [Next]_vars
  PROVE  LeavesForGood'
<1>T. history \in [Order -> Seq(HistoryRow)] /\ status \in [Order -> Status]
  BY DEF IType, TypeOK
<1>1. ASSUME NEW o \in Order, UNCHANGED <<status[o], history[o]>>
      PROVE  /\ \A i \in 1..Len(history'[o]) : history'[o][i].to # "DRAFT"
             /\ Len(history'[o]) >= 2 /\ NeverReopened(o)' => status'[o] # "PENDING_PAYMENT"
  BY <1>1 DEF LeavesForGood, NeverReopened
<1>2. ASSUME NEW p \in Order, Opened(p)
      PROVE  LeavesForGood'
  <2>1. history'[p] = <<Row("none", "PENDING_PAYMENT")>>
    BY <1>T, <1>2 DEF Opened
  <2>2. \A o \in Order \ {p} : UNCHANGED <<status[o], history[o]>>
    BY <1>T, <1>2 DEF Opened
  <2>3. Len(history'[p]) = 1 /\ history'[p][1].to = "PENDING_PAYMENT"
    BY <2>1 DEF Row
  <2>4. /\ \A i \in 1..Len(history'[p]) : history'[p][i].to # "DRAFT"
        /\ ~(Len(history'[p]) >= 2)
    BY <2>3
  <2> QED
    BY <1>1, <2>2, <2>4 DEF LeavesForGood
<1>3. ASSUME NEW p \in Order, NEW from \in OrderStatus, NEW to \in OrderStatus,
             Moved(p, from, to)
      PROVE  LeavesForGood'
  <2> DEFINE n == Len(history[p])
  <2>1. /\ history'[p] = Append(history[p], Row(from, to)) /\ status'[p] = to
        /\ \A o \in Order \ {p} : UNCHANGED <<status[o], history[o]>>
    BY <1>T, <1>3 DEF Moved
  <2>2. Row(from, to) \in HistoryRow /\ Row(from, to).to = to /\ Row(from, to).from = from
    BY DEF Row, HistoryRow, Status
  <2>3. /\ n \in Nat /\ Len(history'[p]) = n + 1 /\ history'[p][n + 1] = Row(from, to)
        /\ \A i \in 1..n : history'[p][i] = history[p][i]
    BY <1>T, <2>1, <2>2
  <2>4. from # "DRAFT" /\ to # "DRAFT" /\ n > 0
    BY <1>3, <2>3 DEF Moved, LeavesForGood, canTransition, ALLOWED_TRANSITIONS
  <2>5. to = "PENDING_PAYMENT" => Reopens(from, to)
    BY <1>3, <2>4 DEF Moved, canTransition, ALLOWED_TRANSITIONS, Reopens, stockPhaseFor
  <2>6. NeverReopened(p)' => ~Reopens(from, to)
    <3>1. n + 1 \in 2..Len(history'[p])
      BY <2>3, <2>4
    <3> QED
      BY <2>2, <2>3, <3>1 DEF NeverReopened
  <2>7. \A i \in 1..Len(history'[p]) : history'[p][i].to # "DRAFT"
    <3>1. \A i \in 1..(n + 1) : i \in 1..n \/ i = n + 1
      BY <2>3
    <3> QED
      BY <2>2, <2>3, <2>4, <3>1 DEF LeavesForGood
  <2> QED
    BY <1>1, <2>1, <2>5, <2>6, <2>7 DEF LeavesForGood
<1>4. CASE UNCHANGED <<status, history, held, taken>>
  BY <1>1, <1>4 DEF LeavesForGood
<1> QED
  BY <1>2, <1>3, <1>4, OrderChanges

\* The record of a call that comes to take a job out, or that is the worker's.
LEMMA DequeueStep ==
  ASSUME IType, IHistory, DequeuesMoved, WorkerCancels, [Next]_vars
  PROVE  DequeuesMoved' /\ WorkerCancels'
<1>T. /\ call \in [Process -> CallRecord] /\ \A c \in Process : WellFormed(call[c])
      /\ history \in [Order -> Seq(HistoryRow)] /\ history' \in [Order -> Seq(HistoryRow)]
      /\ Worker \in Process /\ (\A c \in Call : c # Worker /\ c \in Process)
  BY StepType, OrdersAssumption DEF IType, TypeOK, CallTypeOK, Process
<1>0. ASSUME NEW o \in Order, Len(history[o]) >= 2
      PROVE  Len(history'[o]) >= 2
  <2>1. 2 \in 1..Len(history[o])
    BY <1>T, <1>0
  <2>2. 2 \in 1..Len(history'[o])
    BY <2>1, HistoryGrows
  <2> QED
    BY <1>T, <2>2
<1> DEFINE Good(r) == r.pc = "dequeue" => Len(history'[r.order]) >= 2
           Cancels(r) == /\ r.pc \in {"idle", "read", "default", "commit", "dequeue"}
                         /\ r.pc \in {"read", "default", "commit"} => r.to = "CANCELLED"
<1>1. ASSUME NEW d \in Process
      PROVE  Good(call[d])
  BY <1>T, <1>0 DEF DequeuesMoved, WellFormed
<1>2. ASSUME NEW c \in Process, NEW r, call' = [call EXCEPT ![c] = r], Good(r),
             c = Worker => Cancels(r)
      PROVE  DequeuesMoved' /\ WorkerCancels'
  BY <1>T, <1>1, <1>2 DEF DequeuesMoved, WorkerCancels
<1> HIDE DEF Good, Cancels
<1>I. Good(Idle) /\ Cancels(Idle)
  BY DEF Good, Cancels, Idle
<1>3. ASSUME NEW c \in Call, NEW r, call' = [call EXCEPT ![c] = r], r.pc # "dequeue"
      PROVE  DequeuesMoved' /\ WorkerCancels'
  BY <1>T, <1>2, <1>3 DEF Good
<1>4. ASSUME NEW c \in Call, Request(c)
      PROVE  DequeuesMoved' /\ WorkerCancels'
  <2>1. ASSUME NEW o \in Order, NEW q \in Carts, NEW w \in Warehouse, PlaceRead(c, o, q, w)
        PROVE  DequeuesMoved' /\ WorkerCancels'
    <3>1. call' = [call EXCEPT ![c] = [Idle EXCEPT !.pc = "reserve", !.order = o, !.items = q, !.wh = w]]
      BY <2>1 DEF PlaceRead
    <3>2. [Idle EXCEPT !.pc = "reserve", !.order = o, !.items = q, !.wh = w].pc # "dequeue"
      BY DEF Idle
    <3> QED
      BY <1>3, <3>1, <3>2
  <2>2. ASSUME NEW o \in Order, NEW to \in PatchTargets, PatchRead(c, o, to)
        PROVE  DequeuesMoved' /\ WorkerCancels'
    <3>1. call' = [call EXCEPT ![c] = Checked(o, to)]
      BY <2>2 DEF PatchRead
    <3>2. Checked(o, to).pc # "dequeue"
      BY DEF Idle, Checked
    <3> QED
      BY <1>3, <3>1, <3>2
  <2>3. ASSUME NEW o \in Order, NEW succeeded \in BOOLEAN, PayRead(c, o, succeeded)
        PROVE  DequeuesMoved' /\ WorkerCancels'
    <3> DEFINE t == IF succeeded THEN "PAID" ELSE "PAYMENT_FAILED"
    <3>1. call' = [call EXCEPT ![c] = [Idle EXCEPT !.pc = "pay", !.order = o, !.to = t]]
      BY <2>3 DEF PayRead
    <3> HIDE DEF t
    <3>2. [Idle EXCEPT !.pc = "pay", !.order = o, !.to = t].pc # "dequeue"
      BY DEF Idle
    <3> QED
      BY <1>3, <3>1, <3>2
  <2>4. ASSUME NEW o \in Order, ShipRead(c, o)
        PROVE  DequeuesMoved' /\ WorkerCancels'
    <3>1. call' = [call EXCEPT ![c] = [Idle EXCEPT !.pc = "ship", !.order = o, !.to = "SHIPPED"]]
      BY <2>4 DEF ShipRead
    <3>2. [Idle EXCEPT !.pc = "ship", !.order = o, !.to = "SHIPPED"].pc # "dequeue"
      BY DEF Idle
    <3> QED
      BY <1>3, <3>1, <3>2
  <2>5. ASSUME NEW o \in Order, NEW i \in 1..Len(shipments[o]), DeliverRead(c, o, i)
        PROVE  DequeuesMoved' /\ WorkerCancels'
    <3>1. call' = [call EXCEPT ![c] = [Idle EXCEPT !.pc = "deliver", !.order = o, !.to = "DELIVERED",
                                               !.shipment = i]]
      BY <2>5 DEF DeliverRead
    <3>2. [Idle EXCEPT !.pc = "deliver", !.order = o, !.to = "DELIVERED", !.shipment = i].pc # "dequeue"
      BY DEF Idle
    <3> QED
      BY <1>3, <3>1, <3>2
  <2> QED
    BY <1>4, <2>1, <2>2, <2>3, <2>4, <2>5 DEF Request
<1>5. ASSUME NEW c \in Process, UpdateRead(c)
      PROVE  DequeuesMoved' /\ WorkerCancels'
  <2>1. call' = [call EXCEPT ![c] = Checked(call[c].order, call[c].to)] /\ call[c].pc = "read"
    BY <1>5 DEF UpdateRead
  <2>2. Good(Checked(call[c].order, call[c].to))
    BY DEF Checked, Good, Idle
  <2>3. c = Worker => Cancels(Checked(call[c].order, call[c].to))
    BY <2>1 DEF Checked, Cancels, Idle, WorkerCancels
  <2> QED
    BY <1>2, <2>1, <2>2, <2>3
<1>6. ASSUME NEW c \in Process, NEW w \in Warehouse, UpdateDefault(c, w)
      PROVE  DequeuesMoved' /\ WorkerCancels'
  <2> DEFINE r == [call[c] EXCEPT !.pc = "commit", !.wh = w]
  <2>1. call' = [call EXCEPT ![c] = r] /\ call[c].pc = "default"
    BY <1>6 DEF UpdateDefault
  <2>2. r.pc = "commit" /\ r.to = call[c].to
    BY <1>T DEF CallRecord
  <2>3. Good(r) /\ (c = Worker => Cancels(r))
    BY <2>1, <2>2 DEF Good, Cancels, WorkerCancels
  <2> QED
    BY <1>2, <2>1, <2>3
<1>7. ASSUME NEW c \in Process,
             PlaceCommit(c) \/ PlaceEnqueue(c) \/ PayCreate(c) \/ ShipCreate(c) \/ DeliverWrite(c)
      PROVE  DequeuesMoved' /\ WorkerCancels'
  <2>1. c \in Call
    BY <1>7 DEF PlaceCommit, PlaceEnqueue, PayCreate, ShipCreate, DeliverWrite, WorkerCancels, Process
  <2>2. CASE PlaceCommit(c) \/ PlaceEnqueue(c)
    <3>1. \/ call' = [call EXCEPT ![c] = [Idle EXCEPT !.pc = "enqueue", !.order = call[c].order]]
          \/ call' = [call EXCEPT ![c] = Idle]
      BY <2>2 DEF PlaceCommit, PlaceEnqueue
    <3>2. /\ [Idle EXCEPT !.pc = "enqueue", !.order = call[c].order].pc # "dequeue"
          /\ Idle.pc # "dequeue"
      BY DEF Idle
    <3> QED
      BY <1>3, <2>1, <3>1, <3>2
  <2>3. CASE PayCreate(c) \/ ShipCreate(c) \/ DeliverWrite(c)
    <3>1. \/ call' = [call EXCEPT ![c] = [call[c] EXCEPT !.pc = "read"]]
          \/ call' = [call EXCEPT ![c] = [call[c] EXCEPT !.pc = "read", !.shipment = 0]]
      BY <2>3 DEF PayCreate, ShipCreate, DeliverWrite
    <3>2. /\ [call[c] EXCEPT !.pc = "read"].pc # "dequeue"
          /\ [call[c] EXCEPT !.pc = "read", !.shipment = 0].pc # "dequeue"
      BY <1>T DEF CallRecord
    <3> QED
      BY <1>3, <2>1, <3>1, <3>2
  <2> QED
    BY <1>7, <2>2, <2>3
<1>8. ASSUME NEW c \in Process, UpdateCommit(c)
      PROVE  DequeuesMoved' /\ WorkerCancels'
  <2> DEFINE o == call[c].order
             r == [Idle EXCEPT !.pc = "dequeue", !.order = o]
  <2>1. o \in Order /\ \E i \in 1..Len(history[o]) : history[o][i].to = call[c].from
    BY <1>T, <1>8 DEF UpdateCommit, WellFormed, IHistory, PendingInv
  <2>2. Row(call[c].from, call[c].to) \in HistoryRow
    BY <1>T DEF Row, HistoryRow, CallRecord
  <2>3. history'[o] = Append(history[o], Row(call[c].from, call[c].to))
    BY <1>T, <1>8, <2>1 DEF UpdateCommit
  <2>4. Len(history'[o]) >= 2
    BY <1>T, <2>1, <2>2, <2>3
  <2>5. Good(r) /\ Cancels(r)
    BY <2>4 DEF Good, Cancels, Idle
  <2>6. call' = [call EXCEPT ![c] = Idle] \/ call' = [call EXCEPT ![c] = r]
    BY <1>8 DEF UpdateCommit, Finish
  <2> HIDE DEF r
  <2> QED
    BY <1>2, <1>I, <2>5, <2>6
<1>9. ASSUME NEW c \in Process, UpdateDequeue(c) \/ Throw(c) \/ Fail(c)
      PROVE  DequeuesMoved' /\ WorkerCancels'
  BY <1>2, <1>I, <1>9 DEF UpdateDequeue, Throw, Fail, Finish
<1>10. ASSUME NEW o \in Order, JobStart(o)
       PROVE  DequeuesMoved' /\ WorkerCancels'
  <2> DEFINE r == [Idle EXCEPT !.pc = "read", !.order = o, !.to = "CANCELLED"]
  <2>1. call' = [call EXCEPT ![Worker] = r] \/ call' = call
    BY <1>10 DEF JobStart
  <2>2. Good(r) /\ Cancels(r)
    BY DEF Good, Cancels, Idle
  <2>3. CASE call' = call
    BY <1>1, <2>3 DEF Good, DequeuesMoved, WorkerCancels
  <2> HIDE DEF r
  <2> QED
    BY <1>2, <1>T, <2>1, <2>2, <2>3
<1>11. ASSUME WorkerCrash
       PROVE  DequeuesMoved' /\ WorkerCancels'
  BY <1>2, <1>I, <1>T, <1>11 DEF WorkerCrash
<1>12. CASE UNCHANGED call
  BY <1>1, <1>12 DEF Good, DequeuesMoved, WorkerCancels
<1>13. OrdersStep \/ UNCHANGED call
  BY DEF Next, vars
<1> QED
  BY <1>4, <1>5, <1>6, <1>7, <1>8, <1>9, <1>10, <1>11, <1>12, <1>13 DEF OrdersStep, Progress

LEMMA RowsStep ==
  ASSUME MaxWarehouses = 1, IType, IHistory, RowsThere, [Next]_vars
  PROVE  RowsThere'
<1>T. /\ call \in [Process -> CallRecord] /\ \A c \in Process : WellFormed(call[c])
      /\ status \in [Order -> Status] /\ items \in [Order -> [Variant -> Nat]]
      /\ Warehouse = {1} /\ created = 1 /\ updating \in [Admin -> Update(1)]
  BY DEF IType, TypeOK, CallTypeOK, WarehousesTypeOK, Warehouse
<1>1. rows \subseteq rows'
  <2>1. CASE OrdersStep
    BY <2>1, StockStep DEF stockVars, Reserve, Release, Deduct, ReturnStock
  <2>2. CASE StockroomNext
    BY <2>2 DEF StockroomNext, Receive, AdjustRead, AdjustWrite, AdjustFail, stockVars
  <2>3. CASE UNCHANGED inventoryVars
    BY <2>3 DEF inventoryVars
  <2> QED
    BY <2>1, <2>2, <2>3 DEF Next, vars
<1>2. ASSUME NEW c \in Process, PlaceCommit(c), NEW o \in Order, Placed(o)'
      PROVE  RowsOf(items'[o], 1) \subseteq rows'
  <2> DEFINE p == call[c].order
             q == call[c].items
  <2>1. p \in Order /\ call[c].wh = 1 /\ q \in [Variant -> Nat]
    BY <1>T, <1>2 DEF PlaceCommit, WellFormed, CallRecord
  <2>2. /\ rows' = rows \cup RowsOf(q, 1)
        /\ items' = [items EXCEPT ![p] = q]
        /\ status' = [status EXCEPT ![p] = "PENDING_PAYMENT"]
    BY <1>2, <2>1 DEF PlaceCommit, Reserve
  <2>3. CASE o = p
    BY <1>T, <2>1, <2>2, <2>3
  <2>4. CASE o # p
    BY <1>T, <1>2, <2>1, <2>2, <2>4 DEF RowsThere, Placed
  <2> QED
    BY <2>3, <2>4
<1>3. ASSUME NEW c \in Process, UpdateCommit(c), NEW o \in Order, Placed(o)'
      PROVE  RowsOf(items'[o], 1) \subseteq rows'
  <2> DEFINE p == call[c].order
  <2>1. p \in Order /\ history[p] # <<>>
    BY <1>T, <1>3 DEF UpdateCommit, WellFormed, IHistory, PendingInv
  <2>2. Placed(p)
    BY <2>1 DEF IHistory, HistoryInv
  <2>3. Placed(o)
    BY <1>T, <1>3, <2>1, <2>2 DEF UpdateCommit, Placed
  <2>4. items' = items
    BY <1>3 DEF UpdateCommit
  <2> QED
    BY <1>1, <2>3, <2>4 DEF RowsThere
<1>4. ASSUME OrdersStep, \A c \in Process : ~PlaceCommit(c) /\ ~UpdateCommit(c)
      PROVE  UNCHANGED <<status, items>>
  BY <1>4 DEF OrdersStep, Request, Progress, PlaceRead, PatchRead, PayRead, ShipRead, DeliverRead,
     PlaceEnqueue, PayCreate, ShipCreate, DeliverWrite, UpdateRead, UpdateDefault, UpdateDequeue,
     Throw, Fail, WorkerCrash, JobStart, orderVars
<1>5. OrdersStep \/ UNCHANGED <<status, items>>
  BY DEF Next, vars, orderVars
<1>6. UNCHANGED <<status, items>> => \A o \in Order : Placed(o)' => RowsOf(items'[o], 1) \subseteq rows'
  BY <1>1 DEF RowsThere, Placed
<1>7. \A o \in Order : Placed(o)' => RowsOf(items'[o], 1) \subseteq rows'
  BY <1>2, <1>3, <1>4, <1>5, <1>6
<1>8. active' = {1} /\ \A a \in Admin : updating'[a] # NoUpdate => updating'[a].isActive
  <2>1. CASE UNCHANGED warehouseVars
    BY <2>1 DEF warehouseVars, RowsThere
  <2>2. ASSUME NEW isActive \in BOOLEAN, CreateWarehouse(isActive)
        PROVE  FALSE
    BY <1>T, <2>2 DEF CreateWarehouse
  <2>3. ASSUME NEW a \in Admin, NEW w \in Warehouse, NEW isActive \in BOOLEAN,
               UpdateWarehouseRead(a, w, isActive)
        PROVE  active' = {1} /\ \A b \in Admin : updating'[b] # NoUpdate => updating'[b].isActive
    <3>1. isActive
      BY <1>T, <2>3 DEF UpdateWarehouseRead, MayDisable, RowsThere
    <3> QED
      BY <1>T, <2>3, <3>1 DEF UpdateWarehouseRead, RowsThere
  <2>4. ASSUME NEW a \in Admin, UpdateWarehouseWrite(a)
        PROVE  active' = {1} /\ \A b \in Admin : updating'[b] # NoUpdate => updating'[b].isActive
    <3>1. updating[a].isActive /\ updating[a].wh = 1
      BY <1>T, <2>4 DEF UpdateWarehouseWrite, RowsThere, Update
    <3> QED
      BY <1>T, <2>4, <3>1 DEF UpdateWarehouseWrite, RowsThere
  <2>5. ASSUME NEW a \in Admin, UpdateWarehouseFail(a)
        PROVE  active' = {1} /\ \A b \in Admin : updating'[b] # NoUpdate => updating'[b].isActive
    BY <1>T, <2>5 DEF UpdateWarehouseFail, RowsThere
  <2>6. WarehousesNext \/ UNCHANGED warehouseVars
    BY DEF Next, vars
  <2> QED
    BY <2>1, <2>2, <2>3, <2>4, <2>5, <2>6 DEF WarehousesNext
<1> QED
  BY <1>7, <1>8 DEF RowsThere

----------------------------------------------------------------------------
\* A pending order's job waits, runs, or is about to be added.
Pending(o) == status[o] = "PENDING_PAYMENT" /\ NeverReopened(o)
Timed(o) ==
  \/ job[o] \in {"delayed", "active"}
  \/ \E c \in Call : call[c].pc = "enqueue" /\ call[c].order = o
TimeoutInv ==
  /\ LeavesForGood /\ DequeuesMoved /\ WorkerCancels /\ RowsThere
  /\ \A o \in Order : Pending(o) => Timed(o)

LEMMA TimedStep ==
  ASSUME MaxWarehouses = 1, ~Faults, IType, IHistory, TimeoutInv, LeavesForGood', [Next]_vars,
         NEW o \in Order, Pending(o)'
  PROVE  Timed(o)'
<1>T. /\ call \in [Process -> CallRecord] /\ \A c \in Process : WellFormed(call[c])
      /\ status \in [Order -> Status] /\ job \in [Order -> JobState]
      /\ history \in [Order -> Seq(HistoryRow)]
      /\ Worker \in Process /\ (\A c \in Call : c # Worker /\ c \in Process)
      /\ Warehouse = {1}
  BY OrdersAssumption DEF IType, TypeOK, CallTypeOK, Process, Warehouse
<1>N. NeverReopened(o) /\ ~(Len(history'[o]) >= 2)
  BY NeverReopenedBefore DEF Pending, LeavesForGood
\* Whoever is about to add the job still is, and the job and the order are as they were.
<1>K. ASSUME status'[o] = status[o], job'[o] = job[o],
             \A c \in Call : call[c].pc = "enqueue" /\ call[c].order = o => call'[c] = call[c]
      PROVE  Timed(o)'
  BY <1>N, <1>K DEF TimeoutInv, Pending, Timed
<1>E. ASSUME NEW c \in Process, NEW r, call' = [call EXCEPT ![c] = r],
             c \in Call => call[c].pc # "enqueue"
      PROVE  \A d \in Call : call[d].pc = "enqueue" => call'[d] = call[d]
  BY <1>T, <1>E
<1>1. ASSUME NEW c \in Process, PlaceCommit(c)
      PROVE  Timed(o)'
  <2> DEFINE p == call[c].order
             r == [Idle EXCEPT !.pc = "enqueue", !.order = p]
  <2>1. /\ c \in Call /\ call' = [call EXCEPT ![c] = r] /\ call[c].pc = "reserve"
        /\ status' = [status EXCEPT ![p] = "PENDING_PAYMENT"] /\ job' = job
    BY <1>1 DEF PlaceCommit, TimeoutInv, WorkerCancels, Process
  <2>2. r.pc = "enqueue" /\ r.order = p
    BY DEF Idle
  <2> HIDE DEF r
  <2>3. CASE p = o
    BY <1>T, <2>1, <2>2, <2>3 DEF Timed
  <2>4. CASE p # o
    BY <1>E, <1>K, <1>T, <2>1, <2>4
  <2> QED
    BY <2>3, <2>4
<1>2. ASSUME NEW c \in Process, PlaceEnqueue(c)
      PROVE  Timed(o)'
  <2>1. CASE call[c].order = o
    BY <1>T, <1>2, <2>1 DEF PlaceEnqueue, Timed
  <2>2. CASE call[c].order # o
    BY <1>K, <1>T, <1>2, <2>2 DEF PlaceEnqueue, orderVars
  <2> QED
    BY <2>1, <2>2
\* The end of a call other than the worker's on o itself.
<1>F. ASSUME NEW c \in Process, Finish(c), status'[o] = status[o], call[c].pc # "enqueue",
             c = Worker => call[c].order # o
      PROVE  Timed(o)'
  BY <1>E, <1>K, <1>T, <1>F DEF Finish
<1>3. ASSUME NEW c \in Process, UpdateCommit(c)
      PROVE  Timed(o)'
  <2> DEFINE p == call[c].order
  <2>1. p \in Order /\ call[c].pc = "commit" /\ history[p] # <<>>
    BY <1>T, <1>3 DEF UpdateCommit, WellFormed, IHistory, PendingInv
  <2>2. history' = [history EXCEPT ![p] = Append(history[p], Row(call[c].from, call[c].to))]
    BY <1>3 DEF UpdateCommit
  <2>3. Row(call[c].from, call[c].to) \in HistoryRow
    BY <1>T DEF Row, HistoryRow, CallRecord
  <2>4. p # o
    <3>1. Len(history'[p]) >= 2
      BY <1>T, <2>1, <2>2, <2>3
    <3> QED
      BY <1>N, <3>1
  <2>5. status'[o] = status[o]
    BY <1>3, <2>4, <1>T DEF UpdateCommit
  <2>6. \/ Finish(c)
        \/ call' = [call EXCEPT ![c] = [Idle EXCEPT !.pc = "dequeue", !.order = p]] /\ job' = job
    BY <1>3 DEF UpdateCommit
  <2> QED
    BY <1>E, <1>F, <1>K, <2>1, <2>4, <2>5, <2>6
<1>4. ASSUME NEW c \in Process, UpdateDequeue(c)
      PROVE  Timed(o)'
  <2>1. /\ call[c].pc = "dequeue" /\ call' = [call EXCEPT ![c] = Idle]
        /\ UNCHANGED <<status, history>>
        /\ job' = job \/ job' = [job EXCEPT ![call[c].order] = "gone"]
    BY <1>4 DEF UpdateDequeue, orderVars
  <2>2. call[c].order # o
    BY <1>N, <2>1 DEF TimeoutInv, DequeuesMoved
  <2> QED
    BY <1>E, <1>K, <1>T, <2>1, <2>2
<1>5. ASSUME NEW c \in Process, Throw(c)
      PROVE  Timed(o)'
  <2>1. UNCHANGED status /\ call[c].pc # "enqueue" /\ Finish(c)
    BY <1>5 DEF Throw, Rejected, orderVars
  <2>2. ASSUME c = Worker, call[c].order = o
        PROVE  FALSE
    <3>1. status[o] = "PENDING_PAYMENT"
      BY <2>1 DEF Pending
    <3>2. call[c].pc # "reserve"
      BY <2>2 DEF TimeoutInv, WorkerCancels
    <3>3. ~(call[c].pc = "read" /\ ~CheckTransition(o, call[c].to))
      BY <2>2, <3>1 DEF TimeoutInv, WorkerCancels, CheckTransition, canTransition, ALLOWED_TRANSITIONS
    <3>4. active # {}
      BY DEF TimeoutInv, RowsThere
    <3>5. call[c].pc = "commit" => RowsOf(items[o], call[c].wh) \subseteq rows
      BY <1>T, <3>1 DEF TimeoutInv, RowsThere, WellFormed, Placed
    <3> QED
      BY <1>5, <2>2, <3>2, <3>3, <3>4, <3>5 DEF Throw, Rejected
  <2> QED
    BY <1>F, <2>1, <2>2
<1>6. ASSUME NEW p \in Order, JobStart(p)
      PROVE  Timed(o)'
  <2>1. UNCHANGED status /\ call[Worker].pc = "idle" /\ status[o] = "PENDING_PAYMENT"
    BY <1>6 DEF JobStart, orderVars, Pending
  <2>2. CASE p = o
    BY <1>T, <1>6, <2>1, <2>2 DEF JobStart, StillPending, Timed
  <2>3. CASE p # o
    <3>1. job'[o] = job[o]
      BY <1>T, <1>6, <2>3 DEF JobStart
    <3>2. \A d \in Call : call'[d] = call[d]
      BY <1>T, <1>6 DEF JobStart
    <3> QED
      BY <1>K, <2>1, <3>1, <3>2
  <2> QED
    BY <2>2, <2>3
<1>7. ASSUME NEW c \in Process,
             PayCreate(c) \/ ShipCreate(c) \/ DeliverWrite(c) \/ UpdateRead(c)
               \/ \E w \in Warehouse : UpdateDefault(c, w)
      PROVE  Timed(o)'
  <2>1. /\ UNCHANGED <<status, job>> /\ call[c].pc # "enqueue"
        /\ \A d \in Process \ {c} : call'[d] = call[d]
    BY <1>7, <1>T DEF PayCreate, ShipCreate, DeliverWrite, UpdateRead, UpdateDefault, orderVars
  <2> QED
    BY <1>K, <1>T, <2>1
<1>8. ASSUME NEW c \in Call, Request(c)
      PROVE  Timed(o)'
  <2>1. /\ UNCHANGED <<status, job>> /\ call[c].pc # "enqueue"
        /\ \A d \in Process \ {c} : call'[d] = call[d]
    BY <1>8, <1>T DEF Request, PlaceRead, PatchRead, PayRead, ShipRead, DeliverRead, orderVars
  <2> QED
    BY <1>K, <1>T, <2>1
<1>9. CASE UNCHANGED <<status, job, call>>
  BY <1>K, <1>9
<1>10. OrdersStep \/ UNCHANGED <<status, job, call>>
  BY DEF Next, vars, orderVars
<1>11. ASSUME NEW c \in Process, Progress(c)
       PROVE  Timed(o)'
  BY <1>1, <1>2, <1>3, <1>4, <1>5, <1>7, <1>11 DEF Progress
<1> QED
  BY <1>6, <1>8, <1>9, <1>10, <1>11 DEF OrdersStep, Fail, WorkerCrash

\* With one warehouse and without faults, the timeout of a pending order never gets lost,
\* neither in the removal of jobs by updateStatus nor in a job that skips or is rejected
\* (orders.service.ts:421, stock-release.processor.ts:27).
THEOREM TimeoutsAreNotLost == Spec => []PendingHasTimeout
<1>1. CASE MaxWarehouses = 1 /\ ~Faults
  <2>1. Init => TimeoutInv
    BY DEF Init, WarehousesInit, TimeoutInv, LeavesForGood, DequeuesMoved, WorkerCancels, RowsThere,
       Pending, Placed, Idle, Process
  <2>2. IType /\ IHistory /\ TimeoutInv /\ [Next]_vars => TimeoutInv'
    <3> SUFFICES ASSUME IType, IHistory, TimeoutInv, [Next]_vars
                 PROVE  TimeoutInv'
      OBVIOUS
    <3>1. LeavesForGood' /\ DequeuesMoved' /\ WorkerCancels' /\ RowsThere'
      BY <1>1, LeavesStep, DequeueStep, RowsStep DEF TimeoutInv
    <3>2. \A o \in Order : Pending(o)' => Timed(o)'
      BY <1>1, <3>1, TimedStep
    <3> QED
      BY <3>1, <3>2 DEF TimeoutInv
  <2>3. TimeoutInv => PendingHasTimeout
    BY DEF TimeoutInv, PendingHasTimeout, Pending, Timed
  <2> QED
    BY InitType, StepType, InitHistory, StepHistory, <2>1, <2>2, <2>3, PTL DEF Spec
<1>2. CASE ~(MaxWarehouses = 1 /\ ~Faults)
  <2>1. PendingHasTimeout
    BY <1>2 DEF PendingHasTimeout
  <2> QED
    BY <2>1, PTL
<1> QED
  BY <1>1, <1>2
=============================================================================
