----------------------------- MODULE Inventory ------------------------------
(* src/modules/inventory/inventory.service.ts.  A cell is one inventory_items *)
(* row: a variant in a warehouse.  The operations that run inside another     *)
(* service's transaction (reserve, release, deduct, returnStock) are actions  *)
(* on the whole order at once: a transaction holds the lock of every row it   *)
(* has updated until it commits, so its item loop is one step.  Quantities    *)
(* are integers: Decimal(12,3) only scales them.                              *)
EXTENDS Quantities, FiniteSets, Warehouses

CONSTANTS ReceiptSizes,   \* quantities a receipt may have
          AdjustDeltas,   \* quantityDelta of a stocktake adjustment
          InitialStock,   \* units of each variant received before we look
          MaxReceived,    \* bound on the units received into a cell
          MaxAdjusted,    \* bound on the net adjustment of a cell, each way
          Clerk           \* slots for adjustments in progress

ASSUME InventoryAssumption ==
  /\ ReceiptSizes \subseteq Nat \ {0}
  /\ AdjustDeltas \subseteq Int
  /\ InitialStock \in Nat
  /\ MaxReceived \in Nat
  /\ MaxAdjusted \in Nat

Cell == Variant \X Warehouse

MovementType ==
  {"RECEIPT", "ADJUSTMENT", "RESERVE", "RELEASE", "DEDUCT", "RETURN"}

VARIABLES rows,       \* the cells that have a row
          onHand,     \* quantityOnHand
          reserved,   \* quantityReserved
          moved,      \* the sum of the inventory_movements, per type and cell
          adjusting   \* per clerk slot: the adjustment checked, not yet written

stockVars == <<rows, onHand, reserved, moved>>
inventoryVars == <<rows, onHand, reserved, moved, adjusting>>

NoAdjustment == [cell |-> <<>>, delta |-> 0]
Adjustment == [cell : Cell, delta : AdjustDeltas] \cup {NoAdjustment}

InventoryTypeOK ==
  /\ rows \subseteq Cell
  /\ onHand \in [Cell -> Int]
  /\ reserved \in [Cell -> Int]
  /\ moved \in [MovementType -> [Cell -> Int]]
  /\ adjusting \in [Clerk -> Adjustment]

\* The seeded warehouse holds a first receipt of every variant.
FirstReceipt == [x \in Cell |-> IF x[2] = 1 THEN InitialStock ELSE 0]
Nothing == [x \in Cell |-> 0]

InventoryInit ==
  /\ rows = Variant \X {1}
  /\ onHand = FirstReceipt
  /\ reserved = Nothing
  /\ moved = [t \in MovementType |-> IF t = "RECEIPT" THEN FirstReceipt ELSE Nothing]
  /\ adjusting = [k \in Clerk |-> NoAdjustment]

----------------------------------------------------------------------------
\* The rows, in warehouse w, of the variants the quantities q name.
RowsOf(q, w) == {v \in Variant : q[v] > 0} \X {w}

\* f plus the quantities q in warehouse w; f minus them.
Plus(f, q, w)  == [x \in Cell |-> IF x[2] = w THEN f[x] + q[x[1]] ELSE f[x]]
Minus(f, q, w) == [x \in Cell |-> IF x[2] = w THEN f[x] - q[x[1]] ELSE f[x]]

Record(type, q, w) == moved' = [moved EXCEPT ![type] = Plus(moved[type], q, w)]

\* The WHERE clause of reserve's UPDATE, evaluated under the row's lock.
Available_IgnoresReserved(q, w) ==
  \A v \in Variant : onHand[<<v, w>>] >= q[v]
Available(q, w) ==
  \A v \in Variant : q[v] > 0 => onHand[<<v, w>>] - reserved[<<v, w>>] >= q[v]

Reserve(q, w) ==
  /\ Available(q, w)
  /\ rows' = rows \cup RowsOf(q, w)
  /\ reserved' = Plus(reserved, q, w)
  /\ Record("RESERVE", q, w)
  /\ UNCHANGED onHand

\* release and deduct use update(), which throws when there is no row.
Release(q, w) ==
  /\ RowsOf(q, w) \subseteq rows
  /\ reserved' = Minus(reserved, q, w)
  /\ Record("RELEASE", q, w)
  /\ UNCHANGED <<rows, onHand>>

Deduct_KeepsReservation(q, w) ==
  /\ RowsOf(q, w) \subseteq rows
  /\ onHand' = Minus(onHand, q, w)
  /\ Record("DEDUCT", q, w)
  /\ UNCHANGED <<rows, reserved>>
Deduct(q, w) ==
  /\ RowsOf(q, w) \subseteq rows
  /\ onHand' = Minus(onHand, q, w)
  /\ reserved' = Minus(reserved, q, w)
  /\ Record("DEDUCT", q, w)
  /\ UNCHANGED rows

\* returnStock creates the row it needs.
ReturnStock(q, w) ==
  /\ rows' = rows \cup RowsOf(q, w)
  /\ onHand' = Plus(onHand, q, w)
  /\ Record("RETURN", q, w)
  /\ UNCHANGED reserved

----------------------------------------------------------------------------
\* receive(): one transaction, into any existing warehouse.
Receive(v, w, n) ==
  /\ w \in 1..created
  /\ moved["RECEIPT"][<<v, w>>] + n <= MaxReceived
  /\ rows' = rows \cup {<<v, w>>}
  /\ onHand' = Plus(onHand, One(v, n), w)
  /\ Record("RECEIPT", One(v, n), w)
  /\ UNCHANGED <<reserved, adjusting>>

\* adjust(), up to its write: the row is read without a lock and checked.
AdjustAllowed(x, n) == onHand[x] + n >= reserved[x]

AdjustRead(k, v, w, n) ==
  LET x == <<v, w>>
  IN  /\ adjusting[k] = NoAdjustment
      /\ w \in 1..created
      /\ moved["ADJUSTMENT"][x] + n \in -MaxAdjusted..MaxAdjusted
      /\ AdjustAllowed(x, n)
      /\ adjusting' = [adjusting EXCEPT ![k] = [cell |-> x, delta |-> n]]
      /\ UNCHANGED stockVars

\* adjust(), its write: an increment, whatever the row holds by then.
AdjustWrite(k) ==
  LET x == adjusting[k].cell
      q == One(x[1], adjusting[k].delta)
  IN  /\ adjusting[k] # NoAdjustment
      /\ rows' = rows \cup {x}
      /\ onHand' = Plus(onHand, q, x[2])
      /\ Record("ADJUSTMENT", q, x[2])
      /\ adjusting' = [adjusting EXCEPT ![k] = NoAdjustment]
      /\ UNCHANGED reserved

\* The adjusting transaction is rolled back.
AdjustFail(k) ==
  /\ adjusting[k] # NoAdjustment
  /\ adjusting' = [adjusting EXCEPT ![k] = NoAdjustment]
  /\ UNCHANGED stockVars

\* What the inventory controller's own endpoints do.
StockroomNext ==
  \/ \E v \in Variant, w \in Warehouse, n \in ReceiptSizes : Receive(v, w, n)
  \/ \E k \in Clerk :
       \/ \E v \in Variant, w \in Warehouse, n \in AdjustDeltas :
            AdjustRead(k, v, w, n)
       \/ AdjustWrite(k)
       \/ AdjustFail(k)

----------------------------------------------------------------------------
\* The balances are what the movements add up to, cell by cell: no operation,
\* in any interleaving, changes a balance without recording the movement.
LedgerBalanced ==
  \A x \in Cell :
    /\ onHand[x] = moved["RECEIPT"][x] + moved["ADJUSTMENT"][x]
                     + moved["RETURN"][x] - moved["DEDUCT"][x]
    /\ reserved[x] = moved["RESERVE"][x] - moved["RELEASE"][x] - moved["DEDUCT"][x]

\* A cell never has more reserved than it has on hand, provided that no stocktake
\* lowers a balance (adjust checks a row it has not locked).
NoOversell ==
  AdjustDeltas \subseteq Nat => \A x \in Cell : reserved[x] <= onHand[x]
=============================================================================
