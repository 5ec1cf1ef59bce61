----------------------------- MODULE Warehouses -----------------------------
(* src/modules/warehouses/warehouses.service.ts.  Warehouses are numbered in *)
(* the order of their createdAt, so that the default one, the oldest that is *)
(* active, is the least active number.                                       *)
EXTENDS Integers

CONSTANTS MaxWarehouses,  \* bound on the warehouses ever created
          Admin           \* slots for warehouse updates in progress

ASSUME WarehousesAssumption == MaxWarehouses \in Nat \ {0}

Warehouse == 1..MaxWarehouses

VARIABLES created,        \* how many warehouse rows exist
          active,         \* the warehouses whose isActive is true
          updating        \* per admin slot: the update checked, not yet written

warehouseVars == <<created, active, updating>>

NoUpdate == [wh |-> 0, isActive |-> FALSE]

\* The updates that may be in progress when n warehouses exist.
Update(n) == [wh : 1..n, isActive : BOOLEAN] \cup {NoUpdate}

WarehousesTypeOK ==
  /\ created \in 1..MaxWarehouses
  /\ active \subseteq 1..created
  /\ updating \in [Admin -> Update(created)]

\* The seed leaves one warehouse, MAIN, active.
WarehousesInit ==
  /\ created = 1
  /\ active = {1}
  /\ updating = [a \in Admin |-> NoUpdate]

\* findDefault: w is the oldest active warehouse; none is an error (404).
IsDefault(w) == w \in active /\ \A x \in active : w <= x

CreateWarehouse(isActive) ==
  /\ created < MaxWarehouses
  /\ created' = created + 1
  /\ active' = IF isActive THEN active \cup {created + 1} ELSE active
  /\ UNCHANGED updating

\* update(), up to its write: the row is read and, when an active warehouse is to
\* be disabled, the other active ones are counted; with none the call fails (409).
MayDisable_CountsItself(w) == active # {}
MayDisable(w) == active \ {w} # {}

UpdateWarehouseRead(a, w, isActive) ==
  /\ updating[a] = NoUpdate
  /\ w \in 1..created
  /\ ~isActive /\ w \in active => MayDisable(w)
  /\ updating' = [updating EXCEPT ![a] = [wh |-> w, isActive |-> isActive]]
  /\ UNCHANGED <<created, active>>

\* update(), its write: unconditional.
UpdateWarehouseWrite(a) ==
  /\ updating[a] # NoUpdate
  /\ active' = IF updating[a].isActive THEN active \cup {updating[a].wh}
                                       ELSE active \ {updating[a].wh}
  /\ updating' = [updating EXCEPT ![a] = NoUpdate]
  /\ UNCHANGED created

\* The call dies between the check and the write.
UpdateWarehouseFail(a) ==
  /\ updating[a] # NoUpdate
  /\ updating' = [updating EXCEPT ![a] = NoUpdate]
  /\ UNCHANGED <<created, active>>

WarehousesNext ==
  \/ \E isActive \in BOOLEAN : CreateWarehouse(isActive)
  \/ \E a \in Admin :
       \/ \E w \in Warehouse, isActive \in BOOLEAN :
            UpdateWarehouseRead(a, w, isActive)
       \/ UpdateWarehouseWrite(a)
       \/ UpdateWarehouseFail(a)

\* "cannot disable the only active warehouse" (warehouses.service.ts:62): as long
\* as updates come one at a time, some warehouse is active, so that checkout and
\* status changes find a default.  (Two updates at once may each count the other's
\* warehouse.)
SomeActive == (\A a, b \in Admin : a = b) => active # {}
=============================================================================
