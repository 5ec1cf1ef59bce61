---------------------------- MODULE Orders_proofs ---------------------------
(* Machine-checked proofs about Orders, for every value of its constants: sums *)
(* over finite sets first, then what each operation of the inventory and of    *)
(* the warehouses preserves, one lemma per operation, then the orders.         *)
EXTENDS OrderProperties, FiniteSetTheorems, SequenceTheorems, TLAPS

\* A property of sets that each set inherits from its proper subsets holds of every
\* finite set.
LEMMA FiniteInduction ==
  ASSUME NEW S, IsFiniteSet(S), NEW P,
         \A T \in SUBSET S : (\A U \in SUBSET T : U # T => U \in P) => T \in P
  PROVE  S \in P
<1> DEFINE bad == (SUBSET S) \ P
<1>1. SUFFICES ASSUME bad # {} PROVE FALSE
  OBVIOUS
<1>2. bad \subseteq FiniteSubsetsOf(S)
  BY FS_Subset DEF FiniteSubsetsOf
<1> HIDE DEF bad
<1>3. PICK T \in bad : \A U \in bad : ~ (<<U, T>> \in StrictSubsetOrdering(S))
  BY <1>1, <1>2, FS_StrictSubsetOrderingWellFounded, WFMin
<1>4. \A U \in SUBSET T : U # T => U \in P
  BY <1>3 DEF StrictSubsetOrdering, bad
<1> QED
  BY <1>3, <1>4 DEF bad

\* What the fold over S chooses: the sums of f over all the subsets of S.
First(T) == CHOOSE x \in T : TRUE

Summed(g, f, S) == g = [T \in SUBSET S |->
  IF T = {} THEN 0 ELSE f[First(T)] + g[T \ {First(T)}]]

LEMMA FirstIn ==
  ASSUME NEW T, T # {}
  PROVE  First(T) \in T
BY DEF First

LEMMA SumIsChosen ==
  ASSUME NEW f, NEW S
  PROVE  SumOf(f, S) = (CHOOSE g : Summed(g, f, S))[S]
BY DEF SumOf, MapThenSumSet, MapThenFoldSet, Summed, First

\* The sums over two sets agree on what these have in common.
LEMMA SummedAgree ==
  ASSUME NEW f, NEW S, NEW R, NEW g, NEW h, Summed(g, f, S), Summed(h, f, R),
         NEW T \in SUBSET (S \cap R), IsFiniteSet(T)
  PROVE  g[T] = h[T]
<1> DEFINE P == {U \in SUBSET T : g[U] = h[U]}
<1>1. ASSUME NEW U \in SUBSET T, \A V \in SUBSET U : V # U => V \in P
      PROVE  U \in P
  <2>1. /\ g[U] = IF U = {} THEN 0 ELSE f[First(U)] + g[U \ {First(U)}]
        /\ h[U] = IF U = {} THEN 0 ELSE f[First(U)] + h[U \ {First(U)}]
    BY DEF Summed
  <2>2. CASE U = {}
    BY <2>1, <2>2
  <2>3. CASE U # {}
    <3>1. U \ {First(U)} \in SUBSET U /\ U \ {First(U)} # U
      BY <2>3, FirstIn
    <3>2. g[U \ {First(U)}] = h[U \ {First(U)}]
      BY <1>1, <3>1
    <3> QED
      BY <2>1, <2>3, <3>2
  <2> QED
    BY <2>2, <2>3
<1> HIDE DEF P
<1>2. T \in P
  BY <1>1, FiniteInduction
<1> QED
  BY <1>2 DEF P

\* There is such a function, by induction over the set.
LEMMA SummedExists ==
  ASSUME NEW f, NEW S, IsFiniteSet(S)
  PROVE  \E g : Summed(g, f, S)
<1> DEFINE P == {T \in SUBSET S : \E g : Summed(g, f, T)}
           sum(T) == CHOOSE g : Summed(g, f, T)
<1>1. ASSUME NEW T \in SUBSET S, \A U \in SUBSET T : U # T => U \in P
      PROVE  T \in P
  <2> DEFINE h == [U \in SUBSET T |->
               IF U = {} THEN 0 ELSE f[First(U)] + sum(U \ {First(U)})[U \ {First(U)}]]
  <2>1. ASSUME NEW U \in SUBSET T, U # T PROVE Summed(sum(U), f, U)
    BY <1>1, <2>1
  <2>2. ASSUME NEW U \in SUBSET T, U # {}
        PROVE  h[U \ {First(U)}] = sum(U \ {First(U)})[U \ {First(U)}]
    <3> DEFINE V == U \ {First(U)}
    <3>1. V \in SUBSET T /\ V # T /\ V \in SUBSET V
      BY <2>2, FirstIn
    <3>2. sum(V)[V] = IF V = {} THEN 0 ELSE f[First(V)] + sum(V)[V \ {First(V)}]
      <4> HIDE DEF V, sum
      <4> QED
        BY <2>1, <3>1 DEF Summed
    <3>3. h[V] = IF V = {} THEN 0 ELSE f[First(V)] + sum(V \ {First(V)})[V \ {First(V)}]
      <4> HIDE DEF V, sum
      <4> QED
        BY <3>1
    <3>4. ASSUME V # {} PROVE sum(V)[V \ {First(V)}] = sum(V \ {First(V)})[V \ {First(V)}]
      <4> DEFINE W == V \ {First(V)}
      <4>1. W \in SUBSET T /\ W # T /\ W \in SUBSET (V \cap W) /\ IsFiniteSet(W)
        BY <3>1, <3>4, FirstIn, FS_Subset
      <4>2. Summed(sum(V), f, V) /\ Summed(sum(W), f, W)
        BY <2>1, <3>1, <4>1
      <4> HIDE DEF W, V, sum
      <4>3. sum(V)[W] = sum(W)[W]
        BY <4>1, <4>2, SummedAgree
      <4> QED
        BY <4>3 DEF W
    <3> HIDE DEF V, sum, h
    <3>5. h[V] = sum(V)[V]
      BY <3>2, <3>3, <3>4
    <3> QED
      BY <3>5 DEF V
  <2>3. Summed(h, f, T)
    <3>1. ASSUME NEW U \in SUBSET T
          PROVE  h[U] = IF U = {} THEN 0 ELSE f[First(U)] + h[U \ {First(U)}]
      <4> HIDE DEF sum
      <4> QED
        BY <2>2
    <3>2. h = [U \in SUBSET T |-> h[U]]
      OBVIOUS
    <3> HIDE DEF h
    <3> QED
      BY <3>1, <3>2 DEF Summed
  <2> QED
    BY <2>3
<1> HIDE DEF P
<1>2. S \in P
  BY <1>1, FiniteInduction
<1> QED
  BY <1>2 DEF P

\* The sum over a set takes the elements one by one, ...
LEMMA SumUnfolds ==
  ASSUME NEW f, NEW S, IsFiniteSet(S)
  PROVE  SumOf(f, S) = IF S = {} THEN 0 ELSE f[First(S)] + SumOf(f, S \ {First(S)})
<1> DEFINE sum(T) == CHOOSE g : Summed(g, f, T)
           R == S \ {First(S)}
<1>1. IsFiniteSet(R)
  BY FS_RemoveElement
<1>2. Summed(sum(S), f, S) /\ Summed(sum(R), f, R)
  BY <1>1, SummedExists
<1>3. SumOf(f, S) = sum(S)[S] /\ SumOf(f, R) = sum(R)[R]
  BY SumIsChosen
<1> HIDE DEF sum, R
<1>4. R \in SUBSET (S \cap R)
  BY DEF R
<1>5. sum(S)[R] = sum(R)[R]
  BY <1>1, <1>2, <1>4, SummedAgree
<1>6. sum(S)[S] = IF S = {} THEN 0 ELSE f[First(S)] + sum(S)[R]
  BY <1>2 DEF Summed, R
<1> QED
  BY <1>3, <1>5, <1>6 DEF R

\* ... in any order, ...
LEMMA SumSplit ==
  ASSUME NEW S, IsFiniteSet(S), NEW f, \A x \in S : f[x] \in Int
  PROVE  /\ SumOf(f, S) \in Int
         /\ \A x \in S : SumOf(f, S) = f[x] + SumOf(f, S \ {x})
<1> DEFINE P == {T \in SUBSET S : /\ SumOf(f, T) \in Int
                                  /\ \A x \in T : SumOf(f, T) = f[x] + SumOf(f, T \ {x})}
<1>1. ASSUME NEW T \in SUBSET S, \A U \in SUBSET T : U # T => U \in P
      PROVE  T \in P
  <2> DEFINE c == First(T)
  <2>1. IsFiniteSet(T)
    BY FS_Subset
  <2>2. SumOf(f, T) = IF T = {} THEN 0 ELSE f[c] + SumOf(f, T \ {c})
    BY <2>1, SumUnfolds
  <2>3. CASE T = {}
    BY <2>2, <2>3
  <2>4. CASE T # {}
    <3>1. c \in T
      BY <2>4, FirstIn
    <3> HIDE DEF c
    <3>2. ASSUME NEW U \in SUBSET T, U # T
          PROVE  /\ SumOf(f, U) \in Int
                 /\ \A x \in U : SumOf(f, U) = f[x] + SumOf(f, U \ {x})
      BY <1>1, <3>2
    <3> HIDE DEF P
    <3>3. SumOf(f, T \ {c}) \in Int /\ f[c] \in Int
      BY <3>1, <3>2
    <3>4. ASSUME NEW x \in T PROVE SumOf(f, T) = f[x] + SumOf(f, T \ {x})
      <4>1. CASE x = c
        BY <2>2, <2>4, <4>1
      <4>2. CASE x # c
        <5> DEFINE R == T \ {c, x}
        <5>1. (T \ {c}) \ {x} = R /\ (T \ {x}) \ {c} = R
          OBVIOUS
        <5>2. SumOf(f, T \ {c}) = f[x] + SumOf(f, R)
          BY <3>1, <3>2, <4>2, <5>1
        <5>3. SumOf(f, T \ {x}) = f[c] + SumOf(f, R)
          BY <3>1, <3>2, <4>2, <5>1
        <5>4. SumOf(f, R) \in Int /\ f[x] \in Int
          BY <3>1, <3>2
        <5> HIDE DEF R
        <5> QED
          BY <2>2, <2>4, <3>3, <5>2, <5>3, <5>4
      <4> QED
        BY <4>1, <4>2
    <3>5. SumOf(f, T) \in Int
      BY <2>2, <2>4, <3>3
    <3> QED
      BY <3>4, <3>5 DEF P
  <2> QED
    BY <2>3, <2>4
<1> HIDE DEF P
<1>2. S \in P
  BY <1>1, FiniteInduction
<1> QED
  BY <1>2 DEF P

\* ... is that of any function with the same values there, ...
LEMMA SumSame ==
  ASSUME NEW S, IsFiniteSet(S), NEW f, NEW g, \A x \in S : f[x] = g[x]
  PROVE  SumOf(f, S) = SumOf(g, S)
<1> DEFINE P == {T \in SUBSET S : SumOf(f, T) = SumOf(g, T)}
<1>1. ASSUME NEW T \in SUBSET S, \A U \in SUBSET T : U # T => U \in P
      PROVE  T \in P
  <2>1. IsFiniteSet(T)
    BY FS_Subset
  <2>2. /\ SumOf(f, T) = IF T = {} THEN 0 ELSE f[First(T)] + SumOf(f, T \ {First(T)})
        /\ SumOf(g, T) = IF T = {} THEN 0 ELSE g[First(T)] + SumOf(g, T \ {First(T)})
    BY <2>1, SumUnfolds
  <2>3. ASSUME T # {}
        PROVE  /\ First(T) \in S
               /\ SumOf(f, T \ {First(T)}) = SumOf(g, T \ {First(T)})
    BY <1>1, <2>3, FirstIn
  <2> QED
    BY <2>2, <2>3
<1> HIDE DEF P
<1>2. S \in P
  BY <1>1, FiniteInduction
<1> QED
  BY <1>2 DEF P

\* ... is zero or more if the values are, ...
LEMMA SumNat ==
  ASSUME NEW S, IsFiniteSet(S), NEW f, \A x \in S : f[x] \in Nat
  PROVE  SumOf(f, S) \in Nat
<1> DEFINE P == {T \in SUBSET S : SumOf(f, T) \in Nat}
<1>1. ASSUME NEW T \in SUBSET S, \A U \in SUBSET T : U # T => U \in P
      PROVE  T \in P
  <2>1. IsFiniteSet(T)
    BY FS_Subset
  <2>2. SumOf(f, T) = IF T = {} THEN 0 ELSE f[First(T)] + SumOf(f, T \ {First(T)})
    BY <2>1, SumUnfolds
  <2>3. ASSUME T # {} PROVE f[First(T)] \in Nat /\ SumOf(f, T \ {First(T)}) \in Nat
    BY <1>1, <2>3, FirstIn
  <2> QED
    BY <2>2, <2>3
<1> HIDE DEF P
<1>2. S \in P
  BY <1>1, FiniteInduction
<1> QED
  BY <1>2 DEF P

\* ... takes nothing from elements whose value is zero, ...
LEMMA SumZeros ==
  ASSUME NEW S, IsFiniteSet(S), NEW R \in SUBSET S, NEW f,
         \A x \in R : f[x] \in Int, \A x \in S \ R : f[x] = 0
  PROVE  SumOf(f, S) = SumOf(f, R)
<1> DEFINE P == {T \in SUBSET S : SumOf(f, T) = SumOf(f, T \cap R)}
<1>1. ASSUME NEW T \in SUBSET S, \A U \in SUBSET T : U # T => U \in P
      PROVE  T \in P
  <2>1. IsFiniteSet(T) /\ IsFiniteSet(T \cap R)
    BY FS_Subset
  <2>2. SumOf(f, T) = IF T = {} THEN 0 ELSE f[First(T)] + SumOf(f, T \ {First(T)})
    BY <2>1, SumUnfolds
  <2>3. CASE T = {}
    <3>1. T \cap R = T
      BY <2>3
    <3> QED
      BY <3>1
  <2>4. CASE T # {}
    <3> DEFINE c == First(T)
    <3>1. c \in T /\ SumOf(f, T \ {c}) = SumOf(f, (T \ {c}) \cap R)
      BY <1>1, <2>4, FirstIn
    <3> HIDE DEF c, P
    <3>2. SumOf(f, T) = f[c] + SumOf(f, T \ {c})
      BY <2>2, <2>4 DEF c
    <3>3. CASE c \in R
      <4>1. (T \ {c}) \cap R = (T \cap R) \ {c} /\ c \in T \cap R
        BY <3>1, <3>3
      <4>2. SumOf(f, T \cap R) = f[c] + SumOf(f, (T \cap R) \ {c})
        BY <2>1, <4>1, SumSplit
      <4> QED
        BY <3>1, <3>2, <4>1, <4>2 DEF P
    <3>4. CASE c \notin R
      <4>1. (T \ {c}) \cap R = T \cap R /\ f[c] = 0
        BY <3>1, <3>4
      <4>2. SumOf(f, T \cap R) \in Int
        BY <2>1, SumSplit
      <4> QED
        BY <3>1, <3>2, <4>1, <4>2 DEF P
    <3> QED
      BY <3>3, <3>4
  <2> QED
    BY <2>3, <2>4
<1> HIDE DEF P
<1>2. S \in P
  BY <1>1, FiniteInduction
<1>3. S \cap R = R
  OBVIOUS
<1> QED
  BY <1>2, <1>3 DEF P

\* ... and changes by what one value changes.
LEMMA SumChanges ==
  ASSUME NEW S, IsFiniteSet(S), NEW f, NEW g, \A x \in S : f[x] \in Int /\ g[x] \in Int,
         NEW c \in S, \A x \in S \ {c} : g[x] = f[x]
  PROVE  SumOf(g, S) = SumOf(f, S) + (g[c] - f[c])
<1>1. IsFiniteSet(S \ {c})
  BY FS_RemoveElement
<1>2. SumOf(f, S) = f[c] + SumOf(f, S \ {c}) /\ SumOf(g, S) = g[c] + SumOf(g, S \ {c})
  BY SumSplit
<1>3. SumOf(g, S \ {c}) = SumOf(f, S \ {c}) /\ SumOf(f, S \ {c}) \in Int
  BY <1>1, SumSame, SumSplit
<1> QED
  BY <1>2, <1>3

----------------------------------------------------------------------------
\* The part of the type invariant that the transactions of other services touch.
StockTypeOK ==
  /\ rows \subseteq Cell
  /\ onHand \in [Cell -> Int]
  /\ reserved \in [Cell -> Int]
  /\ moved \in [MovementType -> [Cell -> Int]]

\* A transaction's quantities and warehouse.
LEMMA CellParts ==
  /\ \A x \in Cell : x = <<x[1], x[2]>> /\ x[1] \in Variant /\ x[2] \in Warehouse
  /\ \A v \in Variant, w \in Warehouse : <<v, w>> \in Cell
BY DEF Cell

\* Adding or subtracting an order's quantities gives balances again.
LEMMA PlusMinusType ==
  ASSUME NEW f \in [Cell -> Int], NEW q \in [Variant -> Int], NEW w
  PROVE  Plus(f, q, w) \in [Cell -> Int] /\ Minus(f, q, w) \in [Cell -> Int]
BY CellParts DEF Plus, Minus

LEMMA OneType ==
  ASSUME NEW v, NEW n \in Int
  PROVE  One(v, n) \in [Variant -> Int]
BY DEF One

\* A movement of any type keeps the type of the movements.
LEMMA RecordType ==
  ASSUME StockTypeOK, NEW type \in MovementType, NEW q \in [Variant -> Int], NEW w,
         Record(type, q, w)
  PROVE  moved' \in [MovementType -> [Cell -> Int]]
<1>1. moved[type] \in [Cell -> Int]
  BY DEF StockTypeOK
<1>2. Plus(moved[type], q, w) \in [Cell -> Int]
  BY <1>1, PlusMinusType
<1> QED
  BY <1>2 DEF StockTypeOK, Record

\* A receipt or an adjustment, as a change of the stock.
Enter(type, q, w) ==
  /\ onHand' = Plus(onHand, q, w)
  /\ Record(type, q, w)
  /\ UNCHANGED reserved

\* Such a change keeps the types and the balances.
LEMMA EnterKeeps ==
  ASSUME StockTypeOK, NEW type \in {"RECEIPT", "ADJUSTMENT"},
         NEW q \in [Variant -> Int], NEW w \in Warehouse, Enter(type, q, w)
  PROVE  /\ onHand' \in [Cell -> Int]
         /\ reserved' \in [Cell -> Int]
         /\ moved' \in [MovementType -> [Cell -> Int]]
         /\ LedgerBalanced => LedgerBalanced'
<1>1. type \in MovementType
  BY DEF MovementType
<1>2. moved' \in [MovementType -> [Cell -> Int]]
  BY <1>1, RecordType DEF Enter
<1>3. onHand' \in [Cell -> Int] /\ reserved' \in [Cell -> Int]
  BY PlusMinusType DEF Enter, StockTypeOK
<1>4. ASSUME LedgerBalanced PROVE LedgerBalanced'
  BY <1>4, CellParts
  DEF StockTypeOK, LedgerBalanced, MovementType, Record, Plus, Enter
<1> QED
  BY <1>2, <1>3, <1>4

LEMMA RowsOfType ==
  ASSUME NEW q, NEW w \in Warehouse
  PROVE  RowsOf(q, w) \subseteq Cell
BY DEF RowsOf, Cell

\* The four transactional operations keep the types of the stock.
LEMMA StockOperationsType ==
  ASSUME StockTypeOK, NEW q \in [Variant -> Nat], NEW w \in Warehouse,
         Reserve(q, w) \/ Release(q, w) \/ Deduct(q, w) \/ ReturnStock(q, w)
  PROVE  StockTypeOK'
<1>1. \A type \in MovementType : Record(type, q, w) =>
        moved' \in [MovementType -> [Cell -> Int]]
  BY RecordType
<1>2. /\ "RESERVE" \in MovementType /\ "RELEASE" \in MovementType
      /\ "DEDUCT" \in MovementType /\ "RETURN" \in MovementType
  BY DEF MovementType
<1>3. /\ Plus(onHand, q, w) \in [Cell -> Int] /\ Minus(onHand, q, w) \in [Cell -> Int]
      /\ Plus(reserved, q, w) \in [Cell -> Int]
      /\ Minus(reserved, q, w) \in [Cell -> Int]
  BY PlusMinusType DEF StockTypeOK
<1>4. RowsOf(q, w) \subseteq Cell
  BY RowsOfType
<1>5. CASE Reserve(q, w)
  BY <1>1, <1>2, <1>3, <1>4, <1>5 DEF StockTypeOK, Reserve
<1>6. CASE Release(q, w)
  BY <1>1, <1>2, <1>3, <1>6 DEF StockTypeOK, Release
<1>7. CASE Deduct(q, w)
  BY <1>1, <1>2, <1>3, <1>7 DEF StockTypeOK, Deduct
<1>8. CASE ReturnStock(q, w)
  BY <1>1, <1>2, <1>3, <1>4, <1>8 DEF StockTypeOK, ReturnStock
<1> QED
  BY <1>5, <1>6, <1>7, <1>8

\* The four transactional operations keep the balances equal to the movements.
LEMMA StockOperationsBalance ==
  ASSUME StockTypeOK, LedgerBalanced,
         NEW q \in [Variant -> Nat], NEW w \in Warehouse,
         Reserve(q, w) \/ Release(q, w) \/ Deduct(q, w) \/ ReturnStock(q, w)
  PROVE  LedgerBalanced'
<1> USE CellParts DEF StockTypeOK, LedgerBalanced, MovementType, Record, Plus, Minus
<1>1. CASE Reserve(q, w)
  BY <1>1 DEF Reserve
<1>2. CASE Release(q, w)
  BY <1>2 DEF Release
<1>3. CASE Deduct(q, w)
  BY <1>3 DEF Deduct
<1>4. CASE ReturnStock(q, w)
  BY <1>4 DEF ReturnStock
<1> QED
  BY <1>1, <1>2, <1>3, <1>4

\* No cell has more reserved than on hand.
Covered == \A x \in Cell : reserved[x] <= onHand[x]

\* The four transactional operations keep every reservation covered: reserve
\* because of its WHERE clause, the others because they never narrow the gap.
LEMMA StockOperationsCovered ==
  ASSUME StockTypeOK, Covered,
         NEW q \in [Variant -> Nat], NEW w \in Warehouse,
         Reserve(q, w) \/ Release(q, w) \/ Deduct(q, w) \/ ReturnStock(q, w)
  PROVE  Covered'
<1> USE CellParts DEF StockTypeOK, Covered, Plus, Minus
<1>1. CASE Reserve(q, w)
  BY <1>1 DEF Reserve, Available
<1>2. CASE Release(q, w)
  BY <1>2 DEF Release
<1>3. CASE Deduct(q, w)
  BY <1>3 DEF Deduct
<1>4. CASE ReturnStock(q, w)
  BY <1>4 DEF ReturnStock
<1> QED
  BY <1>1, <1>2, <1>3, <1>4

----------------------------------------------------------------------------
\* An adjustment in progress names a cell and a delta.
LEMMA AdjustmentInProgress ==
  ASSUME InventoryTypeOK, NEW k \in Clerk, adjusting[k] # NoAdjustment
  PROVE  adjusting[k].cell \in Cell /\ adjusting[k].delta \in AdjustDeltas
BY DEF InventoryTypeOK, Adjustment

\* What the steps of the stockroom are: a receipt or an adjustment entered into a
\* cell, or a step that leaves the stock alone.
LEMMA StockroomSteps ==
  ASSUME InventoryTypeOK, StockroomNext
  PROVE  \/ \E x \in Cell, n \in ReceiptSizes :
              /\ rows' = rows \cup {x} /\ UNCHANGED adjusting
              /\ Enter("RECEIPT", One(x[1], n), x[2])
         \/ \E x \in Cell, n \in AdjustDeltas, k \in Clerk :
              /\ rows' = rows \cup {x}
              /\ adjusting' = [adjusting EXCEPT ![k] = NoAdjustment]
              /\ Enter("ADJUSTMENT", One(x[1], n), x[2])
         \/ UNCHANGED stockVars /\ adjusting' \in [Clerk -> Adjustment]
<1>1. ASSUME NEW v \in Variant, NEW w \in Warehouse, NEW n \in ReceiptSizes,
             Receive(v, w, n)
      PROVE  \E x \in Cell :
               /\ rows' = rows \cup {x} /\ UNCHANGED adjusting
               /\ Enter("RECEIPT", One(x[1], n), x[2])
  <2>1. <<v, w>> \in Cell
    BY CellParts
  <2> QED
    BY <1>1, <2>1 DEF Receive, Enter
<1>2. ASSUME NEW k \in Clerk, AdjustWrite(k)
      PROVE  \E x \in Cell, n \in AdjustDeltas :
               /\ rows' = rows \cup {x}
               /\ adjusting' = [adjusting EXCEPT ![k] = NoAdjustment]
               /\ Enter("ADJUSTMENT", One(x[1], n), x[2])
  BY <1>2, AdjustmentInProgress DEF AdjustWrite, Enter
<1>3. ASSUME NEW k \in Clerk, NEW v \in Variant, NEW w \in Warehouse,
             NEW n \in AdjustDeltas, AdjustRead(k, v, w, n)
      PROVE  UNCHANGED stockVars /\ adjusting' \in [Clerk -> Adjustment]
  <2>1. [cell |-> <<v, w>>, delta |-> n] \in Adjustment
    BY CellParts DEF Adjustment
  <2> QED
    BY <1>3, <2>1 DEF AdjustRead, InventoryTypeOK
<1>4. ASSUME NEW k \in Clerk, AdjustFail(k)
      PROVE  UNCHANGED stockVars /\ adjusting' \in [Clerk -> Adjustment]
  BY <1>4 DEF AdjustFail, InventoryTypeOK, Adjustment
<1> QED
  BY <1>1, <1>2, <1>3, <1>4 DEF StockroomNext

\* Receipts and adjustments keep the types and the balances of the inventory.
LEMMA StockroomKeeps ==
  ASSUME InventoryTypeOK, StockroomNext
  PROVE  InventoryTypeOK' /\ (LedgerBalanced => LedgerBalanced')
<1>1. StockTypeOK
  BY DEF InventoryTypeOK, StockTypeOK
<1>2. ASSUME NEW x \in Cell, NEW n \in Int, NEW type \in {"RECEIPT", "ADJUSTMENT"},
             rows' = rows \cup {x}, Enter(type, One(x[1], n), x[2]),
             adjusting' \in [Clerk -> Adjustment]
      PROVE  InventoryTypeOK' /\ (LedgerBalanced => LedgerBalanced')
  <2>1. One(x[1], n) \in [Variant -> Int] /\ x[2] \in Warehouse
    BY OneType, CellParts
  <2> QED
    BY <1>1, <1>2, <2>1, EnterKeeps DEF InventoryTypeOK
<1>3. ASSUME UNCHANGED stockVars, adjusting' \in [Clerk -> Adjustment]
      PROVE  InventoryTypeOK' /\ (LedgerBalanced => LedgerBalanced')
  BY <1>3 DEF stockVars, InventoryTypeOK, LedgerBalanced
<1>4. adjusting \in [Clerk -> Adjustment]
  BY DEF InventoryTypeOK
<1>5. \A k \in Clerk : [adjusting EXCEPT ![k] = NoAdjustment] \in [Clerk -> Adjustment]
  BY <1>4 DEF Adjustment
<1>6. ReceiptSizes \subseteq Int /\ AdjustDeltas \subseteq Int
  BY InventoryAssumption
<1> QED
  BY <1>2, <1>3, <1>4, <1>5, <1>6, StockroomSteps

\* Where no adjustment lowers a balance, the stockroom keeps reservations covered.
LEMMA StockroomCovered ==
  ASSUME InventoryTypeOK, Covered, AdjustDeltas \subseteq Nat, StockroomNext
  PROVE  Covered'
<1>1. ASSUME NEW x \in Cell, NEW n \in Nat, NEW type, Enter(type, One(x[1], n), x[2])
      PROVE  Covered'
  BY <1>1, CellParts DEF Covered, InventoryTypeOK, Enter, Plus, One
<1>2. ReceiptSizes \subseteq Nat
  BY InventoryAssumption
<1>3. CASE UNCHANGED stockVars
  BY <1>3 DEF stockVars, Covered
<1> QED
  BY <1>1, <1>2, <1>3, StockroomSteps

----------------------------------------------------------------------------
\* The warehouse operations keep the types of the warehouses.
LEMMA WarehousesType ==
  ASSUME WarehousesTypeOK, WarehousesNext
  PROVE  WarehousesTypeOK'
<1> USE WarehousesAssumption DEF WarehousesTypeOK, Update
<1>1. ASSUME NEW isActive \in BOOLEAN, CreateWarehouse(isActive)
      PROVE  WarehousesTypeOK'
  BY <1>1 DEF CreateWarehouse
<1>2. ASSUME NEW a \in Admin, NEW w \in Warehouse, NEW isActive \in BOOLEAN,
             UpdateWarehouseRead(a, w, isActive)
      PROVE  WarehousesTypeOK'
  <2>1. [wh |-> w, isActive |-> isActive] \in Update(created)
    BY <1>2 DEF UpdateWarehouseRead
  <2> QED
    BY <1>2, <2>1 DEF UpdateWarehouseRead
<1>3. ASSUME NEW a \in Admin, UpdateWarehouseWrite(a)
      PROVE  WarehousesTypeOK'
  BY <1>3 DEF UpdateWarehouseWrite
<1>4. ASSUME NEW a \in Admin, UpdateWarehouseFail(a)
      PROVE  WarehousesTypeOK'
  BY <1>4 DEF UpdateWarehouseFail
<1> QED
  BY <1>1, <1>2, <1>3, <1>4 DEF WarehousesNext

----------------------------------------------------------------------------
\* An allowed transition that does not reopen the order moves its stock from what
\* its old phase should hold to what its new phase should hold
\* (order-status.rules.ts with the branches of updateStatus).
LEMMA MoveMatchesPhases ==
  ASSUME NEW from, NEW to, canTransition(from, to), ~Reopens(from, to)
  PROVE  /\ HeldIn(stockPhaseFor(to))
              = HeldIn(stockPhaseFor(from)) + HeldChange(StockMove(from, to))
         /\ TakenIn(stockPhaseFor(to))
              = TakenIn(stockPhaseFor(from)) + TakenChange(StockMove(from, to))
BY DEF canTransition, ALLOWED_TRANSITIONS, Reopens, HeldIn, TakenIn, HeldChange,
       TakenChange, StockMove, stockPhaseFor

----------------------------------------------------------------------------
\* The type invariant, in the parts the actions touch separately.
OrdersTypeOK ==
  /\ status \in [Order -> Status]
  /\ items \in [Order -> [Variant -> Nat]]
  /\ history \in [Order -> Seq(HistoryRow)]
  /\ held \in [Order -> Int]
  /\ taken \in [Order -> Int]
ServicesTypeOK ==
  /\ payments \in [Order -> [PaymentStatus -> Nat]]
  /\ shipments \in [Order -> Seq(ShipmentStatus)]
  /\ job \in [Order -> JobState]
\* A call that is not idle has an order, and the warehouse it will write to.
WellFormed(r) ==
  /\ r \in CallRecord
  /\ r.pc # "idle" => r.order \in Order
  /\ r.pc \in {"reserve", "commit"} => r.wh \in Warehouse
CallTypeOK ==
  /\ call \in [Process -> CallRecord]
  /\ \A c \in Process : WellFormed(call[c])

\* TypeOK is not inductive alone: the records of calls in progress must be well formed.
IType == TypeOK /\ CallTypeOK

LEMMA TypeParts ==
  IType <=> WarehousesTypeOK /\ InventoryTypeOK /\ OrdersTypeOK /\ ServicesTypeOK
              /\ CallTypeOK
BY DEF IType, TypeOK, OrdersTypeOK, ServicesTypeOK, CallTypeOK

LEMMA IdleType ==
  WellFormed(Idle) /\ Idle.pc = "idle" /\ NoItems \in [Variant -> Nat]
BY WarehousesAssumption DEF WellFormed, Idle, CallRecord, Stage, Status, NoItems

\* Overwriting an element of a sequence leaves a sequence.
LEMMA SeqExcept ==
  ASSUME NEW S, NEW s \in Seq(S), NEW i, NEW x \in S
  PROVE  [s EXCEPT ![i] = x] \in Seq(S)
<1>1. PICK n \in Nat : s \in [1..n -> S]
  BY SeqDef
<1>2. [s EXCEPT ![i] = x] \in [1..n -> S]
  BY <1>1
<1> QED
  BY <1>2, SeqDef

\* Storing a well formed record for a process keeps the type of the calls.
LEMMA CallUpdateType ==
  ASSUME IType, NEW c \in Process, NEW r, WellFormed(r),
         call' = [call EXCEPT ![c] = r]
  PROVE  CallTypeOK'
<1>1. call' \in [Process -> CallRecord]
  BY DEF IType, CallTypeOK, WellFormed
<1>2. ASSUME NEW d \in Process PROVE WellFormed(call'[d])
  BY DEF IType, CallTypeOK
<1> QED
  BY <1>1, <1>2 DEF CallTypeOK, WellFormed

\* Ending a call keeps the types of the calls and of the jobs.
LEMMA FinishType ==
  ASSUME IType, NEW c \in Process, call[c].pc # "idle", Finish(c)
  PROVE  CallTypeOK' /\ job' \in [Order -> JobState]
<1>1. CallTypeOK'
  BY IdleType, CallUpdateType DEF Finish
<1>2. job' \in [Order -> JobState]
  BY DEF Finish, IType, TypeOK, CallTypeOK, WellFormed, JobState
<1> QED
  BY <1>1, <1>2

\* What a step of a call keeps besides the adjustments and the warehouses.
TypeKept == StockTypeOK' /\ OrdersTypeOK' /\ ServicesTypeOK' /\ CallTypeOK'

\* Requests only write the record of their call.
LEMMA RequestType ==
  ASSUME IType, NEW c \in Call, Request(c)
  PROVE  TypeKept
<1> USE OrdersAssumption, IdleType
    DEF Process, Stage, Status, OrderStatus, Idle, CallRecord, WellFormed
<1>1. ASSUME NEW r, WellFormed(r), call' = [call EXCEPT ![c] = r],
             UNCHANGED <<orderVars, payments, shipments, job, stockVars>>
      PROVE  TypeKept
  <2>1. CallTypeOK'
    BY <1>1, CallUpdateType
  <2> QED
    BY <1>1, <2>1
    DEF TypeKept, IType, TypeOK, OrdersTypeOK, ServicesTypeOK, StockTypeOK,
        InventoryTypeOK, orderVars, stockVars
<1>2. ASSUME NEW o \in Order, NEW q \in Carts, NEW w \in Warehouse, PlaceRead(c, o, q, w)
      PROVE  TypeKept
  <2>1. q \in [Variant -> Nat] /\ w \in 0..MaxWarehouses
    BY WarehousesAssumption DEF Warehouse
  <2>2. WellFormed([Idle EXCEPT !.pc = "reserve", !.order = o, !.items = q, !.wh = w])
    BY <2>1
  <2> QED
    BY <1>1, <1>2, <2>2 DEF PlaceRead
<1>3. ASSUME NEW o \in Order, NEW to \in PatchTargets, PatchRead(c, o, to)
      PROVE  TypeKept
  <2>1. WellFormed(Checked(o, to))
    BY DEF Checked, IType, TypeOK
  <2> QED
    BY <1>1, <1>3, <2>1 DEF PatchRead
<1>4. ASSUME NEW o \in Order, NEW succeeded \in BOOLEAN, PayRead(c, o, succeeded)
      PROVE  TypeKept
  <2> DEFINE t == IF succeeded THEN "PAID" ELSE "PAYMENT_FAILED"
  <2>1. t \in Status
    OBVIOUS
  <2>2. WellFormed([Idle EXCEPT !.pc = "pay", !.order = o, !.to = t])
    BY <2>1
  <2>3. /\ call' = [call EXCEPT ![c] = [Idle EXCEPT !.pc = "pay", !.order = o, !.to = t]]
        /\ UNCHANGED <<orderVars, payments, shipments, job, stockVars>>
    BY <1>4 DEF PayRead
  <2> HIDE DEF t
  <2> QED
    BY <1>1, <2>2, <2>3
<1>5. ASSUME NEW o \in Order, ShipRead(c, o)
      PROVE  TypeKept
  <2>1. WellFormed([Idle EXCEPT !.pc = "ship", !.order = o, !.to = "SHIPPED"])
    OBVIOUS
  <2> QED
    BY <1>1, <1>5, <2>1 DEF ShipRead
<1>6. ASSUME NEW o \in Order, NEW i \in 1..Len(shipments[o]), DeliverRead(c, o, i)
      PROVE  TypeKept
  <2>1. i \in Nat
    BY DEF IType, TypeOK
  <2>2. WellFormed([Idle EXCEPT !.pc = "deliver", !.order = o, !.to = "DELIVERED",
                                !.shipment = i])
    BY <2>1
  <2> QED
    BY <1>1, <1>6, <2>2 DEF DeliverRead
<1> QED
  BY <1>2, <1>3, <1>4, <1>5, <1>6 DEF Request

\* The steps of createFromCart.
LEMMA PlaceType ==
  ASSUME IType, NEW c \in Process, PlaceCommit(c) \/ PlaceEnqueue(c)
  PROVE  TypeKept
<1>1. /\ WellFormed(call[c]) /\ StockTypeOK /\ OrdersTypeOK /\ ServicesTypeOK
      /\ call[c] \in CallRecord
  BY DEF IType, TypeOK, StockTypeOK, InventoryTypeOK, OrdersTypeOK, ServicesTypeOK,
         CallTypeOK
<1>2. CASE PlaceCommit(c)
  <2> DEFINE o == call[c].order
             r == [Idle EXCEPT !.pc = "enqueue", !.order = o]
  <2>1. o \in Order /\ call[c].items \in [Variant -> Nat] /\ call[c].wh \in Warehouse
    BY <1>1, <1>2 DEF WellFormed, PlaceCommit, CallRecord
  <2>2. WellFormed(r)
    BY <2>1, IdleType DEF WellFormed, CallRecord, Stage, Idle
  <2>3. CallTypeOK'
    BY <1>2, <2>2, CallUpdateType DEF PlaceCommit
  <2>4. StockTypeOK'
    BY <1>1, <1>2, <2>1, StockOperationsType DEF PlaceCommit
  <2>5. <<Row("none", "PENDING_PAYMENT")>> \in Seq(HistoryRow)
    BY DEF Row, HistoryRow, Status, OrderStatus
  <2>6. OrdersTypeOK'
    BY <1>1, <1>2, <2>1, <2>5 DEF PlaceCommit, OrdersTypeOK, Status, OrderStatus
  <2> QED
    BY <1>1, <1>2, <2>3, <2>4, <2>6 DEF TypeKept, PlaceCommit, ServicesTypeOK
<1>3. CASE PlaceEnqueue(c)
  <2>1. CallTypeOK'
    BY <1>3, IdleType, CallUpdateType DEF PlaceEnqueue
  <2> QED
    BY <1>1, <1>3, <2>1
    DEF TypeKept, PlaceEnqueue, OrdersTypeOK, ServicesTypeOK, StockTypeOK, JobState,
        orderVars, stockVars
<1> QED
  BY <1>2, <1>3

\* updateStatus up to its transaction.
LEMMA UpdateReadType ==
  ASSUME IType, NEW c \in Process,
         UpdateRead(c) \/ (\E w \in Warehouse : UpdateDefault(c, w))
  PROVE  TypeKept
<1>1. /\ WellFormed(call[c]) /\ call[c] \in CallRecord /\ call[c].pc # "idle"
      /\ call[c].order \in Order
  BY DEF IType, CallTypeOK, WellFormed, UpdateRead, UpdateDefault
<1>2. \E r : WellFormed(r) /\ call' = [call EXCEPT ![c] = r]
  <2>1. CASE UpdateRead(c)
    <3>1. WellFormed(Checked(call[c].order, call[c].to))
      BY <1>1, IdleType
      DEF Checked, WellFormed, CallRecord, Idle, Stage, IType, TypeOK
    <3> QED
      BY <2>1, <3>1 DEF UpdateRead
  <2>2. ASSUME NEW w \in Warehouse, UpdateDefault(c, w)
        PROVE  \E r : WellFormed(r) /\ call' = [call EXCEPT ![c] = r]
    <3>1. w \in 0..MaxWarehouses
      BY WarehousesAssumption DEF Warehouse
    <3>2. WellFormed([call[c] EXCEPT !.pc = "commit", !.wh = w])
      BY <1>1, <3>1 DEF WellFormed, CallRecord, Stage
    <3>3. call' = [call EXCEPT ![c] = [call[c] EXCEPT !.pc = "commit", !.wh = w]]
      BY <2>2 DEF UpdateDefault
    <3> QED
      BY <3>2, <3>3
  <2> QED
    BY <2>1, <2>2
<1>3. CallTypeOK'
  BY <1>2, CallUpdateType
<1>4. UNCHANGED <<orderVars, payments, shipments, job, stockVars>>
  BY DEF UpdateRead, UpdateDefault
<1> QED
  BY <1>3, <1>4
  DEF TypeKept, IType, TypeOK, OrdersTypeOK, ServicesTypeOK, StockTypeOK,
      InventoryTypeOK, orderVars, stockVars

\* The transaction of updateStatus and the removal of the job.
LEMMA UpdateCommitType ==
  ASSUME IType, NEW c \in Process, UpdateCommit(c) \/ UpdateDequeue(c)
  PROVE  TypeKept
<1> DEFINE o == call[c].order
           from == call[c].from
           to == call[c].to
           move == StockMove(from, to)
<1>1. /\ WellFormed(call[c]) /\ StockTypeOK /\ OrdersTypeOK /\ ServicesTypeOK
      /\ call[c] \in CallRecord /\ call[c].pc # "idle" /\ o \in Order
  BY DEF IType, TypeOK, StockTypeOK, InventoryTypeOK, OrdersTypeOK, ServicesTypeOK,
         CallTypeOK, WellFormed, UpdateCommit, UpdateDequeue
<1>2. CASE UpdateCommit(c)
  <2>1. call[c].wh \in Warehouse /\ items[o] \in [Variant -> Nat]
    BY <1>1, <1>2 DEF WellFormed, UpdateCommit, OrdersTypeOK
  <2>2. StockTypeOK'
    <3>1. CASE UNCHANGED stockVars
      BY <1>1, <3>1 DEF StockTypeOK, stockVars
    <3> QED
      BY <1>1, <1>2, <2>1, <3>1, StockOperationsType DEF UpdateCommit, MoveStock
  <2>3. CallTypeOK' /\ job' \in [Order -> JobState]
    <3>1. CASE from = "PENDING_PAYMENT"
      <4>1. WellFormed([Idle EXCEPT !.pc = "dequeue", !.order = o])
        BY <1>1, IdleType DEF WellFormed, CallRecord, Stage, Idle
      <4>2. call' = [call EXCEPT ![c] = [Idle EXCEPT !.pc = "dequeue", !.order = o]]
              /\ job' = job
        BY <1>2, <3>1 DEF UpdateCommit
      <4> QED
        BY <1>1, <4>1, <4>2, CallUpdateType DEF ServicesTypeOK
    <3>2. CASE from # "PENDING_PAYMENT"
      <4>1. Finish(c)
        BY <1>2, <3>2 DEF UpdateCommit
      <4> QED
        BY <1>1, <4>1, FinishType
    <3> QED
      BY <3>1, <3>2
  <2>4. HeldChange(move) \in Int /\ TakenChange(move) \in Int
    BY DEF HeldChange, TakenChange
  <2>5. Row(from, to) \in HistoryRow /\ from \in Status /\ to \in Status
    BY <1>1 DEF Row, HistoryRow, CallRecord
  <2>6. /\ status' \in [Order -> Status]
        /\ history' \in [Order -> Seq(HistoryRow)]
        /\ items' \in [Order -> [Variant -> Nat]]
    BY <1>1, <1>2, <2>5 DEF UpdateCommit, OrdersTypeOK
  <2>7. held' \in [Order -> Int] /\ taken' \in [Order -> Int]
    <3> HIDE DEF move
    <3>1. held' = [held EXCEPT ![o] = @ + HeldChange(move)]
            /\ taken' = [taken EXCEPT ![o] = @ + TakenChange(move)]
      BY <1>2 DEF UpdateCommit, move
    <3> QED
      BY <1>1, <2>4, <3>1 DEF OrdersTypeOK
  <2> QED
    BY <1>1, <1>2, <2>2, <2>3, <2>6, <2>7
    DEF TypeKept, UpdateCommit, OrdersTypeOK, ServicesTypeOK
<1>3. CASE UpdateDequeue(c)
  <2>1. CallTypeOK'
    BY <1>3, IdleType, CallUpdateType DEF UpdateDequeue
  <2> QED
    BY <1>1, <1>3, <2>1
    DEF TypeKept, UpdateDequeue, OrdersTypeOK, ServicesTypeOK, StockTypeOK, JobState,
        orderVars, stockVars
<1> QED
  BY <1>2, <1>3

\* The payment and the shipment a call creates before updateStatus.
LEMMA ServiceType ==
  ASSUME IType, NEW c \in Process, PayCreate(c) \/ ShipCreate(c) \/ DeliverWrite(c)
  PROVE  TypeKept
<1>1. /\ WellFormed(call[c]) /\ StockTypeOK /\ OrdersTypeOK /\ ServicesTypeOK
      /\ call[c] \in CallRecord /\ call[c].order \in Order
  BY DEF IType, TypeOK, StockTypeOK, InventoryTypeOK, OrdersTypeOK, ServicesTypeOK,
         CallTypeOK, WellFormed, PayCreate, ShipCreate, DeliverWrite
<1>2. ASSUME NEW r, WellFormed(r), call' = [call EXCEPT ![c] = r],
             UNCHANGED <<orderVars, job, stockVars>>
      PROVE  StockTypeOK' /\ OrdersTypeOK' /\ CallTypeOK' /\ job' \in [Order -> JobState]
  <2>1. CallTypeOK'
    BY <1>2, CallUpdateType
  <2> QED
    BY <1>1, <1>2, <2>1
    DEF OrdersTypeOK, ServicesTypeOK, StockTypeOK, orderVars, stockVars
<1>3. /\ WellFormed([call[c] EXCEPT !.pc = "read"])
      /\ WellFormed([call[c] EXCEPT !.pc = "read", !.shipment = 0])
  BY <1>1 DEF WellFormed, CallRecord, Stage
<1>4. CASE PayCreate(c)
  <2>1. payments' \in [Order -> [PaymentStatus -> Nat]]
    <3>1. Outcome(call[c].to) \in PaymentStatus
      BY DEF Outcome, PaymentStatus
    <3> QED
      BY <1>1, <1>4, <3>1 DEF PayCreate, ServicesTypeOK
  <2> QED
    BY <1>1, <1>2, <1>3, <1>4, <2>1 DEF PayCreate, TypeKept, ServicesTypeOK
<1>5. CASE ShipCreate(c)
  <2>1. shipments' \in [Order -> Seq(ShipmentStatus)]
    BY <1>1, <1>5 DEF ShipCreate, ServicesTypeOK, ShipmentStatus
  <2> QED
    BY <1>1, <1>2, <1>3, <1>5, <2>1 DEF ShipCreate, TypeKept, ServicesTypeOK
<1>6. CASE DeliverWrite(c)
  <2>1. shipments' \in [Order -> Seq(ShipmentStatus)]
    <3> DEFINE s == shipments[call[c].order]
               t == [s EXCEPT ![call[c].shipment] = "DELIVERED"]
    <3>1. s \in Seq(ShipmentStatus) /\ "DELIVERED" \in ShipmentStatus
      BY <1>1 DEF ServicesTypeOK, ShipmentStatus
    <3>2. t \in Seq(ShipmentStatus)
      BY <3>1, SeqExcept
    <3>3. shipments' = [shipments EXCEPT ![call[c].order] = t]
      BY <1>1, <1>6 DEF DeliverWrite, ServicesTypeOK
    <3> HIDE DEF t
    <3> QED
      BY <1>1, <3>2, <3>3 DEF ServicesTypeOK
  <2> QED
    BY <1>1, <1>2, <1>3, <1>6, <2>1 DEF DeliverWrite, TypeKept, ServicesTypeOK
<1> QED
  BY <1>4, <1>5, <1>6

\* The worker's own steps, the errors and the failures.
LEMMA WorkerType ==
  ASSUME IType, (\E o \in Order : JobStart(o)) \/ WorkerCrash
  PROVE  TypeKept
<1>1. StockTypeOK /\ OrdersTypeOK /\ ServicesTypeOK /\ CallTypeOK /\ Worker \in Process
  BY DEF IType, TypeOK, StockTypeOK, InventoryTypeOK, OrdersTypeOK, ServicesTypeOK,
         Process
<1>2. UNCHANGED <<orderVars, payments, shipments, stockVars>>
  BY DEF JobStart, WorkerCrash
<1>3. CallTypeOK' /\ job' \in [Order -> JobState]
  <2>1. ASSUME NEW o \in Order, JobStart(o), StillPending(o)
        PROVE  CallTypeOK' /\ job' \in [Order -> JobState]
    <3>1. WellFormed([Idle EXCEPT !.pc = "read", !.order = o, !.to = "CANCELLED"])
      BY IdleType DEF WellFormed, CallRecord, Stage, Idle, Status, OrderStatus
    <3> QED
      BY <1>1, <2>1, <3>1, CallUpdateType DEF JobStart, ServicesTypeOK, JobState
  <2>2. ASSUME NEW o \in Order, JobStart(o), ~StillPending(o)
        PROVE  CallTypeOK' /\ job' \in [Order -> JobState]
    BY <1>1, <2>2 DEF JobStart, ServicesTypeOK, JobState, CallTypeOK
  <2>3. ASSUME WorkerCrash
        PROVE  CallTypeOK' /\ job' \in [Order -> JobState]
    <3>1. CallTypeOK'
      BY <1>1, <2>3, IdleType, CallUpdateType DEF WorkerCrash
    <3> QED
      BY <1>1, <2>3, <3>1 DEF WorkerCrash, ServicesTypeOK, JobState
  <2> QED
    BY <2>1, <2>2, <2>3
<1> QED
  BY <1>1, <1>2, <1>3
  DEF TypeKept, OrdersTypeOK, ServicesTypeOK, StockTypeOK, orderVars, stockVars

LEMMA EndType ==
  ASSUME IType, NEW c \in Process, Throw(c) \/ Fail(c)
  PROVE  TypeKept
<1>1. call[c].pc # "idle"
  BY DEF Throw, Rejected, Fail
<1> QED
  BY <1>1, FinishType
  DEF TypeKept, Throw, Fail, IType, TypeOK, OrdersTypeOK, ServicesTypeOK, StockTypeOK,
      InventoryTypeOK, orderVars, stockVars

LEMMA InitType == Init => IType
<1> SUFFICES ASSUME Init PROVE IType
  OBVIOUS
<1> USE DEF Init
<1>1. WarehousesTypeOK
  BY WarehousesAssumption DEF WarehousesInit, WarehousesTypeOK, Update
<1>2. InventoryTypeOK
  BY InventoryAssumption, WarehousesAssumption
  DEF InventoryInit, InventoryTypeOK, FirstReceipt, Nothing, Cell, Warehouse, Adjustment
<1>3. OrdersTypeOK /\ ServicesTypeOK
  BY IdleType DEF OrdersTypeOK, ServicesTypeOK, Status, JobState
<1>4. CallTypeOK
  BY IdleType DEF CallTypeOK, WellFormed
<1> QED
  BY <1>1, <1>2, <1>3, <1>4, TypeParts

LEMMA StepType == IType /\ [Next]_vars => IType'
<1> SUFFICES ASSUME IType, [Next]_vars PROVE IType'
  OBVIOUS
<1>1. WarehousesTypeOK /\ InventoryTypeOK /\ OrdersTypeOK /\ ServicesTypeOK /\ CallTypeOK
  BY TypeParts
<1>2. ASSUME OrdersStep, UNCHANGED <<adjusting, warehouseVars>>
      PROVE  IType'
  <2>1. TypeKept
    BY <1>2, RequestType, PlaceType, UpdateReadType, UpdateCommitType, ServiceType,
       WorkerType, EndType
    DEF OrdersStep, Progress
  <2> QED
    BY <1>1, <1>2, <2>1
    DEF TypeKept, IType, TypeOK, WarehousesTypeOK, InventoryTypeOK, StockTypeOK,
        OrdersTypeOK, ServicesTypeOK, CallTypeOK, warehouseVars
<1>3. ASSUME StockroomNext,
             UNCHANGED <<orderVars, payments, shipments, job, call, warehouseVars>>
      PROVE  IType'
  <2>1. InventoryTypeOK'
    BY <1>1, <1>3, StockroomKeeps
  <2> QED
    BY <1>1, <1>3, <2>1
    DEF IType, TypeOK, WarehousesTypeOK, OrdersTypeOK, ServicesTypeOK, CallTypeOK,
        orderVars, warehouseVars
<1>4. ASSUME WarehousesNext,
             UNCHANGED <<orderVars, payments, shipments, job, call, inventoryVars>>
      PROVE  IType'
  <2>1. WarehousesTypeOK'
    BY <1>1, <1>4, WarehousesType
  <2> QED
    BY <1>1, <1>4, <2>1
    DEF IType, TypeOK, InventoryTypeOK, OrdersTypeOK, ServicesTypeOK, CallTypeOK,
        orderVars, inventoryVars
<1>5. CASE UNCHANGED vars
  BY <1>1, <1>5
  DEF IType, TypeOK, WarehousesTypeOK, InventoryTypeOK, OrdersTypeOK, ServicesTypeOK,
      CallTypeOK, vars, orderVars, inventoryVars, warehouseVars
<1> QED
  BY <1>2, <1>3, <1>4, <1>5 DEF Next

\* Every reachable state has the types the schema declares, and every call in
\* progress the order and the warehouse it will write to (orders.service.ts).
THEOREM TypeCorrect == Spec => []TypeOK
<1>1. IType => TypeOK
  BY DEF IType
<1> QED
  BY InitType, StepType, <1>1, PTL DEF Spec

----------------------------------------------------------------------------
\* A step of the orders either leaves the stock alone or is one of the four
\* transactional operations, on quantities and a warehouse of the right types.
LEMMA StockStep ==
  ASSUME IType, OrdersStep
  PROVE  \/ UNCHANGED stockVars
         \/ \E q \in [Variant -> Nat], w \in Warehouse :
              Reserve(q, w) \/ Release(q, w) \/ Deduct(q, w) \/ ReturnStock(q, w)
<1>1. ASSUME NEW c \in Process, PlaceCommit(c)
      PROVE  \E q \in [Variant -> Nat], w \in Warehouse : Reserve(q, w)
  BY <1>1 DEF PlaceCommit, IType, CallTypeOK, WellFormed, CallRecord
<1>2. ASSUME NEW c \in Process, UpdateCommit(c)
      PROVE  \/ UNCHANGED stockVars
             \/ \E q \in [Variant -> Nat], w \in Warehouse :
                  Reserve(q, w) \/ Release(q, w) \/ Deduct(q, w) \/ ReturnStock(q, w)
  <2>1. items[call[c].order] \in [Variant -> Nat] /\ call[c].wh \in Warehouse
    BY <1>2 DEF UpdateCommit, IType, TypeOK, CallTypeOK, WellFormed
  <2> QED
    BY <1>2, <2>1 DEF UpdateCommit, MoveStock
<1>3. ASSUME NEW c \in Process, Progress(c), ~PlaceCommit(c), ~UpdateCommit(c)
      PROVE  UNCHANGED stockVars
  BY <1>3
  DEF Progress, PlaceEnqueue, PayCreate, ShipCreate, DeliverWrite, UpdateRead,
      UpdateDefault, UpdateDequeue, Throw
<1>4. ASSUME NEW c \in Call, Request(c)
      PROVE  UNCHANGED stockVars
  BY <1>4 DEF Request, PlaceRead, PatchRead, PayRead, ShipRead, DeliverRead
<1> QED
  BY <1>1, <1>2, <1>3, <1>4 DEF OrdersStep, Fail, WorkerCrash, JobStart

LEMMA InventoryParts == InventoryTypeOK => StockTypeOK
BY DEF InventoryTypeOK, StockTypeOK

\* The balances are always what the movements add up to (inventory.service.ts:
\* every change of a balance records its movement in the same transaction).
THEOREM LedgerAlwaysBalanced == Spec => []LedgerBalanced
<1>1. Init => LedgerBalanced
  BY InventoryAssumption
  DEF Init, InventoryInit, LedgerBalanced, FirstReceipt, Nothing, MovementType
<1>2. IType /\ LedgerBalanced /\ [Next]_vars => LedgerBalanced'
  <2> SUFFICES ASSUME IType, LedgerBalanced, [Next]_vars PROVE LedgerBalanced'
    OBVIOUS
  <2>1. InventoryTypeOK /\ StockTypeOK
    BY InventoryParts, TypeParts
  <2>2. CASE OrdersStep
    BY <2>1, <2>2, StockStep, StockOperationsBalance DEF LedgerBalanced, stockVars
  <2>3. CASE StockroomNext
    BY <2>1, <2>3, StockroomKeeps
  <2>4. CASE UNCHANGED inventoryVars
    BY <2>4 DEF inventoryVars, LedgerBalanced
  <2> QED
    BY <2>2, <2>3, <2>4 DEF Next, vars
<1> QED
  BY InitType, StepType, <1>1, <1>2, PTL DEF Spec

\* As long as no stocktake lowers a balance, no variant ever has more reserved
\* than on hand, in any warehouse, however checkouts, cancellations, timeouts and
\* changes of the default warehouse interleave.
THEOREM NeverOversold == Spec => []NoOversell
<1>1. CASE AdjustDeltas \subseteq Nat
  <2>1. Init => Covered
    BY InventoryAssumption
    DEF Init, InventoryInit, Covered, FirstReceipt, Nothing
  <2>2. IType /\ Covered /\ [Next]_vars => Covered'
    <3> SUFFICES ASSUME IType, Covered, [Next]_vars PROVE Covered'
      OBVIOUS
    <3>1. InventoryTypeOK /\ StockTypeOK
      BY InventoryParts, TypeParts
    <3>2. CASE OrdersStep
      BY <3>1, <3>2, StockStep, StockOperationsCovered DEF Covered, stockVars
    <3>3. CASE StockroomNext
      BY <1>1, <3>1, <3>3, StockroomCovered
    <3>4. CASE UNCHANGED inventoryVars
      BY <3>4 DEF inventoryVars, Covered
    <3> QED
      BY <3>2, <3>3, <3>4 DEF Next, vars
  <2>3. Covered => NoOversell
    BY DEF Covered, NoOversell
  <2> QED
    BY InitType, StepType, <2>1, <2>2, <2>3, PTL DEF Spec
<1>2. CASE ~(AdjustDeltas \subseteq Nat)
  <2>1. NoOversell
    BY <1>2 DEF NoOversell
  <2> QED
    BY <2>1, PTL
<1> QED
  BY <1>1, <1>2

\* As long as warehouse updates come one at a time, some warehouse stays active.
THEOREM AlwaysSomeActive == Spec => []SomeActive
<1> DEFINE Safe(a) == updating[a] # NoUpdate /\ ~updating[a].isActive
                        => active \ {updating[a].wh} # {}
           Inv == (\A a, b \in Admin : a = b) =>
                    active # {} /\ \A a \in Admin : Safe(a)
<1>1. Init => Inv
  BY DEF Init, WarehousesInit
<1>2. IType /\ Inv /\ [Next]_vars => Inv'
  <2> SUFFICES ASSUME IType, Inv, [Next]_vars, \A a, b \in Admin : a = b
               PROVE  active' # {} /\ \A a \in Admin : Safe(a)'
    OBVIOUS
  <2> USE DEF IType, TypeOK, WarehousesTypeOK, Update
  <2>1. CASE UNCHANGED warehouseVars
    BY <2>1 DEF warehouseVars
  <2>2. ASSUME NEW isActive \in BOOLEAN, CreateWarehouse(isActive)
        PROVE  active' # {} /\ \A a \in Admin : Safe(a)'
    BY <2>2 DEF CreateWarehouse
  <2>3. ASSUME NEW b \in Admin, NEW w \in Warehouse, NEW isActive \in BOOLEAN,
               UpdateWarehouseRead(b, w, isActive)
        PROVE  active' # {} /\ \A a \in Admin : Safe(a)'
    <3>1. updating'[b] = [wh |-> w, isActive |-> isActive] /\ active' = active
      BY <2>3 DEF UpdateWarehouseRead
    <3>2. ~isActive => active \ {w} # {}
      BY <2>3 DEF UpdateWarehouseRead, MayDisable
    <3> QED
      BY <3>1, <3>2
  <2>4. ASSUME NEW b \in Admin, UpdateWarehouseWrite(b)
        PROVE  active' # {} /\ \A a \in Admin : Safe(a)'
    BY <2>4 DEF UpdateWarehouseWrite
  <2>5. ASSUME NEW b \in Admin, UpdateWarehouseFail(b)
        PROVE  active' # {} /\ \A a \in Admin : Safe(a)'
    BY <2>5 DEF UpdateWarehouseFail
  <2>6. WarehousesNext \/ UNCHANGED warehouseVars
    BY DEF Next, vars
  <2> QED
    <3>1. CASE \E isActive \in BOOLEAN : CreateWarehouse(isActive)
      BY <2>2, <3>1
    <3>2. ASSUME NEW b \in Admin,
                 \E w \in Warehouse, isActive \in BOOLEAN :
                   UpdateWarehouseRead(b, w, isActive)
          PROVE  active' # {} /\ \A a \in Admin : Safe(a)'
      BY <2>3, <3>2
    <3> QED
      BY <2>1, <2>4, <2>5, <2>6, <3>1, <3>2 DEF WarehousesNext
<1>3. Inv => SomeActive
  BY DEF SomeActive
<1> QED
  BY InitType, StepType, <1>1, <1>2, <1>3, PTL DEF Spec
=============================================================================
