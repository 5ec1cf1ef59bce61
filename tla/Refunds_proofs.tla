--------------------------- MODULE Refunds_proofs ---------------------------
(* A payment marked REFUNDED has been paid back, and what is paid back is       *)
(* bounded, for any number of payments, of refund calls at once and of failures. *)
EXTENDS Refunds, FiniteSetTheorems, TLAPS

\* What a call carries: the sum it read is at most the refunds there are, and once
\* its own row is written the refunds include that row as well.
SumsAreLowerBounds ==
  \A k \in Refunder :
    LET call == refunding[k] IN
      /\ At(k, "create") => call.refundedSoFar <= refunded[call.payment]
      /\ At(k, "mark") => call.refundedSoFar + call.amount <= refunded[call.payment]

IInv == RefundsTypeOK /\ SumsAreLowerBounds /\ RefundedMeansAll

\* The calls, by stage: which fields each has.
LEMMA CallFields ==
  ASSUME RefundsTypeOK, NEW k \in Refunder
  PROVE  /\ At(k, "sum") => refunding[k] \in
              [at : {"sum"}, payment : Payment, amount : RefundSizes]
         /\ At(k, "create") \/ At(k, "mark") => refunding[k] \in
              [at : {"create", "mark"}, payment : Payment, amount : RefundSizes,
               refundedSoFar : Nat]
  BY DEF RefundsTypeOK, Refunding, Idle, At

LEMMA TypeInit == RefundsInit => RefundsTypeOK
  BY DEF RefundsInit, RefundsTypeOK, NoPayment, Idle

\* Every step keeps the types.
LEMMA TypeStep == RefundsTypeOK /\ [Next]_vars => RefundsTypeOK'
<1> SUFFICES ASSUME RefundsTypeOK, [Next]_vars PROVE RefundsTypeOK'
  OBVIOUS
<1> USE RefundsAssumption
<1>1. ASSUME NEW p \in Payment, NEW amount \in Amounts, NEW succeeded \in BOOLEAN,
             CreatePayment(p, amount, succeeded)
      PROVE  RefundsTypeOK'
  BY <1>1 DEF CreatePayment, RefundsTypeOK
<1>2. ASSUME NEW k \in Refunder, NEW p \in Payment, NEW amount \in RefundSizes,
             RefundFind(k, p, amount)
      PROVE  RefundsTypeOK'
  BY <1>2 DEF RefundFind, RefundsTypeOK, Refunding
<1>3. ASSUME NEW k \in Refunder, RefundSum(k) PROVE RefundsTypeOK'
  BY <1>3, CallFields DEF RefundSum, RefundsTypeOK, Refunding, SumOf, EndRefund
<1>4. ASSUME NEW k \in Refunder, RefundCreate(k) PROVE RefundsTypeOK'
  <2>1. refunding[k] \in [at : {"create", "mark"}, payment : Payment,
                          amount : RefundSizes, refundedSoFar : Nat]
    BY <1>4, CallFields DEF RefundCreate
  <2>2. [refunding[k] EXCEPT !.at = "mark"] \in Refunding
    BY <2>1 DEF Refunding
  <2>3. refunding' = [refunding EXCEPT ![k] = [refunding[k] EXCEPT !.at = "mark"]]
    BY <1>4 DEF RefundCreate
  <2>4. refunding' \in [Refunder -> Refunding \cup {Idle}]
    BY <2>2, <2>3 DEF RefundsTypeOK
  <2>5. refunded' \in [Payment -> Nat]
    BY <1>4, <2>1 DEF RefundCreate, RefundsTypeOK
  <2> QED
    BY <1>4, <2>4, <2>5 DEF RefundCreate, RefundsTypeOK
<1>5. ASSUME NEW k \in Refunder, RefundMark(k) PROVE RefundsTypeOK'
  BY <1>5, CallFields DEF RefundMark, RefundsTypeOK, EndRefund
<1>6. ASSUME NEW k \in Refunder, RefundFail(k) PROVE RefundsTypeOK'
  BY <1>6 DEF RefundFail, RefundsTypeOK, EndRefund
<1>7. CASE UNCHANGED vars
  BY <1>7 DEF vars, RefundsTypeOK
<1> QED
  BY <1>1, <1>2, <1>3, <1>4, <1>5, <1>6, <1>7 DEF Next

\* Refunds only ever grow.
LEMMA RefundsGrow ==
  ASSUME RefundsTypeOK, [Next]_vars, NEW p \in Payment
  PROVE  refunded'[p] >= refunded[p]
<1> USE RefundsAssumption
<1>1. ASSUME NEW k \in Refunder, RefundCreate(k) PROVE refunded'[p] >= refunded[p]
  BY <1>1, CallFields DEF RefundCreate, RefundsTypeOK
<1>2. CASE UNCHANGED refunded
  BY <1>2 DEF RefundsTypeOK
<1> QED
  BY <1>1, <1>2 DEF Next, vars, CreatePayment, RefundFind, RefundSum, RefundMark,
                    RefundFail

\* The sums that calls carry stay lower bounds.
LEMMA SumsStep ==
  RefundsTypeOK /\ SumsAreLowerBounds /\ [Next]_vars => SumsAreLowerBounds'
<1> SUFFICES ASSUME RefundsTypeOK, SumsAreLowerBounds, [Next]_vars,
                    NEW k \in Refunder
             PROVE  LET call == refunding'[k] IN
                      /\ call.at = "create" =>
                           call.refundedSoFar <= refunded'[call.payment]
                      /\ call.at = "mark" =>
                           call.refundedSoFar + call.amount <= refunded'[call.payment]
  BY DEF SumsAreLowerBounds, At
<1> USE RefundsAssumption
<1>1. CASE refunding'[k] = refunding[k]
  <2>1. \A p \in Payment : refunded[p] \in Nat /\ refunded'[p] \in Nat
    BY TypeStep DEF RefundsTypeOK
  <2>2. CASE At(k, "create") \/ At(k, "mark")
    <3>1. refunding[k] \in [at : {"create", "mark"}, payment : Payment,
                            amount : RefundSizes, refundedSoFar : Nat]
      BY <2>2, CallFields
    <3>2. refunded'[refunding[k].payment] >= refunded[refunding[k].payment]
      BY <3>1, RefundsGrow
    <3>3. At(k, "create") =>
            refunding[k].refundedSoFar <= refunded[refunding[k].payment]
      BY DEF SumsAreLowerBounds
    <3>4. At(k, "mark") => refunding[k].refundedSoFar + refunding[k].amount
                             <= refunded[refunding[k].payment]
      BY DEF SumsAreLowerBounds
    <3>5. /\ refunding[k].refundedSoFar \in Nat /\ refunding[k].amount \in Nat
          /\ refunded[refunding[k].payment] \in Nat
          /\ refunded'[refunding[k].payment] \in Nat
      BY <2>1, <3>1
    <3> QED
      BY <1>1, <3>2, <3>3, <3>4, <3>5 DEF At
  <2>3. CASE ~At(k, "create") /\ ~At(k, "mark")
    BY <1>1, <2>3 DEF At
  <2> QED
    BY <2>2, <2>3
<1>2. CASE refunding'[k] = Idle
  BY <1>2 DEF Idle
<1>3. ASSUME NEW p \in Payment, NEW amount \in RefundSizes, RefundFind(k, p, amount)
      PROVE  refunding'[k].at = "sum"
  BY <1>3 DEF RefundFind, RefundsTypeOK
<1>4. CASE RefundSum(k)
  <2>1. refunding[k].payment \in Payment
    BY <1>4, CallFields DEF RefundSum
  <2> QED
    BY <1>4, <2>1 DEF RefundSum, EndRefund, SumOf, Idle, RefundsTypeOK
<1>5. CASE RefundCreate(k)
  <2>1. refunding[k] \in [at : {"create", "mark"}, payment : Payment,
                          amount : RefundSizes, refundedSoFar : Nat]
    BY <1>5, CallFields DEF RefundCreate
  <2>2. refunding'[k] = [refunding[k] EXCEPT !.at = "mark"]
    BY <1>5 DEF RefundCreate, RefundsTypeOK
  <2>3. refunded'[refunding[k].payment] =
          refunded[refunding[k].payment] + refunding[k].amount
    BY <1>5, <2>1 DEF RefundCreate, RefundsTypeOK
  <2>4. refunding[k].refundedSoFar <= refunded[refunding[k].payment]
    BY <1>5 DEF RefundCreate, SumsAreLowerBounds
  <2>5. refunded[refunding[k].payment] \in Nat
    BY <2>1 DEF RefundsTypeOK
  <2> QED
    BY <2>1, <2>2, <2>3, <2>4, <2>5
<1>6. ASSUME NEW j \in Refunder, j # k,
             \/ RefundSum(j) \/ RefundCreate(j) \/ RefundMark(j) \/ RefundFail(j)
             \/ \E p \in Payment, amount \in RefundSizes : RefundFind(j, p, amount)
      PROVE  refunding'[k] = refunding[k]
  BY <1>6 DEF RefundSum, RefundCreate, RefundMark, RefundFail, RefundFind, EndRefund,
              RefundsTypeOK
<1>7. CASE RefundMark(k) \/ RefundFail(k)
  BY <1>7, <1>2 DEF RefundMark, RefundFail, EndRefund, RefundsTypeOK
<1> QED
  BY <1>1, <1>3, <1>4, <1>5, <1>6, <1>7 DEF Next, vars, CreatePayment

\* A payment is marked only when what a call carries, a lower bound, covers it;
\* after that it gets no larger and its refunds no fewer.
LEMMA MarkStep == IInv /\ [Next]_vars => RefundedMeansAll'
<1> SUFFICES ASSUME IInv, [Next]_vars, NEW p \in Payment,
                    payments'[p].status = "REFUNDED"
             PROVE  refunded'[p] >= payments'[p].amount
  BY DEF RefundedMeansAll
<1> USE RefundsAssumption DEF IInv
<1>1. /\ payments[p].amount \in Nat /\ payments'[p].amount \in Nat
      /\ refunded[p] \in Nat /\ refunded'[p] \in Nat
  <2>1. RefundsTypeOK'
    BY TypeStep
  <2>2. payments[p].amount \in Amounts \cup {0} /\ refunded[p] \in Nat
    BY DEF RefundsTypeOK
  <2>3. payments'[p].amount \in Amounts \cup {0} /\ refunded'[p] \in Nat
    BY <2>1 DEF RefundsTypeOK
  <2>4. Amounts \cup {0} \subseteq Nat
    BY RefundsAssumption
  <2> QED
    BY <2>2, <2>3, <2>4
<1>2. CASE payments'[p] = payments[p]
  BY <1>1, <1>2, RefundsGrow DEF RefundedMeansAll
<1>3. ASSUME NEW q \in Payment, NEW amount \in Amounts, NEW succeeded \in BOOLEAN,
             CreatePayment(q, amount, succeeded)
      PROVE  payments'[p] = payments[p]
  BY <1>3 DEF CreatePayment, RefundsTypeOK
<1>4. ASSUME NEW k \in Refunder, RefundMark(k), payments'[p] # payments[p]
      PROVE  refunded'[p] >= payments'[p].amount
  <2>1. /\ refunding[k].payment = p
        /\ Covers(refunding[k])
        /\ payments'[p] = [payments[p] EXCEPT !.status = "REFUNDED"]
    <3>1. payments' = IF Covers(refunding[k])
                      THEN [payments EXCEPT ![refunding[k].payment].status = "REFUNDED"]
                      ELSE payments
      BY <1>4 DEF RefundMark
    <3>2. CASE ~Covers(refunding[k])
      BY <1>4, <3>1, <3>2
    <3>3. CASE Covers(refunding[k])
      <4>1. payments' = [payments EXCEPT ![refunding[k].payment] =
                           [payments[refunding[k].payment] EXCEPT !.status = "REFUNDED"]]
        BY <3>1, <3>3
      <4>2. payments = [q \in Payment |-> payments[q]]
        BY DEF RefundsTypeOK
      <4> QED
        BY <1>4, <3>3, <4>1, <4>2
    <3> QED
      BY <3>2, <3>3
  <2>2. refunding[k].refundedSoFar \in Nat /\ refunding[k].amount \in Nat
    BY <1>4, CallFields DEF RefundMark
  <2>3. refunding[k].refundedSoFar + refunding[k].amount <= refunded[p]
    BY <1>4, <2>1 DEF RefundMark, SumsAreLowerBounds
  <2>4. payments'[p].amount = payments[p].amount
    BY <2>1 DEF RefundsTypeOK
  <2>5. refunded' = refunded
    BY <1>4 DEF RefundMark
  <2> QED
    BY <1>1, <2>1, <2>2, <2>3, <2>4, <2>5 DEF Covers
<1> QED
  BY <1>2, <1>3, <1>4 DEF Next, vars, RefundFind, RefundSum, RefundCreate, RefundFail

\* Whatever the payments, refunds and failures, a payment marked REFUNDED has been
\* paid back in full (payments.service.ts:110-115).
THEOREM RefundedInFull == Spec => []RefundedMeansAll
<1>1. RefundsInit => IInv
  BY TypeInit DEF RefundsInit, IInv, SumsAreLowerBounds, RefundedMeansAll, NoPayment,
                  Idle, At
<1>2. IInv /\ [Next]_vars => IInv'
  BY TypeStep, SumsStep, MarkStep DEF IInv
<1>3. IInv => RefundedMeansAll
  BY DEF IInv
<1> QED
  BY <1>1, <1>2, <1>3, PTL DEF Spec

----------------------------------------------------------------------------
\* The calls that have been measured against payment p and are to write their row.
Creating(p) == {k \in Refunder : At(k, "create") /\ refunding[k].payment = p}

\* There is room for what is paid back and as much as the payment for each of those
\* calls ...
Room(p) ==
  refunded[p] + Cardinality(Creating(p)) * payments[p].amount
    <= Cardinality(Refunder) * payments[p].amount

\* ... or for what the call measured last asks and the payment for each of the others.
RoomBeside(p, k) ==
  refunded[p] + refunding[k].amount + (Cardinality(Creating(p)) - 1) * payments[p].amount
    <= Cardinality(Refunder) * payments[p].amount

RoomInv ==
  \A p \in Payment :
    /\ \A k \in Creating(p) : refunding[k].amount <= payments[p].amount
    /\ Room(p) \/ \E k \in Creating(p) : RoomBeside(p, k)

LEMMA Distributes ==
  ASSUME NEW n \in Int, NEW a \in Int
  PROVE  (n + 1) * a = n * a + a /\ (n - 1) * a = n * a - a /\ (n - 2) * a = n * a - a - a
OBVIOUS

LEMMA Monotone ==
  ASSUME NEW m \in Nat, NEW n \in Nat, NEW a \in Nat, m <= n
  PROVE  m * a <= n * a
<1>1. n * a = m * a + (n - m) * a
  OBVIOUS
<1>2. (n - m) * a >= 0
  <2>1. PICK d \in Nat : d = n - m
    OBVIOUS
  <2>2. d * a \in Nat
    OBVIOUS
  <2> QED
    BY <2>1, <2>2
<1> QED
  BY <1>1, <1>2

LEMMA CreatingFinite ==
  ASSUME NEW S \in SUBSET Refunder
  PROVE  IsFiniteSet(S) /\ Cardinality(S) \in Nat /\ Cardinality(S) <= Cardinality(Refunder)
           /\ Cardinality(Refunder) \in Nat
BY RefundsAssumption, FS_Subset, FS_CardinalityType

\* A call that leaves, having written its row or not.
LEMMA LeaveRoom ==
  ASSUME NEW C \in SUBSET Refunder, NEW j \in C, NEW a \in Nat, NEW asked \in [C -> Nat],
         NEW r \in Nat, NEW s \in Nat, s <= r + asked[j],
         \A k \in C : asked[k] <= a,
         \/ r + Cardinality(C) * a <= Cardinality(Refunder) * a
         \/ \E k \in C : r + asked[k] + (Cardinality(C) - 1) * a <= Cardinality(Refunder) * a
  PROVE  \/ s + Cardinality(C \ {j}) * a <= Cardinality(Refunder) * a
         \/ \E k \in C \ {j} :
              s + asked[k] + (Cardinality(C \ {j}) - 1) * a <= Cardinality(Refunder) * a
<1> DEFINE n == Cardinality(C)
           t == Cardinality(Refunder) * a
<1>1. Cardinality(C \ {j}) = n - 1 /\ n \in Nat /\ t \in Nat
  BY CreatingFinite, FS_RemoveElement
<1> HIDE DEF n, t
<1>2. (n - 1) * a = n * a - a /\ (n - 1 - 1) * a = n * a - a - a /\ n * a \in Nat
  <2>1. n \in Int /\ a \in Int /\ n - 1 - 1 = n - 2
    BY <1>1
  <2>2. (n - 1) * a = n * a - a /\ (n - 2) * a = n * a - a - a
    BY <2>1, Distributes
  <2>3. n * a \in Nat
    BY <1>1
  <2> QED
    BY <2>1, <2>2, <2>3
<1>3. asked[j] \in Nat /\ asked[j] <= a
  OBVIOUS
<1>4. CASE r + n * a <= t
  <2>1. s + (n - 1) * a <= t
    BY <1>1, <1>2, <1>3, <1>4
  <2> QED
    BY <1>1, <2>1 DEF t
<1>5. ASSUME NEW k \in C, r + asked[k] + (n - 1) * a <= t
      PROVE  \/ s + (n - 1) * a <= t
             \/ k # j /\ s + asked[k] + (n - 1 - 1) * a <= t
  <2>1. asked[k] \in Nat
    OBVIOUS
  <2>2. CASE k = j
    BY <1>1, <1>2, <1>3, <1>5, <2>2
  <2>3. CASE k # j
    BY <1>1, <1>2, <1>3, <1>5, <2>1, <2>3
  <2> QED
    BY <2>2, <2>3
<1>6. CASE \E k \in C : r + asked[k] + (n - 1) * a <= t
  <2>1. PICK k \in C : r + asked[k] + (n - 1) * a <= t
    BY <1>6
  <2> QED
    BY <1>1, <1>5, <2>1 DEF t
<1> QED
  BY <1>4, <1>6 DEF n, t

\* The amounts of a payment.
LEMMA PaymentNumbers ==
  ASSUME RefundsTypeOK, NEW p \in Payment
  PROVE  payments[p].amount \in Nat /\ refunded[p] \in Nat
<1>1. payments[p].amount \in Amounts \cup {0} /\ refunded[p] \in Nat
  BY DEF RefundsTypeOK
<1>2. Amounts \cup {0} \subseteq Nat
  BY RefundsAssumption
<1> QED
  BY <1>1, <1>2

\* What a call in Creating(p) asks for.
LEMMA AskedNumbers ==
  ASSUME RefundsTypeOK, NEW p \in Payment, NEW k \in Creating(p)
  PROVE  refunding[k].amount \in Nat /\ refunding[k].amount # 0
<1>1. k \in Refunder /\ At(k, "create")
  BY DEF Creating
<1>2. refunding[k].amount \in RefundSizes
  BY <1>1, CallFields
<1> QED
  BY <1>2, RefundsAssumption

\* What a step is to the calls that are about to write a refund of payment p.
LEMMA RoomSteps ==
  ASSUME RefundsTypeOK, [Next]_vars, NEW p \in Payment
  PROVE  \/ /\ refunded'[p] = refunded[p]
            /\ payments'[p].amount = payments[p].amount
            /\ Creating(p)' = Creating(p)
            /\ \A k \in Creating(p) : refunding'[k] = refunding[k]
         \/ /\ payments[p].amount = 0
            /\ payments'[p].amount \in Nat
            /\ UNCHANGED <<refunded, refunding>>
         \/ \E k \in Refunder : \/ RefundCreate(k) \/ RefundFail(k)
                                \/ RefundSum(k) /\ refunding'[k].at = "create"
<1> DEFINE Same == /\ refunded'[p] = refunded[p]
                   /\ payments'[p].amount = payments[p].amount
                   /\ Creating(p)' = Creating(p)
                   /\ \A k \in Creating(p) : refunding'[k] = refunding[k]
<1>1. ASSUME UNCHANGED vars PROVE Same
  BY <1>1 DEF vars, Creating, At
<1>2. ASSUME NEW q \in Payment, NEW amount \in Amounts, NEW succeeded \in BOOLEAN,
             CreatePayment(q, amount, succeeded)
      PROVE  \/ Same
             \/ /\ payments[p].amount = 0
                /\ payments'[p].amount \in Nat
                /\ UNCHANGED <<refunded, refunding>>
  <2>1. CASE q = p
    BY <1>2, <2>1, RefundsAssumption DEF CreatePayment, NoPayment, RefundsTypeOK
  <2>2. CASE q # p
    BY <1>2, <2>2 DEF CreatePayment, RefundsTypeOK, Creating, At
  <2> QED
    BY <2>1, <2>2
<1>3. ASSUME NEW k \in Refunder, ~At(k, "create"), refunding'[k].at # "create",
             \A j \in Refunder \ {k} : refunding'[j] = refunding[j],
             refunded'[p] = refunded[p], payments'[p].amount = payments[p].amount
      PROVE  Same
  BY <1>3 DEF Creating, At
<1>4. ASSUME NEW k \in Refunder, NEW q \in Payment, NEW amount \in RefundSizes,
             RefundFind(k, q, amount)
      PROVE  Same
  BY <1>3, <1>4 DEF RefundFind, RefundsTypeOK, At
<1>5. ASSUME NEW k \in Refunder, RefundSum(k)
      PROVE  Same \/ refunding'[k].at = "create"
  BY <1>3, <1>5 DEF RefundSum, EndRefund, RefundsTypeOK, At
<1>6. ASSUME NEW k \in Refunder, RefundMark(k) PROVE Same
  <2>1. payments'[p].amount = payments[p].amount
    BY <1>6 DEF RefundMark, RefundsTypeOK
  <2> QED
    BY <1>3, <1>6, <2>1 DEF RefundMark, EndRefund, RefundsTypeOK, At, Idle
<1> HIDE DEF Same
<1>7. Same => /\ refunded'[p] = refunded[p]
              /\ payments'[p].amount = payments[p].amount
              /\ Creating(p)' = Creating(p)
              /\ \A k \in Creating(p) : refunding'[k] = refunding[k]
  BY DEF Same
<1> QED
  BY <1>1, <1>2, <1>4, <1>5, <1>6, <1>7 DEF Next

LEMMA RoomStep == RefundsTypeOK /\ RoomInv /\ [Next]_vars => RoomInv'
<1> SUFFICES ASSUME RefundsTypeOK, RoomInv, [Next]_vars, NEW p \in Payment
             PROVE  /\ \A k \in Creating(p)' : refunding'[k].amount <= payments'[p].amount
                    /\ Room(p)' \/ \E k \in Creating(p)' : RoomBeside(p, k)'
  BY DEF RoomInv
<1> DEFINE C == Creating(p)
           a == payments[p].amount
           N == Cardinality(Refunder)
           Ok == /\ \A k \in Creating(p)' : refunding'[k].amount <= payments'[p].amount
                 /\ Room(p)' \/ \E k \in Creating(p)' : RoomBeside(p, k)'
<1>1. /\ C \in SUBSET Refunder
      /\ a \in Nat /\ refunded[p] \in Nat
      /\ \A k \in C : refunding[k].amount \in Nat /\ refunding[k].amount # 0
  <2>1. a \in Nat /\ refunded[p] \in Nat
    BY PaymentNumbers
  <2>2. ASSUME NEW k \in C PROVE refunding[k].amount \in Nat /\ refunding[k].amount # 0
    BY AskedNumbers
  <2>3. C \in SUBSET Refunder
    BY DEF Creating
  <2> QED
    BY <2>1, <2>2, <2>3
<1>2. /\ \A k \in C : refunding[k].amount <= a
      /\ \/ refunded[p] + Cardinality(C) * a <= N * a
         \/ \E k \in C : refunded[p] + refunding[k].amount + (Cardinality(C) - 1) * a <= N * a
  BY DEF RoomInv, Room, RoomBeside
<1>3. /\ Cardinality(C) \in Nat /\ Cardinality(C) <= N /\ N \in Nat /\ IsFiniteSet(C)
  BY <1>1, CreatingFinite
<1>4. ASSUME refunded'[p] = refunded[p], payments'[p].amount = a, Creating(p)' = C,
             \A k \in C : refunding'[k] = refunding[k]
      PROVE  Ok
  BY <1>2, <1>4 DEF Room, RoomBeside
<1>5. ASSUME a = 0, payments'[p].amount \in Nat, UNCHANGED <<refunded, refunding>>
      PROVE  Ok
  <2>1. C = {}
    BY <1>1, <1>2, <1>5
  <2>2. Cardinality(C) = 0
    BY <2>1, FS_EmptySet
  <2>3. refunded[p] = 0
    <3>1. Cardinality(C) * a = 0 /\ N * a = 0
      BY <1>3, <1>5
    <3>2. refunded[p] + Cardinality(C) * a <= N * a
      BY <1>2, <2>1
    <3> QED
      BY <1>1, <3>1, <3>2
  <2>4. Creating(p)' = {}
    BY <1>5, <2>1 DEF Creating, At
  <2>5. N * payments'[p].amount >= 0
    BY <1>3, <1>5
  <2>6. Room(p)'
    BY <1>5, <2>2, <2>1, <2>3, <2>4, <2>5 DEF Room
  <2> QED
    BY <2>4, <2>6
<1>6. ASSUME NEW j \in C, Creating(p)' = C \ {j}, payments'[p].amount = a,
             refunded'[p] \in Nat, refunded'[p] <= refunded[p] + refunding[j].amount,
             \A k \in C \ {j} : refunding'[k] = refunding[k]
      PROVE  Ok
  <2> DEFINE asked == [k \in C |-> refunding[k].amount]
  <2>1. asked \in [C -> Nat] /\ \A k \in C : asked[k] = refunding[k].amount
    BY <1>1
  <2> HIDE DEF asked
  <2>2. \/ refunded'[p] + Cardinality(C \ {j}) * a <= N * a
        \/ \E k \in C \ {j} :
             refunded'[p] + asked[k] + (Cardinality(C \ {j}) - 1) * a <= N * a
    <3>1. /\ refunded'[p] \in Nat /\ refunded'[p] <= refunded[p] + asked[j]
          /\ j \in C
      BY <1>6, <2>1
    <3>2. \A k \in C : asked[k] <= a
      BY <1>2, <2>1
    <3>3. \/ refunded[p] + Cardinality(C) * a <= N * a
          \/ \E k \in C : refunded[p] + asked[k] + (Cardinality(C) - 1) * a <= N * a
      BY <1>2, <2>1
    <3>4. C \in SUBSET Refunder /\ a \in Nat /\ refunded[p] \in Nat
      BY <1>1
    <3> HIDE DEF C, a
    <3> QED
      BY <2>1, <3>1, <3>2, <3>3, <3>4, LeaveRoom
  <2>3. \A k \in C \ {j} : asked[k] = refunding'[k].amount
    BY <1>6, <2>1
  <2> QED
    BY <1>2, <1>6, <2>2, <2>3 DEF Room, RoomBeside
<1>7. ASSUME NEW j \in Refunder, RefundCreate(j) \/ RefundFail(j) PROVE Ok
  <2>1. /\ \A k \in Refunder \ {j} : refunding'[k] = refunding[k]
        /\ refunding'[j].at # "create"
        /\ payments' = payments
    <3>1. CASE RefundFail(j)
      BY <3>1 DEF RefundFail, EndRefund, Idle, RefundsTypeOK
    <3>2. CASE RefundCreate(j)
      <4>1. /\ refunding' = [refunding EXCEPT ![j] = [refunding[j] EXCEPT !.at = "mark"]]
            /\ payments' = payments
        BY <3>2 DEF RefundCreate
      <4>2. refunding[j] \in [at : {"create", "mark"}, payment : Payment,
                              amount : RefundSizes, refundedSoFar : Nat]
        BY <3>2, CallFields DEF RefundCreate
      <4>3. [refunding[j] EXCEPT !.at = "mark"].at = "mark"
        BY <4>2
      <4>4. refunding'[j] = [refunding[j] EXCEPT !.at = "mark"]
        BY <4>1 DEF RefundsTypeOK
      <4> QED
        BY <4>1, <4>3, <4>4 DEF RefundsTypeOK
    <3> QED
      BY <1>7, <3>1, <3>2
  <2>2. refunded'[p] \in Nat
    BY TypeStep DEF RefundsTypeOK
  <2>3. CASE j \in C
    <3>1. Creating(p)' = C \ {j}
      BY <2>1 DEF Creating, At
    <3>2. refunded'[p] <= refunded[p] + refunding[j].amount
      <4>1. refunding[j].payment = p
        BY <2>3 DEF Creating
      <4>2. refunding[j].amount \in Nat /\ refunded[p] \in Nat
        BY <1>1, <2>3
      <4>3. CASE RefundFail(j)
        BY <4>2, <4>3 DEF RefundFail
      <4>4. CASE RefundCreate(j)
        BY <4>1, <4>2, <4>4 DEF RefundCreate, RefundsTypeOK
      <4> QED
        BY <1>7, <4>3, <4>4
    <3>3. \A k \in C \ {j} : refunding'[k] = refunding[k]
      BY <1>1, <2>1
    <3>4. payments'[p].amount = a
      BY <2>1
    <3> HIDE DEF Ok
    <3> QED
      BY <1>6, <2>2, <2>3, <3>1, <3>2, <3>3, <3>4
  <2>4. CASE j \notin C
    <3>1. Creating(p)' = C
      BY <2>1, <2>4 DEF Creating, At
    <3>2. refunded'[p] = refunded[p]
      <4>1. CASE RefundFail(j)
        BY <4>1 DEF RefundFail
      <4>2. CASE RefundCreate(j)
        <5>1. refunding[j].payment # p
          BY <2>4, <4>2 DEF RefundCreate, Creating
        <5> QED
          BY <4>2, <5>1 DEF RefundCreate, RefundsTypeOK
      <4> QED
        BY <1>7, <4>1, <4>2
    <3>3. \A k \in C : refunding'[k] = refunding[k]
      BY <1>1, <2>1, <2>4
    <3>4. payments'[p].amount = a
      BY <2>1
    <3> HIDE DEF Ok
    <3> QED
      BY <1>4, <3>1, <3>2, <3>3, <3>4
  <2> QED
    BY <2>3, <2>4
<1>8. ASSUME NEW j \in Refunder, RefundSum(j), refunding'[j].at = "create" PROVE Ok
  <2>1. /\ refunding[j] \in [at : {"sum"}, payment : Payment, amount : RefundSizes]
        /\ At(j, "sum")
    BY <1>8, CallFields DEF RefundSum
  <2> DEFINE call == refunding[j]
             q == call.payment
  <2>2. /\ refunded[q] + call.amount <= payments[q].amount
        /\ refunding' = [refunding EXCEPT ![j] =
             [at |-> "create", payment |-> q, amount |-> call.amount,
              refundedSoFar |-> refunded[q]]]
        /\ payments' = payments /\ refunded' = refunded
    <3>1. q \in Payment /\ call.amount \in Nat
      BY <2>1, RefundsAssumption
    <3>2. refunded[q] \in Nat /\ payments[q].amount \in Nat
      BY <3>1, PaymentNumbers
    <3>3. ~(SumOf(q) + call.amount > payments[q].amount)
      BY <1>8 DEF RefundSum, EndRefund, Idle, RefundsTypeOK
    <3> QED
      BY <1>8, <3>1, <3>2, <3>3 DEF RefundSum, SumOf
  <2>3. /\ refunding'[j].payment = q /\ refunding'[j].amount = call.amount
        /\ \A k \in Refunder \ {j} : refunding'[k] = refunding[k]
        /\ j \notin C
    BY <2>1, <2>2 DEF RefundsTypeOK, Creating, At
  <2>4. CASE q # p
    <3>1. Creating(p)' = C
      BY <2>3, <2>4 DEF Creating, At
    <3>2. \A k \in C : refunding'[k] = refunding[k]
      BY <1>1, <2>3
    <3>3. payments'[p].amount = a /\ refunded'[p] = refunded[p]
      BY <2>2
    <3> HIDE DEF Ok
    <3> QED
      BY <1>4, <3>1, <3>2, <3>3
  <2>5. CASE q = p
    <3>1. Creating(p)' = C \cup {j}
      BY <1>8, <2>3, <2>5 DEF Creating, At
    <3>2. Cardinality(C \cup {j}) = Cardinality(C) + 1
      BY <1>3, <2>3, FS_AddElement
    <3>3. Cardinality(C) + 1 <= N
      <4>1. C \cup {j} \in SUBSET Refunder
        BY <1>1
      <4> QED
        BY <3>2, <4>1, CreatingFinite
    <3>4. (Cardinality(C) + 1) * a <= N * a
      BY <1>1, <1>3, <3>3, Monotone
    <3>5. (Cardinality(C) + 1) * a = Cardinality(C) * a + a
      BY <1>1, <1>3, Distributes
    <3>6. refunded[p] + call.amount <= a /\ call.amount \in Nat
      BY <2>1, <2>2, <2>5, RefundsAssumption
    <3>7. refunded[p] + call.amount + Cardinality(C) * a <= N * a
      <4>1. Cardinality(C) * a \in Nat /\ N * a \in Nat
        BY <1>1, <1>3
      <4> QED
        BY <1>1, <3>4, <3>5, <3>6, <4>1
    <3>8. Cardinality(C \cup {j}) - 1 = Cardinality(C)
      BY <1>3, <3>2
    <3>9. RoomBeside(p, j)'
      BY <2>2, <2>3, <2>5, <3>1, <3>7, <3>8 DEF RoomBeside
    <3>10. \A k \in Creating(p)' : refunding'[k].amount <= payments'[p].amount
      BY <1>1, <1>2, <2>2, <2>3, <3>1, <3>6
    <3> QED
      BY <3>1, <3>9, <3>10
  <2> QED
    BY <2>4, <2>5
<1> HIDE DEF Ok, C, N
<1>9. Ok
  BY <1>4, <1>5, <1>7, <1>8, RoomSteps DEF C
<1> QED
  BY <1>9 DEF Ok

\* However many refund calls overlap and die, what is paid back of a payment is at most
\* the payment once for each call there can be at a time: a call is refused when the
\* refunds it reads and its own exceed it (payments.service.ts refund).
THEOREM RefundsStayBounded == Spec => []RefundsBounded
<1> DEFINE Inv == RefundsTypeOK /\ RoomInv
<1>1. RefundsInit => Inv
  <2> SUFFICES ASSUME RefundsInit PROVE RoomInv
    BY TypeInit
  <2>1. \A p \in Payment : Creating(p) = {} /\ refunded[p] = 0 /\ payments[p].amount = 0
    BY DEF RefundsInit, Creating, At, Idle, NoPayment
  <2>2. Cardinality({}) = 0 /\ Cardinality(Refunder) \in Nat
    BY RefundsAssumption, FS_EmptySet, FS_CardinalityType
  <2>3. \A p \in Payment : Room(p)
    <3> TAKE p \in Payment
    <3>1. 0 + 0 * 0 <= Cardinality(Refunder) * 0
      BY <2>2
    <3> QED
      BY <2>1, <2>2, <3>1 DEF Room
  <2> QED
    BY <2>1, <2>3 DEF RoomInv
<1>2. Inv /\ [Next]_vars => Inv'
  BY TypeStep, RoomStep
<1>3. Inv => RefundsBounded
  <2> SUFFICES ASSUME Inv, NEW p \in Payment
               PROVE  refunded[p] <= Cardinality(Refunder) * payments[p].amount
    BY DEF RefundsBounded
  <2>1. refunded[p] \in Nat /\ payments[p].amount \in Nat
    BY PaymentNumbers
  <2>2. Creating(p) \in SUBSET Refunder
    BY DEF Creating
  <2>3. /\ IsFiniteSet(Creating(p)) /\ Cardinality(Creating(p)) \in Nat
        /\ Cardinality(Refunder) \in Nat
    BY <2>2, CreatingFinite
  <2>4. Cardinality(Refunder) * payments[p].amount \in Nat
    BY <2>1, <2>3
  <2>5. CASE Room(p)
    <3>1. Cardinality(Creating(p)) * payments[p].amount \in Nat
      BY <2>1, <2>3
    <3> QED
      BY <2>1, <2>4, <2>5, <3>1 DEF Room
  <2>6. ASSUME NEW k \in Creating(p), RoomBeside(p, k)
        PROVE  refunded[p] <= Cardinality(Refunder) * payments[p].amount
    <3>1. refunding[k].amount \in Nat
      BY <2>6, AskedNumbers
    <3>2. Cardinality(Creating(p)) - 1 \in Nat
      BY <2>3, <2>6, FS_EmptySet
    <3>3. (Cardinality(Creating(p)) - 1) * payments[p].amount \in Nat
      BY <2>1, <3>2
    <3> QED
      BY <2>1, <2>4, <2>6, <3>1, <3>3 DEF RoomBeside
  <2> QED
    BY <2>5, <2>6 DEF RoomInv
<1> QED
  BY <1>1, <1>2, <1>3, PTL DEF Spec
=============================================================================
