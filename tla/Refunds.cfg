\* Two refund calls at once on two payments: parts that add up, a part too many,
\* a payment of nothing.
SPECIFICATION Spec
CONSTANTS
  Payment = {p1, p2}
  Amounts = {0, 3}
  RefundSizes = {1, 2, 3}
  Refunder = {r1, r2}
SYMMETRY RefundsSymmetry
INVARIANTS
  RefundsBounded
  RefundedMeansAll
CHECK_DEADLOCK FALSE
