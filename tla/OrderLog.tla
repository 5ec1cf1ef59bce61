------------------------------ MODULE OrderLog ------------------------------
(* What order_status_history promises, per order: a log that starts with the  *)
(* creation of the order and only ever grows, by one allowed transition at a  *)
(* time, out of a status the order is in or has been in, and whose last row   *)
(* is the order's status.                                                     *)
EXTENDS OrderStatusRules, Sequences

CONSTANT Order
VARIABLES status, history

logVars == <<status, history>>

LogInit ==
  /\ status = [o \in Order |-> "none"]
  /\ history = [o \in Order |-> <<>>]

Open(o) ==
  /\ history[o] = <<>>
  /\ status' = [status EXCEPT ![o] = "PENDING_PAYMENT"]
  /\ history' = [history EXCEPT ![o] = <<[from |-> "none", to |-> "PENDING_PAYMENT"]>>]

\* i is the row that brought the order into the status the step leaves.
Move(o, i, to) ==
  LET from == history[o][i].to
  IN  /\ canTransition(from, to)
      /\ status' = [status EXCEPT ![o] = to]
      /\ history' = [history EXCEPT ![o] = Append(@, [from |-> from, to |-> to])]

LogNext ==
  \E o \in Order :
    \/ Open(o)
    \/ \E i \in 1..Len(history[o]), to \in OrderStatus : Move(o, i, to)

LogSpec == LogInit /\ [][LogNext]_logVars
=============================================================================
