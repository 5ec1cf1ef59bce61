------------------------------- MODULE Cents --------------------------------
(* Amounts are rounded to cents in three places: by Math.round in the cart and *)
(* for a discount, by the column of an order item's lineTotal.                 *)
EXTENDS Integers

\* The whole numbers nearest to n / d.  Of two that are as near either may come out: what
\* is rounded is a binary number a little above or below (2.01 * 0.5 is), and the column
\* rounds its decimal form.
Nearest(n, d) == {c \in (n \div d)..((n \div d) + 1) : 2 * (d * c - n) \in -d..d}
=============================================================================
