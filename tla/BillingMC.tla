----------------------------- MODULE BillingMC -----------------------------
(* Instances of Billing for TLC. *)
EXTENDS Billing, TLC

CONSTANTS s1, s2, basic, full, c1, c2, c3, c4, p1, p2, r1, r2

\* A charge made by hand: an exam of the second month, with no plan.
HandMade(status) ==
  [status |-> status, student |-> s1, type |-> "OTHER", month |-> 1, plan |-> None,
   final |-> 2, due |-> 1]

ManualRows == {HandMade("PENDING")}
MonthlyRows == {[HandMade("PENDING") EXCEPT !.type = "MONTHLY_FEE", !.plan = basic]}

Cheaper == [final |-> 1]
Later == [due |-> 3, month |-> 0]
Reopened == [status |-> "PENDING"]

SomePatches == {Cheaper, Reopened}
MovingPatches == {Later}

Symmetry == Permutations(Charges) \cup Permutations(Payments) \cup Permutations(Requests)
=============================================================================
