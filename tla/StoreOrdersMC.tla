--------------------------- MODULE StoreOrdersMC ---------------------------
(* Instances of StoreOrders for TLC. *)
EXTENDS StoreOrders, TLC

CONSTANTS o1, o2, p1, p2, p3, shirt, sv, kv, rec, own, stu, r1, r2

\* Every variant is of the one product.
AllOfShirt == [v \in Variants |-> shirt]

\* The ids of rows and requests are interchangeable, and so are the variants of
\* the one product.
Symmetry ==
  Permutations(Orders) \cup Permutations(Payments) \cup Permutations(Requests)
    \cup Permutations(Variants)
=============================================================================
