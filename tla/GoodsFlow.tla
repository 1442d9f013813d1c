----------------------------- MODULE GoodsFlow -----------------------------
(***************************************************************************)
(* What the store promises about goods, with no payment, request or        *)
(* transaction in sight: units come in, an order is placed with fixed      *)
(* lines, its goods leave the stock all together and at most once, and may *)
(* be returned all together.  Nothing else moves stock, and no unit that   *)
(* is not there leaves.                                                    *)
(***************************************************************************)
EXTENDS Naturals

CONSTANTS Orders, Variants

VARIABLES
  stock,      \* units available of each variant
  lines,      \* units of each variant an order takes
  placed,     \* the orders whose lines are fixed
  released    \* the orders whose goods have left

goods == <<stock, lines, placed, released>>

Init ==
  /\ stock = [v \in Variants |-> 0]
  /\ lines = [o \in Orders |-> [v \in Variants |-> 0]]
  /\ placed = {}
  /\ released = {}

Receive(v) ==
  /\ stock'[v] \in Nat /\ stock'[v] > stock[v]
  /\ stock' = [stock EXCEPT ![v] = stock'[v]]
  /\ UNCHANGED <<lines, placed, released>>

Place(o) ==
  /\ o \notin placed
  /\ lines'[o] \in [Variants -> Nat]
  /\ lines' = [lines EXCEPT ![o] = lines'[o]]
  /\ placed' = placed \cup {o}
  /\ UNCHANGED <<stock, released>>

Release(o) ==
  /\ o \in placed \ released
  /\ \A v \in Variants : lines[o][v] <= stock[v]
  /\ stock' = [v \in Variants |-> stock[v] - lines[o][v]]
  /\ released' = released \cup {o}
  /\ UNCHANGED <<lines, placed>>

Return(o) ==
  /\ o \in released
  /\ stock' = [v \in Variants |-> stock[v] + lines[o][v]]
  /\ UNCHANGED <<lines, placed, released>>

Next ==
  \/ \E v \in Variants : Receive(v)
  \/ \E o \in Orders : Place(o) \/ Release(o) \/ Return(o)

Spec == Init /\ [][Next]_goods
=============================================================================
