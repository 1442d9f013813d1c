-------------------------------- MODULE ShopMC --------------------------------
(***************************************************************************)
(* The cart of a student and the files of the store.  Neither reads the    *)
(* state of the other, so a behaviour runs one.                            *)
(***************************************************************************)
EXTENDS StoreCart, DocumentStore, TLC

CONSTANTS v1, c1, c2, s1, j1, j2

VARIABLE part

vars == <<part, cartVars, documentVars>>

Symmetry == Permutations(Calls) \cup Permutations(Jobs)

TypeOK == CartTypeOK /\ DocumentsTypeOK

\* The part that does not run has one initial state.
Init ==
  /\ part \in {"cart", "files"}
  /\ CartInit /\ DocumentsInit
  /\ part # "cart" => \A v \in Variants : shelf[v] = CHOOSE row \in Shelf : row.status = "ACTIVE"
  /\ part # "files" => image = NoKey
Next ==
  \/ part = "cart" /\ CartNext /\ UNCHANGED <<part, documentVars>>
  \/ part = "files" /\ DocumentsNext /\ UNCHANGED <<part, cartVars>>
Spec == Init /\ [][Next]_vars
=============================================================================
