------------------------------ MODULE AccessMC ------------------------------
(***************************************************************************)
(* The accounts and the limit on login attempts, each by itself: neither   *)
(* reads the state of the other, so a behaviour runs one of the two.       *)
(***************************************************************************)
EXTENDS Accounts, LoginAttempts, TLC

VARIABLE part

vars == <<part, accountVars, attemptVars>>

\* The updates that change one field.
SingleChanges ==
  {change \in Change : Cardinality({f \in DOMAIN change : change[f] # {}}) = 1}
Symmetry ==
  Permutations(Passwords) \cup Permutations(Updates) \cup Permutations(Emails)

TypeOK == AccountsTypeOK /\ AttemptsTypeOK

Init ==
  /\ part \in {"accounts", "attempts"} /\ AccountsInit /\ AttemptsInit
  /\ part # "accounts" => \A u \in AccountIds : user[u] = Missing
Next ==
  \/ part = "accounts" /\ AccountsNext /\ UNCHANGED <<part, attemptVars>>
  \/ part = "attempts" /\ AttemptsNext /\ UNCHANGED <<part, accountVars>>
Spec == Init /\ [][Next]_vars
=============================================================================
