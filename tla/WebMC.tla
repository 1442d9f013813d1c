-------------------------------- MODULE WebMC --------------------------------
(***************************************************************************)
(* The web application: its session, its reports and its form for a new    *)
(* student.  None reads the state of another, so a behaviour runs one.     *)
(***************************************************************************)
EXTENDS WebSession, ReportsPanel, EnrolmentForm

CONSTANTS p1, d1, d2, k1

VARIABLE part

vars == <<part, sessionVars, panelVars, formVars>>

\* The account is switched off or on, or becomes a teacher's, which may do less
\* than some roles and more than others.
SingleChanges ==
  {change \in Change : /\ Cardinality({f \in DOMAIN change : change[f] # {}}) = 1
                       /\ change.role \subseteq {"TEACHER"} /\ change.password = {}}

FieldValues ==
  [status |-> {}, modality |-> {"m1"}, from |-> {2}, to |-> {1}, name |-> {}, class |-> {"c1"}, belt |-> {}]
Rows ==
  [students |-> {[status |-> "A", modalities |-> {"m1"}, date |-> 1],
                 [status |-> "B", modalities |-> {"m1", "m2"}, date |-> 2],
                 [status |-> "A", modalities |-> {}, date |-> 3],
                 [status |-> "B", modalities |-> {}, date |-> 3]},
   financial |-> {[status |-> "A", date |-> 1], [status |-> "A", date |-> 2], [status |-> "B", date |-> 2]},
   attendance |-> {[status |-> "A", class |-> "c1", name |-> "x", date |-> 1],
                   [status |-> "A", class |-> "c2", name |-> "x", date |-> 1],
                   [status |-> "B", class |-> "c1", name |-> "x", date |-> 2]},
   graduations |-> {[modality |-> "m1", belt |-> "W", date |-> 1], [modality |-> "m2", belt |-> "W", date |-> 2]}]
ClassesModality == k1 :> d1

TypeOK == WebTypeOK /\ ReportsTypeOK /\ FormTypeOK

Init ==
  /\ part \in {"session", "reports", "form"}
  /\ WebInit /\ ReportsInit /\ FormInit
  /\ part # "session" => \A u \in AccountIds : user[u] = Missing
  /\ part # "form" => full = {}
Next ==
  \/ part = "session" /\ WebNext /\ UNCHANGED <<part, panelVars, formVars>>
  \/ part = "reports" /\ ReportsNext /\ UNCHANGED <<part, sessionVars, formVars>>
  \/ part = "form" /\ FormNext /\ UNCHANGED <<part, sessionVars, panelVars>>
Spec == Init /\ [][Next]_vars /\ WebFairness
=============================================================================
