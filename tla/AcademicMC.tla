---------------------------- MODULE AcademicMC ----------------------------
(***************************************************************************)
(* Instances of Academic for TLC, whose behaviours are of two kinds: the   *)
(* requests overlap, or they come one at a time.                           *)
(***************************************************************************)
EXTENDS Academic, TLC

CONSTANTS s1, s2, jj, c1, p1, p2, m1, m2, a1, d1, r1, r2

VARIABLE serial

\* The ids of rows and requests are interchangeable, and so are students,
\* modalities and classes.
Symmetry ==
  Permutations(Students) \cup Permutations(Modalities) \cup Permutations(Classes)
    \cup Permutations(Periods) \cup Permutations(Memberships)
    \cup Permutations(Attendances) \cup Permutations(Requests)

MCInit == Init /\ serial \in BOOLEAN
MCNext ==
  /\ UNCHANGED serial
  /\ \/ serial /\ SerialNext
     \/ ~ serial /\ Next
MCSpec == MCInit /\ [][MCNext]_<<vars, serial>>

\* What the operations keep by their logic, and overlapping requests may break:
\* a class's members train its modality, no class is overbooked, and a finished
\* period is not altered.
SerialRules ==
  [][serial => ClassNeedsModality' /\ WithinCapacity' /\ PeriodsStayFinished]_<<vars, serial>>
=============================================================================
