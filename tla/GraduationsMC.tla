--------------------------- MODULE GraduationsMC ---------------------------
(* Instances of Graduations for TLC. *)
EXTENDS Graduations, TLC

CONSTANTS g1, g2, g3, g4, ana, leo, blue, purple, r1, r2

\* The ids of rows and requests, the students and the belts are interchangeable.
Symmetry ==
  Permutations(Ids) \cup Permutations(Subjects) \cup Permutations(Facts)
    \cup Permutations(Requests)
=============================================================================
