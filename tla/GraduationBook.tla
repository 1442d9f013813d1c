--------------------------- MODULE GraduationBook ---------------------------
(***************************************************************************)
(* What the graduation history promises its readers: a book with one entry *)
(* per graduation.  An entry is written once, may be corrected while it    *)
(* stands, may be struck out, and is never removed; no two standing        *)
(* entries say the same.                                                   *)
(***************************************************************************)
CONSTANTS
  Ids,       \* graduations
  Subjects,  \* a student and a modality
  Facts,     \* a level, a degree and a date
  Blank,     \* an entry not yet written
  Struck     \* an entry struck out

VARIABLE book

Entry == [who : Subjects, what : Facts]

TypeOK == book \in [Ids -> Entry \cup {Blank, Struck}]

Init == book = [o \in Ids |-> Blank]

Standing(e) == \E o \in Ids : book[o] = e

Write(o, e) ==
  /\ book[o] = Blank /\ ~ Standing(e)
  /\ book' = [book EXCEPT ![o] = e]

\* A correction says something new, or repeats the entry (its notes may differ).
Correct(o, e) ==
  /\ book[o] \in Entry /\ book[o].who = e.who
  /\ Standing(e) => book[o] = e
  /\ book' = [book EXCEPT ![o] = e]

Strike(o) ==
  /\ book[o] \in Entry
  /\ book' = [book EXCEPT ![o] = Struck]

Next ==
  \E o \in Ids :
    \/ \E e \in Entry : Write(o, e) \/ Correct(o, e)
    \/ Strike(o)

Spec == Init /\ [][Next]_book
=============================================================================
