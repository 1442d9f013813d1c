---------------------------- MODULE Graduations ----------------------------
(***************************************************************************)
(* Belts and degrees: records that are corrected by a new version and      *)
(* never changed or removed (backend/src/graduation/graduation.service.ts).*)
(*                                                                         *)
(* create checks for a duplicate and inserts in separate statements.       *)
(* update validates the version it has read and then, in a transaction,    *)
(* supersedes it if it is still active and inserts the next one.  cancel   *)
(* is one guarded statement.  A check on the actor, the dates, the level   *)
(* or the student's period refuses a request before it writes: such a      *)
(* request does not start, or ends in AbortRequest.                        *)
(***************************************************************************)
EXTENDS FiniteSets

CONSTANTS
  Ids,       \* ids of the rows of Graduation
  Subjects,  \* a student and a modality
  Facts,     \* graduationLevelId, degree and graduatedAt
  Requests,  \* HTTP requests that can be in flight at the same time
  None,      \* the SQL NULL of a reference
  Blank,     \* of GraduationBook: no such graduation
  Struck     \* of GraduationBook: cancelled

VARIABLES
  row,     \* the rows of Graduation
  origin,  \* history: the row whose chain of corrections a row belongs to
  req      \* what each request in flight has read so far

vars == <<row, origin, req>>

-----------------------------------------------------------------------------
(* Types *)

\* No row yet under this id.
Absent == [status |-> "ABSENT"]

Row == [status : {"ACTIVE", "SUPERSEDED", "CANCELLED"}, who : Subjects, what : Facts,
        corrects : Ids \cup {None}]

Entry == [who : Subjects, what : Facts]

ASSUME GraduationAssumption ==
  /\ None \notin Ids
  /\ Blank \notin Entry /\ Struck \notin Entry /\ Blank # Struck

Idle == [op |-> "idle"]
CreateRequest == [op : {"create"}, entry : Entry]
CorrectRequest == [op : {"correct"}, of : Ids, what : Facts]

TypeOK ==
  /\ row \in [Ids -> Row \cup {Absent}]
  /\ origin \in [Ids -> Ids \cup {None}]
  /\ req \in [Requests -> {Idle} \cup CreateRequest \cup CorrectRequest]

-----------------------------------------------------------------------------
(* Operations *)

\* What a row says.
Says(i) == [who |-> row[i].who, what |-> row[i].what]

\* The partial unique index on active rows: e may be inserted, when the row
\* except (None: no row) has just been superseded.
Free(e, except) == \A i \in Ids \ {except} : row[i].status = "ACTIVE" => Says(i) # e

Init ==
  /\ row = [i \in Ids |-> Absent]
  /\ origin = [i \in Ids |-> None]
  /\ req = [r \in Requests |-> Idle]

Create(r, e) ==
  /\ req[r] = Idle /\ Free(e, None)
  /\ req' = [req EXCEPT ![r] = [op |-> "create", entry |-> e]]
  /\ UNCHANGED <<row, origin>>

CreateCommit(r, i) ==
  /\ req[r].op = "create" /\ row[i] = Absent /\ Free(req[r].entry, None)
  /\ row' = [row EXCEPT ![i] = [status |-> "ACTIVE", who |-> req[r].entry.who,
                                what |-> req[r].entry.what, corrects |-> None]]
  /\ origin' = [origin EXCEPT ![i] = i]
  /\ req' = [req EXCEPT ![r] = Idle]

\* update: the version to correct and what the correction makes of it.
Correct(r, i, what) ==
  /\ req[r] = Idle /\ row[i].status = "ACTIVE"
  /\ req' = [req EXCEPT ![r] = [op |-> "correct", of |-> i, what |-> what]]
  /\ UNCHANGED <<row, origin>>

\* Mutant of NextVersion: the link to the corrected row is forgotten.
NextVersionUnlinked(of, what) ==
  [status |-> "ACTIVE", who |-> row[of].who, what |-> what, corrects |-> None]

\* The version a correction adds to the table.
NextVersion(of, what) ==
  [status |-> "ACTIVE", who |-> row[of].who, what |-> what, corrects |-> of]

\* Mutant of Supersedes: the count of superseded rows is not looked at.
SupersedesAnyway(i) == row[i].status # "ABSENT"

\* The guarded updateMany finds its row.
Supersedes(i) == row[i].status = "ACTIVE"

CorrectCommit(r, j) ==
  LET i == req[r].of
      what == req[r].what
  IN
  /\ req[r].op = "correct" /\ Supersedes(i) /\ row[j] = Absent
  /\ Free([who |-> row[i].who, what |-> what], i)
  /\ row' = [row EXCEPT ![i].status = "SUPERSEDED", ![j] = NextVersion(i, what)]
  /\ origin' = [origin EXCEPT ![j] = origin[i]]
  /\ req' = [req EXCEPT ![r] = Idle]

Cancellable(i) == row[i].status = "ACTIVE"

Cancel(i) ==
  /\ Cancellable(i)
  /\ row' = [row EXCEPT ![i].status = "CANCELLED"]
  /\ UNCHANGED <<origin, req>>

\* A request ends without a write: refused, failed, or its process stopped.
AbortRequest(r) ==
  /\ req[r] # Idle
  /\ req' = [req EXCEPT ![r] = Idle]
  /\ UNCHANGED <<row, origin>>

Next ==
  \/ \E i \in Ids : Cancel(i)
  \/ \E r \in Requests :
       \/ \E e \in Entry : Create(r, e)
       \/ \E i \in Ids, what \in Facts : Correct(r, i, what)
       \/ \E i \in Ids : CreateCommit(r, i) \/ CorrectCommit(r, i)
       \/ AbortRequest(r)

Spec == Init /\ [][Next]_vars

-----------------------------------------------------------------------------
(* Properties *)

\* The rows of the graduation that began as o.
Versions(o) == {i \in Ids : row[i] # Absent /\ origin[i] = o}

\* However corrections and cancellations of it overlap, a graduation has one
\* version that counts: the one that is not superseded (update, cancel).
OneVersionCounts ==
  \A o \in Ids : \A i, j \in Versions(o) :
    row[i].status # "SUPERSEDED" /\ row[j].status # "SUPERSEDED" => i = j

\* Every superseded version was corrected by exactly one row, of the same student
\* and modality, and no other version was corrected: the chain has no fork and no
\* end that is missing (correctsGraduationId).
ChainUnbroken ==
  \A i \in Ids :
    LET next == {j \in Ids : row[j] # Absent /\ row[j].corrects = i} IN
    IF row[i].status = "SUPERSEDED"
    THEN \E j \in next : next = {j} /\ row[j].who = row[i].who
    ELSE next = {}

\* The table read through its chains of versions.
Reading ==
  [o \in Ids |->
     IF Versions(o) = {} THEN Blank
     ELSE IF \E i \in Versions(o) : row[i].status = "ACTIVE"
     THEN Says(CHOOSE i \in Versions(o) : row[i].status = "ACTIVE")
     ELSE Struck]

Book == INSTANCE GraduationBook WITH book <- Reading

\* What a reader of the chains sees is a book: each graduation has
\* one entry, corrected while it stands and struck out at most once.
ImplementsBook == Book!Spec
=============================================================================
