----------------------------- MODULE Academic -----------------------------
(***************************************************************************)
(* Modality periods, class memberships and attendance: the academic half   *)
(* of backend/src/enrollment, with backend/src/student-modality,           *)
(* student-class, class, modality and attendance.                          *)
(*                                                                         *)
(* maintain and the attendance operations run at Serializable: one step.   *)
(* The other operations read first and write later, with no transaction,   *)
(* and enrolment checks modalities and classes before its READ COMMITTED   *)
(* transaction, in which it reads the current periods and then writes.     *)
(* What a request has read is in req.  The plan and the charges of an      *)
(* enrolment are in Billing: a refusal because of them is AbortRequest.    *)
(***************************************************************************)
EXTENDS Integers, FiniteSets, Functions

CONSTANTS
  Students,     \* ids of the rows of Student
  Modalities,   \* ids of the rows of Modality
  Classes,      \* ids of the rows of Class
  Periods,      \* ids of the rows of StudentModality
  Memberships,  \* ids of the rows of StudentClass
  Attendances,  \* ids of the rows of Attendance
  Days,         \* the days up to today on which attendance is recorded
  Requests,     \* HTTP requests that can be in flight at the same time
  None,         \* the SQL NULL of a reference
  Capacities    \* the capacities a class may be given

VARIABLES
  modality,     \* the rows of Modality
  class,        \* the rows of Class
  edited,       \* history: classes whose modality or capacity was changed
  period,       \* the rows of StudentModality
  membership,   \* the rows of StudentClass
  attendance,   \* the rows of Attendance
  req           \* what each request in flight has read so far

offer == <<modality, class, edited>>
rows == <<offer, period, membership, attendance>>
vars == <<modality, class, edited, period, membership, attendance, req>>

ASSUME AcademicAssumption ==
  /\ IsFiniteSet(Memberships) /\ IsFiniteSet(Requests)
  /\ Capacities \subseteq Nat \ {0}
  /\ None \notin Periods

-----------------------------------------------------------------------------
(* Types *)

\* No row yet under this id.
NoRow == [status |-> "NO_ROW"]

Current == {"ACTIVE", "PAUSED"}

\* A class is OPEN when it is active and so is its teacher.
Class == [status : {"OPEN", "CLOSED"}, modality : Modalities, capacity : Capacities]
Period == [status : Current \cup {"FINISHED"}, student : Students, modality : Modalities]
Membership == [status : {"ACTIVE", "FINISHED"}, student : Students, class : Classes]
AttendanceStatus == {"PRESENT", "ABSENT", "JUSTIFIED"}
Attendance == [status : AttendanceStatus, student : Students, class : Classes, day : Days]

\* enrol: enrolment before its transaction; resume: in it; start: a period is
\* created, or resumed when period is not None; change: a period's status is
\* written; join: a student enters a class.
Idle == [op |-> "idle"]
EnrolRequest ==
  [op : {"enrol"}, student : Students, modalities : SUBSET Modalities, classes : SUBSET Classes]
ResumeRequest ==
  [op : {"resume"}, student : Students, modalities : SUBSET Modalities,
   classes : SUBSET Classes, paused : SUBSET Periods]
StartRequest ==
  [op : {"start"}, student : Students, modality : Modalities, period : Periods \cup {None}]
ChangeRequest == [op : {"change"}, period : Periods, to : Current \cup {"FINISHED"}]
JoinRequest == [op : {"join"}, student : Students, classes : SUBSET Classes]
Request == {Idle} \cup EnrolRequest \cup ResumeRequest \cup StartRequest
             \cup ChangeRequest \cup JoinRequest

TypeOK ==
  /\ modality \in [Modalities -> {"ACTIVE", "INACTIVE", "ABSENT"}]
  /\ class \in [Classes -> Class \cup {NoRow}]
  /\ edited \subseteq Classes
  /\ period \in [Periods -> Period \cup {NoRow}]
  /\ membership \in [Memberships -> Membership \cup {NoRow}]
  /\ attendance \in [Attendances -> Attendance \cup {NoRow}]
  /\ req \in [Requests -> Request]

-----------------------------------------------------------------------------
(* Helpers *)

\* The modalities with Modality.active.
Taught == {m \in Modalities : modality[m] = "ACTIVE"}

\* The modality of a class whose row exists.
ModalityOf(c) == class[c].modality

PeriodsOf(s, S) == {p \in Periods : period[p].status \in S /\ period[p].student = s}
ActiveModalities(s) == {period[p].modality : p \in PeriodsOf(s, {"ACTIVE"})}

ActiveIn(table) == {m \in Memberships : table[m].status = "ACTIVE"}
Members(table, c) == {m \in ActiveIn(table) : table[m].class = c}
ClassesOf(table, s) == {table[m].class : m \in {n \in ActiveIn(table) : table[n].student = s}}

\* The partial unique indexes: one current period of a student in a modality, and
\* one active membership of a student in a class.
OneCurrentPeriod(table) ==
  \A p, q \in Periods :
    /\ table[p].status \in Current /\ table[q].status \in Current
    /\ table[p].student = table[q].student /\ table[p].modality = table[q].modality
    => p = q

OneActiveMembership(table) ==
  \A m, n \in ActiveIn(table) :
    table[m].student = table[n].student /\ table[m].class = table[n].class => m = n

\* The table with new rows under free ids.
Insert(table, new) ==
  {[i \in DOMAIN table |-> IF i \in Range(id) THEN CHOOSE row \in new : id[row] = i ELSE table[i]] :
     id \in Injection(new, {i \in DOMAIN table : table[i] = NoRow})}

SetStatus(table, I, s) ==
  [i \in DOMAIN table |-> IF i \in I THEN [table[i] EXCEPT !.status = s] ELSE table[i]]

NewPeriods(s, M) == {[status |-> "ACTIVE", student |-> s, modality |-> m] : m \in M}
\* The table with new periods, as the foreign key lets them in.
Begun(table, s, M) ==
  {new \in Insert(table, NewPeriods(s, M)) : \A m \in M : modality[m] # "ABSENT"}

NewMemberships(s, C) == {[status |-> "ACTIVE", student |-> s, class |-> c] : c \in C}

\* Mutant of HasRoom: a class is full only when it has more than its capacity.
HasRoomForOneMore(table, c) == Cardinality(Members(table, c)) <= class[c].capacity

HasRoom(table, c) == Cardinality(Members(table, c)) < class[c].capacity

Init ==
  /\ modality = [m \in Modalities |-> "ACTIVE"]
  /\ class = [c \in Classes |-> NoRow]
  /\ edited = {}
  /\ period = [p \in Periods |-> NoRow]
  /\ membership = [m \in Memberships |-> NoRow]
  /\ attendance = [a \in Attendances |-> NoRow]
  /\ req = [r \in Requests |-> Idle]

-----------------------------------------------------------------------------
(* Modalities and classes *)

\* create, when there is no such modality, and update.
UpdateModality(m, status) ==
  /\ modality' = [modality EXCEPT ![m] = status]
  /\ UNCHANGED <<class, edited, period, membership, attendance, req>>

\* remove: refused by the foreign keys of classes and periods (and of graduations).
RemoveModality(m) ==
  /\ modality[m] # "ABSENT"
  /\ \A c \in Classes : class[c] # NoRow => ModalityOf(c) # m
  /\ \A p \in Periods : period[p] # NoRow => period[p].modality # m
  /\ modality' = [modality EXCEPT ![m] = "ABSENT"]
  /\ UNCHANGED <<class, edited, period, membership, attendance, req>>

CreateClass(c, new) ==
  /\ class[c] = NoRow /\ modality[new.modality] # "ABSENT"
  /\ class' = [class EXCEPT ![c] = new]
  /\ UNCHANGED <<modality, edited, period, membership, attendance, req>>

\* update, of the class or of its teacher's account: whoever is in the class.
UpdateClass(c, new) ==
  /\ class[c] # NoRow /\ modality[new.modality] # "ABSENT"
  /\ class' = [class EXCEPT ![c] = new]
  /\ edited' = IF new.modality = class[c].modality /\ new.capacity = class[c].capacity
               THEN edited ELSE edited \cup {c}
  /\ UNCHANGED <<modality, period, membership, attendance, req>>

\* Mutant of RemoveClass: only classes with active members are kept.
RemoveEmptyClass(c) ==
  /\ class[c] # NoRow /\ Members(membership, c) = {}
  /\ class' = [class EXCEPT ![c] = NoRow]
  /\ edited' = edited \ {c}
  /\ UNCHANGED <<modality, period, membership, attendance, req>>

\* remove: refused by the foreign keys once the class has had a member or an
\* attendance.
RemoveClass(c) ==
  /\ class[c] # NoRow
  /\ \A m \in Memberships : membership[m] # NoRow => membership[m].class # c
  /\ \A a \in Attendances : attendance[a] # NoRow => attendance[a].class # c
  /\ class' = [class EXCEPT ![c] = NoRow]
  /\ edited' = edited \ {c}
  /\ UNCHANGED <<modality, period, membership, attendance, req>>

-----------------------------------------------------------------------------
(* Periods *)

\* create of a StudentModality reads whether there is a period to resume, ...
StartPeriod(r, s, m) ==
  LET current == {p \in PeriodsOf(s, Current) : period[p].modality = m} IN
  /\ req[r] = Idle /\ m \in Taught
  /\ m \notin ActiveModalities(s)
  /\ \E p \in IF current = {} THEN {None} ELSE current :
       req' = [req EXCEPT ![r] = [op |-> "start", student |-> s, modality |-> m, period |-> p]]
  /\ UNCHANGED rows

\* ... and resumes that row, whatever has become of it, or creates one.
StartWrite(r) ==
  LET p == req[r].period IN
  /\ req[r].op = "start"
  /\ \/ p # None /\ period' = SetStatus(period, {p}, "ACTIVE")
     \/ p = None /\ period' \in Begun(period, req[r].student, {req[r].modality})
  /\ OneCurrentPeriod(period')
  /\ req' = [req EXCEPT ![r] = Idle]
  /\ UNCHANGED <<offer, membership, attendance>>

\* Mutant of HoldsClass: classes that are closed are overlooked.
HoldsOpenClass(p) ==
  \E c \in ClassesOf(membership, period[p].student) :
    class[c].status = "OPEN" /\ ModalityOf(c) = period[p].modality

\* The student of p is in a class of its modality.
HoldsClass(p) ==
  \E c \in ClassesOf(membership, period[p].student) : ModalityOf(c) = period[p].modality

\* update and remove of a StudentModality check that it is not finished, and that
\* no class needs it when it is to be paused or finished, ...
ChangePeriod(r, p, to) ==
  /\ req[r] = Idle /\ period[p].status \in Current
  /\ to # "ACTIVE" => ~ HoldsClass(p)
  /\ req' = [req EXCEPT ![r] = [op |-> "change", period |-> p, to |-> to]]
  /\ UNCHANGED rows

\* ... and write the status by id.
ChangeWrite(r) ==
  /\ req[r].op = "change"
  /\ period' = SetStatus(period, {req[r].period}, req[r].to)
  /\ OneCurrentPeriod(period')
  /\ req' = [req EXCEPT ![r] = Idle]
  /\ UNCHANGED <<offer, membership, attendance>>

-----------------------------------------------------------------------------
(* Memberships *)

\* create of a StudentClass: the class, its modality and its members are read, ...
JoinClass(r, s, c) ==
  /\ req[r] = Idle
  /\ class[c].status = "OPEN" /\ ModalityOf(c) \in ActiveModalities(s)
  /\ HasRoom(membership, c) /\ c \notin ClassesOf(membership, s)
  /\ req' = [req EXCEPT ![r] = [op |-> "join", student |-> s, classes |-> {c}]]
  /\ UNCHANGED rows

\* New memberships, as the foreign key and the unique index let them in.
Admit(s, C) ==
  /\ \A c \in C : class[c] # NoRow
  /\ membership' \in Insert(membership, NewMemberships(s, C))
  /\ OneActiveMembership(membership')

\* ... and the membership created.
JoinWrite(r) ==
  /\ req[r].op = "join"
  /\ Admit(req[r].student, req[r].classes)
  /\ req' = [req EXCEPT ![r] = Idle]
  /\ UNCHANGED <<offer, period, attendance>>

\* remove of a StudentClass: reading an ACTIVE row first changes nothing, for the
\* row can only become what is written.
LeaveClass(m) ==
  /\ membership[m].status = "ACTIVE"
  /\ membership' = SetStatus(membership, {m}, "FINISHED")
  /\ UNCHANGED <<offer, period, attendance, req>>

-----------------------------------------------------------------------------
(* Enrolment *)

\* create checks modalities and classes before its transaction starts; ...
Enrol(r, s, M, C) ==
  /\ req[r] = Idle /\ M \subseteq Taught
  /\ \A c \in C : class[c].status = "OPEN" /\ ModalityOf(c) \in M /\ HasRoom(membership, c)
  /\ req' = [req EXCEPT ![r] = [op |-> "enrol", student |-> s, modalities |-> M, classes |-> C]]
  /\ UNCHANGED rows

\* ... the transaction reads the periods to resume, ...
EnrolTransaction(r) ==
  LET s == req[r].student
      M == req[r].modalities
  IN
  /\ req[r].op = "enrol"
  /\ M \cap ActiveModalities(s) = {}
  /\ req' = [req EXCEPT ![r] =
       [op |-> "resume", student |-> s, modalities |-> M, classes |-> req[r].classes,
        paused |-> {p \in PeriodsOf(s, {"PAUSED"}) : period[p].modality \in M}]]
  /\ UNCHANGED rows

\* ... resumes them by id, and creates the other periods and the memberships.
EnrolCommit(r) ==
  LET resumed == SetStatus(period, req[r].paused, "ACTIVE")
      missing == req[r].modalities \ {period[p].modality : p \in req[r].paused}
  IN
  /\ req[r].op = "resume"
  /\ period' \in Begun(resumed, req[r].student, missing)
  /\ OneCurrentPeriod(period')
  /\ Admit(req[r].student, req[r].classes)
  /\ req' = [req EXCEPT ![r] = Idle]
  /\ UNCHANGED <<offer, attendance>>

\* The classes of s that still need one of the modalities M when drop has left.
InTheWay(s, M, drop) ==
  {m \in ActiveIn(membership) \ drop :
     membership[m].student = s /\ ModalityOf(membership[m].class) \in M}

\* maintain: modalities are added (or resumed), periods paused, memberships ended
\* and created, in this order, each part checked against what the earlier ones left.
Maintain(s, add, pause, drop, join) ==
  LET resumed == SetStatus(period,
        {p \in PeriodsOf(s, {"PAUSED"}) : period[p].modality \in add}, "ACTIVE")
      missing == add \ {period[p].modality : p \in PeriodsOf(s, Current)}
      left == SetStatus(membership, drop, "FINISHED")
  IN
  /\ add \subseteq Taught /\ add \cap ActiveModalities(s) = {}
  /\ \A p \in pause : resumed[p].status = "ACTIVE" /\ resumed[p].student = s
  /\ InTheWay(s, {period[p].modality : p \in pause}, drop) = {}
  /\ period' \in {SetStatus(table, pause, "PAUSED") :
                    table \in Insert(resumed, NewPeriods(s, missing))}
  /\ \A m \in drop : membership[m].status = "ACTIVE" /\ membership[m].student = s
  /\ \A c \in join :
       /\ class[c].status = "OPEN" /\ HasRoom(left, c) /\ c \notin ClassesOf(left, s)
       /\ \E p \in Periods : period'[p].status = "ACTIVE" /\ period'[p].student = s
                             /\ period'[p].modality = ModalityOf(c)
  /\ membership' \in Insert(left, NewMemberships(s, join))
  /\ UNCHANGED <<offer, attendance, req>>

-----------------------------------------------------------------------------
(* Attendance *)

\* academicContext: the class, its modality, the membership and the period.
MayAttend(s, c) ==
  /\ class[c].status = "OPEN" /\ ModalityOf(c) \in Taught
  /\ c \in ClassesOf(membership, s) /\ ModalityOf(c) \in ActiveModalities(s)

Attended(s, c, d) ==
  \E a \in Attendances :
    /\ attendance[a] # NoRow /\ attendance[a].class = c
    /\ attendance[a].student = s /\ attendance[a].day = d

\* createBatch; create is the batch of one student.
RecordAttendance(c, d, status) ==
  /\ DOMAIN status # {}
  /\ \A s \in DOMAIN status : MayAttend(s, c) /\ ~ Attended(s, c, d)
  /\ attendance' \in Insert(attendance,
       {[status |-> status[s], student |-> s, class |-> c, day |-> d] : s \in DOMAIN status})
  /\ UNCHANGED <<offer, period, membership, req>>

\* update: a correction, of any record at any time.
CorrectAttendance(a, status) ==
  /\ attendance[a] # NoRow
  /\ attendance' = [attendance EXCEPT ![a].status = status]
  /\ UNCHANGED <<offer, period, membership, req>>

\* A request ends without a write: refused, failed, or its process stopped.
AbortRequest(r) ==
  /\ req[r] # Idle
  /\ req' = [req EXCEPT ![r] = Idle]
  /\ UNCHANGED rows

-----------------------------------------------------------------------------
(* The academy *)

Offer ==
  \/ \E m \in Modalities, status \in {"ACTIVE", "INACTIVE"} : UpdateModality(m, status)
  \/ \E m \in Modalities : RemoveModality(m)
  \/ \E c \in Classes, new \in Class : CreateClass(c, new) \/ UpdateClass(c, new)
  \/ \E c \in Classes : RemoveClass(c)

Keep ==
  \/ \E m \in Memberships : LeaveClass(m)
  \/ \E s \in Students, add \in SUBSET Modalities, join \in SUBSET Classes,
        pause \in SUBSET Periods, drop \in SUBSET ActiveIn(membership) :
       Maintain(s, add, pause, drop, join)

Record ==
  \/ \E c \in Classes, d \in Days, S \in SUBSET Students :
       \E status \in [S -> AttendanceStatus] : RecordAttendance(c, d, status)
  \/ \E a \in Attendances, status \in AttendanceStatus : CorrectAttendance(a, status)

Begin(r) ==
  \/ \E s \in Students, m \in Modalities : StartPeriod(r, s, m)
  \/ \E p \in Periods, to \in Current \cup {"FINISHED"} : ChangePeriod(r, p, to)
  \/ \E s \in Students, c \in Classes : JoinClass(r, s, c)
  \/ \E s \in Students, M \in SUBSET Modalities, C \in SUBSET Classes : Enrol(r, s, M, C)

Continue(r) ==
  \/ StartWrite(r)
  \/ ChangeWrite(r)
  \/ JoinWrite(r)
  \/ EnrolTransaction(r)
  \/ EnrolCommit(r)
  \/ AbortRequest(r)

Next ==
  \/ Offer
  \/ Keep
  \/ Record
  \/ \E r \in Requests : Begin(r) \/ Continue(r)

Spec == Init /\ [][Next]_vars

\* Requests one at a time: what is left if each operation ran as one Serializable
\* transaction.
SerialNext ==
  \/ /\ \A r \in Requests : req[r] = Idle
     /\ Offer \/ Keep \/ Record \/ \E r \in Requests : Begin(r)
  \/ \E r \in Requests : Continue(r)

SerialSpec == Init /\ [][SerialNext]_vars

-----------------------------------------------------------------------------
(* Properties of the academy whatever the interleaving *)

\* The requests that have found room in c and not used it yet.
Admitted(c) ==
  {r \in Requests : req[r].op \in {"enrol", "resume", "join"} /\ c \in req[r].classes}

\* The checks on the capacity of a class are made before, and outside of, the
\* write: a class may be overbooked, but by no more than the requests in flight
\* (create of StudentClass, create of an enrolment, maintain).
OverbookingBounded ==
  \A c \in Classes \ edited : class[c] # NoRow =>
    Cardinality(Members(membership, c)) + Cardinality(Admitted(c))
      <= class[c].capacity + Cardinality(Requests)

\* The attendance history outlives memberships, periods and edits: the class and
\* a membership of it, active or ended, are there for every record (the
\* foreign keys, rows that are finished and never deleted).
AttendanceBacked ==
  \A a \in Attendances : attendance[a] # NoRow =>
    /\ class[attendance[a].class] # NoRow
    /\ \E m \in Memberships : /\ membership[m] # NoRow
                              /\ membership[m].student = attendance[a].student
                              /\ membership[m].class = attendance[a].class

-----------------------------------------------------------------------------
(* Properties of SerialSpec, which interleavings of Spec break *)

\* Who is in a class trains its modality: a period is not paused or finished
\* while a class needs it ('Encerre os vínculos ativos de turma antes de pausar ou
\* finalizar a modalidade.'), by any of the operations that could.
ClassNeedsModality ==
  \A m \in ActiveIn(membership) :
    membership[m].class \notin edited =>
      ModalityOf(membership[m].class) \in ActiveModalities(membership[m].student)

\* No class is overbooked ('A turma atingiu a capacidade.').
WithinCapacity ==
  \A c \in Classes \ edited :
    class[c] # NoRow => Cardinality(Members(membership, c)) <= class[c].capacity

\* A finished period is not altered: the student who comes back gets a new one.
PeriodsStayFinished ==
  \A p \in Periods : period[p].status = "FINISHED" => period'[p] = period[p]
=============================================================================
