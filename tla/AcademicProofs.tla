--------------------------- MODULE AcademicProofs ---------------------------
(***************************************************************************)
(* Theorems about Academic, and about its serial behaviours, for every     *)
(* value of its constants.                                                 *)
(***************************************************************************)
EXTENDS AcademicMC, FiniteSetTheorems, TLAPS

-----------------------------------------------------------------------------
(* Rows *)

TableOf(Ids, T) == [Ids -> T \cup {NoRow}]
PeriodTable == TableOf(Periods, Period)
MemberTable == TableOf(Memberships, Membership)
PeriodStatus == Current \cup {"FINISHED"}
MemberStatus == {"ACTIVE", "FINISHED"}

\* A row has a status of its own, which tells it from a free id.
LEMMA RowFacts ==
  /\ NoRow \notin Period /\ NoRow \notin Membership /\ NoRow \notin Attendance /\ NoRow \notin Class
  /\ NoRow.status \notin PeriodStatus \cup {"OPEN", "CLOSED"} \cup AttendanceStatus
  /\ \A x \in Period : x.status \in PeriodStatus /\ x.student \in Students /\ x.modality \in Modalities
  /\ \A x \in Membership : x.status \in MemberStatus /\ x.student \in Students /\ x.class \in Classes
  /\ \A x \in Class : x.status \in {"OPEN", "CLOSED"} /\ x.modality \in Modalities
                        /\ x.capacity \in Capacities
<1>1. NoRow.status = "NO_ROW"
  BY DEF NoRow
<1>2. NoRow.status \notin PeriodStatus \cup {"OPEN", "CLOSED"} \cup AttendanceStatus
  BY <1>1 DEF PeriodStatus, Current, AttendanceStatus
<1>3. /\ \A x \in Period : x.status \in PeriodStatus /\ x.student \in Students /\ x.modality \in Modalities
      /\ \A x \in Membership : x.status \in MemberStatus /\ x.student \in Students /\ x.class \in Classes
      /\ \A x \in Class : x.status \in {"OPEN", "CLOSED"} /\ x.modality \in Modalities
                            /\ x.capacity \in Capacities
      /\ \A x \in Attendance : x.status \in AttendanceStatus
  BY DEF Period, Membership, Class, Attendance, PeriodStatus, MemberStatus
<1>4. MemberStatus \subseteq PeriodStatus
  BY DEF MemberStatus, PeriodStatus, Current
<1> QED BY <1>2, <1>3, <1>4

\* A status tells that there is a row.
LEMMA RowOfStatus ==
  /\ \A table \in PeriodTable : \A p \in Periods :
       /\ table[p] \in Period <=> table[p] # NoRow
       /\ table[p].status \in PeriodStatus => table[p] \in Period
  /\ \A table \in MemberTable : \A m \in Memberships :
       /\ table[m] \in Membership <=> table[m] # NoRow
       /\ table[m].status \in MemberStatus => table[m] \in Membership
<1>1. MemberStatus \subseteq PeriodStatus
  BY DEF MemberStatus, PeriodStatus, Current
<1>2. ASSUME NEW table \in PeriodTable, NEW p \in Periods
      PROVE  /\ table[p] \in Period <=> table[p] # NoRow
             /\ table[p].status \in PeriodStatus => table[p] \in Period
  BY RowFacts DEF TableOf, PeriodTable
<1>3. ASSUME NEW table \in MemberTable, NEW m \in Memberships
      PROVE  /\ table[m] \in Membership <=> table[m] # NoRow
             /\ table[m].status \in MemberStatus => table[m] \in Membership
  BY <1>1, RowFacts DEF TableOf, MemberTable
<1> QED BY <1>2, <1>3

\* Rows are changed in their status only, and never deleted.
KeepsPeriods(old, new) ==
  \A p \in Periods : old[p] # NoRow =>
    /\ new[p] # NoRow
    /\ new[p].student = old[p].student /\ new[p].modality = old[p].modality
KeepsMembers(old, new) ==
  \A m \in Memberships : old[m] # NoRow =>
    /\ new[m] # NoRow
    /\ new[m].student = old[m].student /\ new[m].class = old[m].class

\* New rows go to free ids, one for each.
LEMMA Inserted ==
  ASSUME NEW Ids, NEW T, NoRow \notin T, NEW table \in TableOf(Ids, T),
         NEW new \in SUBSET T, NEW res \in Insert(table, new)
  PROVE  /\ res \in TableOf(Ids, T)
         /\ \A i \in Ids : table[i] # NoRow => res[i] = table[i]
         /\ \A i \in Ids : res[i] = table[i] \/ (table[i] = NoRow /\ res[i] \in new)
         /\ \A i, j \in Ids : res[i] # table[i] /\ res[j] # table[j] /\ res[i] = res[j] => i = j
         /\ \A row \in new : \E i \in Ids : table[i] = NoRow /\ res[i] = row
<1> DEFINE Free == {i \in Ids : table[i] = NoRow}
<1>1. DOMAIN table = Ids
  BY DEF TableOf
<1>2. PICK id \in Injection(new, Free) :
        res = [i \in Ids |-> IF i \in Range(id) THEN CHOOSE row \in new : id[row] = i ELSE table[i]]
  BY <1>1 DEF Insert
<1>3. id \in [new -> Free] /\ \A x, y \in new : id[x] = id[y] => x = y
  BY DEF Injection, IsInjective
<1>4. Range(id) = {id[row] : row \in new}
  BY <1>3 DEF Range
<1>5. ASSUME NEW row \in new
      PROVE  id[row] \in Free /\ res[id[row]] = row
  <2>1. id[row] \in Free /\ id[row] \in Ids /\ id[row] \in Range(id)
    BY <1>3, <1>4
  <2>2. (CHOOSE x \in new : id[x] = id[row]) = row
    BY <1>3
  <2> QED BY <1>2, <2>1, <2>2
<1>6. ASSUME NEW i \in Ids, i \notin Range(id)
      PROVE  res[i] = table[i]
  BY <1>2, <1>6
<1>7. \A i \in Ids : \/ res[i] = table[i]
                     \/ \E row \in new : i = id[row] /\ res[i] = row /\ table[i] = NoRow
  <2> SUFFICES ASSUME NEW i \in Ids, i \in Range(id)
               PROVE  \E row \in new : i = id[row] /\ res[i] = row /\ table[i] = NoRow
    BY <1>6
  <2>1. PICK row \in new : i = id[row]
    BY <1>4
  <2> QED BY <1>5, <2>1
<1>8. DOMAIN res = Ids /\ res = [i \in Ids |-> res[i]]
  BY <1>2
<1>9. \A i \in Ids : res[i] \in T \cup {NoRow}
  BY <1>7 DEF TableOf
<1>10. res \in TableOf(Ids, T)
  BY <1>8, <1>9 DEF TableOf
<1>11. \A i \in Ids : table[i] # NoRow => res[i] = table[i]
  BY <1>7
<1>12. \A i, j \in Ids : res[i] # table[i] /\ res[j] # table[j] /\ res[i] = res[j] => i = j
  BY <1>7
<1> QED BY <1>5, <1>7, <1>10, <1>11, <1>12

LEMMA PeriodStatusSet ==
  ASSUME NEW table \in PeriodTable, NEW I \in SUBSET Periods, NEW s \in PeriodStatus,
         \A p \in I : table[p] # NoRow
  PROVE  LET new == SetStatus(table, I, s) IN
         /\ new \in PeriodTable /\ KeepsPeriods(table, new)
         /\ \A p \in I : new[p].status = s
         /\ \A p \in Periods \ I : new[p] = table[p]
<1> DEFINE new == SetStatus(table, I, s)
<1>1. new = [p \in Periods |-> IF p \in I THEN [table[p] EXCEPT !.status = s] ELSE table[p]]
  BY DEF SetStatus, TableOf, PeriodTable
<1>2. ASSUME NEW p \in I
      PROVE  /\ new[p] \in Period /\ new[p].status = s
             /\ new[p].student = table[p].student /\ new[p].modality = table[p].modality
  <2>1. table[p] \in Period
    BY RowOfStatus
  <2>2. new[p] = [table[p] EXCEPT !.status = s]
    BY <1>1
  <2> HIDE DEF new
  <2> QED BY <2>1, <2>2 DEF Period, PeriodStatus
<1> HIDE DEF new
<1>3. \A p \in Periods \ I : new[p] = table[p]
  BY <1>1
<1>4. new \in PeriodTable
  BY <1>1, <1>2, <1>3 DEF TableOf, PeriodTable
<1>5. KeepsPeriods(table, new)
  BY <1>2, <1>3, RowFacts DEF KeepsPeriods
<1> QED BY <1>2, <1>3, <1>4, <1>5 DEF new

LEMMA MemberStatusSet ==
  ASSUME NEW table \in MemberTable, NEW I \in SUBSET Memberships, NEW s \in MemberStatus,
         \A m \in I : table[m] # NoRow
  PROVE  LET new == SetStatus(table, I, s) IN
         /\ new \in MemberTable /\ KeepsMembers(table, new)
         /\ \A m \in I : new[m].status = s
         /\ \A m \in Memberships \ I : new[m] = table[m]
<1> DEFINE new == SetStatus(table, I, s)
<1>1. new = [m \in Memberships |-> IF m \in I THEN [table[m] EXCEPT !.status = s] ELSE table[m]]
  BY DEF SetStatus, TableOf, MemberTable
<1>2. ASSUME NEW m \in I
      PROVE  /\ new[m] \in Membership /\ new[m].status = s
             /\ new[m].student = table[m].student /\ new[m].class = table[m].class
  <2>1. table[m] \in Membership
    BY RowOfStatus
  <2>2. new[m] = [table[m] EXCEPT !.status = s]
    BY <1>1
  <2> HIDE DEF new
  <2> QED BY <2>1, <2>2 DEF Membership, MemberStatus
<1> HIDE DEF new
<1>3. \A m \in Memberships \ I : new[m] = table[m]
  BY <1>1
<1>4. new \in MemberTable
  BY <1>1, <1>2, <1>3 DEF TableOf, MemberTable
<1>5. KeepsMembers(table, new)
  BY <1>2, <1>3, RowFacts DEF KeepsMembers
<1> QED BY <1>2, <1>3, <1>4, <1>5 DEF new

LEMMA BegunEffect ==
  ASSUME NEW table \in PeriodTable, NEW s \in Students, NEW M \in SUBSET Modalities,
         NEW new \in Insert(table, NewPeriods(s, M))
  PROVE  /\ new \in PeriodTable /\ KeepsPeriods(table, new)
         /\ \A p \in Periods : table[p] # NoRow => new[p] = table[p]
         /\ \A m \in M : \E p \in Periods : /\ new[p].status = "ACTIVE" /\ new[p].student = s
                                            /\ new[p].modality = m
<1>1. NewPeriods(s, M) \in SUBSET Period /\ NoRow \notin Period
  BY RowFacts DEF NewPeriods, Period, Current
<1> DEFINE N == NewPeriods(s, M)
<1>2. /\ new \in PeriodTable
      /\ \A p \in Periods : table[p] # NoRow => new[p] = table[p]
      /\ \A row \in NewPeriods(s, M) : \E p \in Periods : new[p] = row
  <2>1. /\ table \in TableOf(Periods, Period) /\ N \in SUBSET Period /\ new \in Insert(table, N)
    BY <1>1 DEF PeriodTable
  <2> HIDE DEF N
  <2>2. /\ new \in TableOf(Periods, Period)
        /\ \A p \in Periods : table[p] # NoRow => new[p] = table[p]
        /\ \A row \in N : \E p \in Periods : table[p] = NoRow /\ new[p] = row
    BY <1>1, <2>1, Inserted
  <2> QED BY <2>2 DEF N, PeriodTable
<1>3. KeepsPeriods(table, new)
  BY <1>2 DEF KeepsPeriods
<1>4. ASSUME NEW m \in M
      PROVE  \E p \in Periods : /\ new[p].status = "ACTIVE" /\ new[p].student = s
                                /\ new[p].modality = m
  <2> DEFINE row == [status |-> "ACTIVE", student |-> s, modality |-> m]
  <2>1. row \in NewPeriods(s, M) /\ row.status = "ACTIVE" /\ row.student = s /\ row.modality = m
    BY DEF NewPeriods
  <2> QED BY <1>2, <2>1
<1> QED BY <1>2, <1>3, <1>4

LEMMA AdmittedEffect ==
  ASSUME NEW table \in MemberTable, NEW s \in Students, NEW C \in SUBSET Classes,
         NEW new \in Insert(table, NewMemberships(s, C))
  PROVE  /\ new \in MemberTable /\ KeepsMembers(table, new)
         /\ \A m \in Memberships : table[m] # NoRow => new[m] = table[m]
         /\ \A m \in Memberships :
              new[m] = table[m] \/ (table[m] = NoRow /\ new[m].student = s /\ new[m].class \in C)
         /\ \A m, n \in Memberships :
              new[m] # table[m] /\ new[n] # table[n] /\ new[m].class = new[n].class => m = n
<1>1. NewMemberships(s, C) \in SUBSET Membership /\ NoRow \notin Membership
  BY RowFacts DEF NewMemberships, Membership
<1>2. /\ new \in MemberTable
      /\ \A m \in Memberships : table[m] # NoRow => new[m] = table[m]
      /\ \A m \in Memberships :
           new[m] = table[m] \/ (table[m] = NoRow /\ new[m] \in NewMemberships(s, C))
      /\ \A m, n \in Memberships :
           new[m] # table[m] /\ new[n] # table[n] /\ new[m] = new[n] => m = n
  <2> DEFINE N == NewMemberships(s, C)
  <2>1. /\ table \in TableOf(Memberships, Membership) /\ N \in SUBSET Membership
        /\ new \in Insert(table, N)
    BY <1>1 DEF MemberTable
  <2> HIDE DEF N
  <2>2. /\ new \in TableOf(Memberships, Membership)
        /\ \A m \in Memberships : table[m] # NoRow => new[m] = table[m]
        /\ \A m \in Memberships : new[m] = table[m] \/ (table[m] = NoRow /\ new[m] \in N)
        /\ \A m, n \in Memberships :
             new[m] # table[m] /\ new[n] # table[n] /\ new[m] = new[n] => m = n
    BY <1>1, <2>1, Inserted
  <2> QED BY <2>2 DEF N, MemberTable
<1>3. KeepsMembers(table, new)
  BY <1>2 DEF KeepsMembers
<1>4. /\ \A x \in NewMemberships(s, C) : x.student = s /\ x.class \in C
      /\ \A x, y \in NewMemberships(s, C) : x.class = y.class => x = y
  BY DEF NewMemberships
<1> QED BY <1>2, <1>3, <1>4

-----------------------------------------------------------------------------
(* Requests in flight *)

LEMMA RequestKinds ==
  ASSUME NEW q \in Request
  PROVE  /\ q.op = "enrol" => q \in EnrolRequest
         /\ q.op = "resume" => q \in ResumeRequest
         /\ q.op = "start" => q \in StartRequest
         /\ q.op = "change" => q \in ChangeRequest
         /\ q.op = "join" => q \in JoinRequest
         /\ q.op \in {"idle", "enrol", "resume", "start", "change", "join"}
         /\ q.op = "idle" <=> q = Idle
  BY DEF Request, Idle, EnrolRequest, ResumeRequest, StartRequest, ChangeRequest, JoinRequest

\* The periods that a request has read have rows.
Known(q, table) ==
  /\ q.op = "start" /\ q.period # None => table[q.period] # NoRow
  /\ q.op = "change" => table[q.period] # NoRow
  /\ q.op = "resume" => \A p \in q.paused : table[p] # NoRow
KnownRows == \A r \in Requests : Known(req[r], period)

LEMMA KnownKept ==
  ASSUME NEW q \in Request, NEW old \in PeriodTable, NEW new, KeepsPeriods(old, new), Known(q, old)
  PROVE  Known(q, new)
<1>1. CASE q.op = "start"
  <2>1. q.period \in Periods \cup {None}
    BY <1>1, RequestKinds DEF StartRequest
  <2> QED BY <1>1, <2>1 DEF Known, KeepsPeriods
<1>2. CASE q.op = "change"
  <2>1. q.period \in Periods
    BY <1>2, RequestKinds DEF ChangeRequest
  <2> QED BY <1>2, <2>1 DEF Known, KeepsPeriods
<1>3. CASE q.op = "resume"
  <2>1. q.paused \subseteq Periods
    BY <1>3, RequestKinds DEF ResumeRequest
  <2> QED BY <1>3, <2>1 DEF Known, KeepsPeriods
<1> QED BY <1>1, <1>2, <1>3 DEF Known

\* The tables and the request r are written.
LEMMA KnownStep ==
  ASSUME TypeOK, KnownRows, KeepsPeriods(period, period'),
         NEW r \in Requests, NEW q \in Request, Known(q, period'), req' = [req EXCEPT ![r] = q]
  PROVE  req' \in [Requests -> Request] /\ KnownRows'
<1>1. req \in [Requests -> Request] /\ period \in PeriodTable
  BY DEF TypeOK, TableOf, PeriodTable
<1>2. req' \in [Requests -> Request]
  BY <1>1
<1>3. ASSUME NEW k \in Requests PROVE Known(req'[k], period')
  <2>1. CASE k = r
    BY <1>1, <2>1
  <2>2. CASE k # r
    BY <1>1, <2>2, KnownKept DEF KnownRows
  <2> QED BY <2>1, <2>2
<1> QED BY <1>2, <1>3 DEF KnownRows, Known

LEMMA IdleKnown ==
  ASSUME NEW table
  PROVE  Idle \in Request /\ Known(Idle, table)
  BY DEF Idle, Request, Known

LEMMA Unread ==
  /\ KeepsPeriods(period, period) /\ KeepsMembers(membership, membership)
  BY DEF KeepsPeriods, KeepsMembers

-----------------------------------------------------------------------------
(* What each operation does to the rows *)

\* Types, and what is kept, after a step.
Sound ==
  /\ TypeOK' /\ KnownRows'
  /\ KeepsPeriods(period, period') /\ KeepsMembers(membership, membership')

LEMMA Tables ==
  ASSUME TypeOK
  PROVE  /\ period \in PeriodTable /\ membership \in MemberTable
         /\ attendance \in TableOf(Attendances, Attendance)
         /\ class \in TableOf(Classes, Class) /\ req \in [Requests -> Request]
  BY DEF TypeOK, TableOf, PeriodTable, MemberTable

\* A request reads what it needs, and changes no row.
LEMMA ReadSound ==
  ASSUME TypeOK, KnownRows, NEW r \in Requests, NEW q \in Request, Known(q, period),
         req' = [req EXCEPT ![r] = q], UNCHANGED rows
  PROVE  Sound
<1>1. UNCHANGED <<modality, class, edited, period, membership, attendance>>
  BY DEF rows, offer
<1>2. KeepsPeriods(period, period') /\ KeepsMembers(membership, membership')
  BY <1>1, Unread
<1>3. req' \in [Requests -> Request] /\ KnownRows'
  BY <1>1, <1>2, KnownStep
<1> QED BY <1>1, <1>2, <1>3 DEF Sound, TypeOK

\* A request writes periods and memberships, and is over.
LEMMA WriteSound ==
  ASSUME TypeOK, KnownRows, NEW r \in Requests, req' = [req EXCEPT ![r] = Idle],
         UNCHANGED <<modality, class, edited, attendance>>,
         period' \in PeriodTable, KeepsPeriods(period, period'),
         membership' \in MemberTable, KeepsMembers(membership, membership')
  PROVE  Sound
<1>1. req' \in [Requests -> Request] /\ KnownRows'
  BY IdleKnown, KnownStep
<1> QED BY <1>1 DEF Sound, TypeOK, TableOf, PeriodTable, MemberTable

\* The tables are written in one step, without a request.
LEMMA StepSound ==
  ASSUME TypeOK, KnownRows, UNCHANGED req,
         modality' \in [Modalities -> {"ACTIVE", "INACTIVE", "ABSENT"}],
         class' \in TableOf(Classes, Class), edited' \subseteq Classes,
         period' \in PeriodTable, KeepsPeriods(period, period'),
         membership' \in MemberTable, KeepsMembers(membership, membership'),
         attendance' \in TableOf(Attendances, Attendance)
  PROVE  Sound
<1>1. \A r \in Requests : Known(req[r], period')
  BY Tables, KnownKept DEF KnownRows
<1>2. KnownRows'
  BY <1>1 DEF KnownRows, Known
<1> QED BY <1>2 DEF Sound, TypeOK, TableOf, PeriodTable, MemberTable

LEMMA OfferSound ==
  ASSUME TypeOK, KnownRows, Offer
  PROVE  Sound /\ UNCHANGED <<period, membership, attendance, req>>
<1>1. UNCHANGED <<period, membership, attendance, req>>
  BY DEF Offer, UpdateModality, RemoveModality, CreateClass, UpdateClass, RemoveClass
<1>2. /\ modality' \in [Modalities -> {"ACTIVE", "INACTIVE", "ABSENT"}]
      /\ class' \in TableOf(Classes, Class) /\ edited' \subseteq Classes
  <2>1. /\ modality \in [Modalities -> {"ACTIVE", "INACTIVE", "ABSENT"}]
        /\ class \in [Classes -> Class \cup {NoRow}] /\ edited \subseteq Classes
    BY DEF TypeOK
  <2> QED BY <2>1 DEF Offer, UpdateModality, RemoveModality, CreateClass, UpdateClass, RemoveClass,
                      TableOf
<1>3. /\ period' \in PeriodTable /\ KeepsPeriods(period, period')
      /\ membership' \in MemberTable /\ KeepsMembers(membership, membership')
      /\ attendance' \in TableOf(Attendances, Attendance)
  BY <1>1, Tables, Unread
<1> QED BY <1>1, <1>2, <1>3, StepSound

LEMMA LeaveSound ==
  ASSUME TypeOK, KnownRows, NEW m \in Memberships, LeaveClass(m)
  PROVE  Sound
<1>1. membership[m] # NoRow /\ membership \in MemberTable
  BY Tables, RowOfStatus, RowFacts DEF LeaveClass, MemberStatus
<1>2. membership' \in MemberTable /\ KeepsMembers(membership, membership')
  BY <1>1, MemberStatusSet DEF LeaveClass, MemberStatus
<1>3. UNCHANGED <<modality, class, edited, period, attendance, req>>
  BY DEF LeaveClass, offer
<1>4. /\ modality' \in [Modalities -> {"ACTIVE", "INACTIVE", "ABSENT"}]
      /\ class' \in TableOf(Classes, Class) /\ edited' \subseteq Classes
      /\ period' \in PeriodTable /\ KeepsPeriods(period, period')
      /\ attendance' \in TableOf(Attendances, Attendance)
  BY <1>3, Tables, Unread DEF TypeOK
<1> QED BY <1>2, <1>3, <1>4, StepSound

\* The student s enters the classes C, the memberships being old before.
Enters(old, s, C) ==
  /\ membership' \in MemberTable /\ KeepsMembers(old, membership')
  /\ \A m \in Memberships :
       membership'[m] = old[m]
         \/ (old[m] = NoRow /\ membership'[m].student = s /\ membership'[m].class \in C)
  /\ \A m, n \in Memberships :
       membership'[m] # old[m] /\ membership'[n] # old[n] /\ membership'[m].class = membership'[n].class
         => m = n

LEMMA InsertEnters ==
  ASSUME NEW old \in MemberTable, NEW s \in Students, NEW C \in SUBSET Classes,
         membership' \in Insert(old, NewMemberships(s, C))
  PROVE  Enters(old, s, C)
<1> DEFINE new == membership'
<1>1. new \in Insert(old, NewMemberships(s, C))
  OBVIOUS
<1> HIDE DEF new
<1>2. /\ new \in MemberTable /\ KeepsMembers(old, new)
      /\ \A m \in Memberships :
           new[m] = old[m] \/ (old[m] = NoRow /\ new[m].student = s /\ new[m].class \in C)
      /\ \A m, n \in Memberships :
           new[m] # old[m] /\ new[n] # old[n] /\ new[m].class = new[n].class => m = n
  BY <1>1, AdmittedEffect
<1> QED BY <1>2 DEF Enters, new

LEMMA AdmitEffect ==
  ASSUME TypeOK, NEW s \in Students, NEW C \in SUBSET Classes, Admit(s, C)
  PROVE  Enters(membership, s, C) /\ \A c \in C : class[c] # NoRow
  BY Tables, InsertEnters DEF Admit

\* What maintain does to the periods and to the memberships of the student.
PeriodsMaintained(s, add, pause) ==
  /\ period' \in PeriodTable /\ KeepsPeriods(period, period')
  /\ \A p \in pause : period[p] # NoRow /\ period[p].student = s /\ period[p].status \in Current
  /\ \A p \in Periods \ pause : period[p].status \in {"ACTIVE", "FINISHED"} => period'[p] = period[p]
MembersMaintained(s, drop, join) ==
  LET left == SetStatus(membership, drop, "FINISHED") IN
  /\ left \in MemberTable /\ KeepsMembers(membership, left)
  /\ Enters(left, s, join)
  /\ \A m \in Memberships : left[m] # NoRow => membership[m] # NoRow
  /\ \A m \in Memberships : left[m].status = "ACTIVE" => m \notin drop /\ left[m] = membership[m]

LEMMA MaintainPeriods ==
  ASSUME TypeOK, NEW s \in Students, NEW add \in SUBSET Modalities, NEW join \in SUBSET Classes,
         NEW pause \in SUBSET Periods, NEW drop \in SUBSET ActiveIn(membership),
         Maintain(s, add, pause, drop, join)
  PROVE  PeriodsMaintained(s, add, pause)
<1> DEFINE I == {p \in PeriodsOf(s, {"PAUSED"}) : period[p].modality \in add}
           resumed == SetStatus(period, I, "ACTIVE")
           missing == add \ {period[p].modality : p \in PeriodsOf(s, Current)}
<1>1. /\ \A p \in pause : resumed[p].status = "ACTIVE" /\ resumed[p].student = s
      /\ period' \in {SetStatus(table, pause, "PAUSED") : table \in Insert(resumed, NewPeriods(s, missing))}
  BY DEF Maintain
<1>2. period \in PeriodTable /\ I \in SUBSET Periods
  BY Tables DEF PeriodsOf
<1>3. \A p \in I : period[p].status = "PAUSED" /\ period[p].student = s
  BY DEF PeriodsOf
<1>4. {"ACTIVE", "PAUSED", "FINISHED"} = PeriodStatus /\ {"ACTIVE", "PAUSED"} = Current
  BY DEF PeriodStatus, Current
<1>5. \A p \in I : period[p] # NoRow
  BY <1>2, <1>3, <1>4, RowOfStatus, RowFacts
<1> HIDE DEF I
<1>6. /\ resumed \in PeriodTable /\ KeepsPeriods(period, resumed)
      /\ \A p \in I : resumed[p].status = "ACTIVE"
      /\ \A p \in Periods \ I : resumed[p] = period[p]
  BY <1>2, <1>4, <1>5, PeriodStatusSet
<1> HIDE DEF resumed
<1>7. PICK table \in Insert(resumed, NewPeriods(s, missing)) : period' = SetStatus(table, pause, "PAUSED")
  BY <1>1
<1>8. missing \in SUBSET Modalities
  OBVIOUS
<1> HIDE DEF missing
<1>9. /\ table \in PeriodTable /\ KeepsPeriods(resumed, table)
      /\ \A p \in Periods : resumed[p] # NoRow => table[p] = resumed[p]
  BY <1>6, <1>8, BegunEffect
<1>10. \A p \in pause : resumed[p] # NoRow /\ table[p] # NoRow
  BY <1>1, <1>4, <1>6, <1>9, RowFacts
<1>11. /\ period' \in PeriodTable /\ KeepsPeriods(table, period')
       /\ \A p \in Periods \ pause : period'[p] = table[p]
  <2> DEFINE new == SetStatus(table, pause, "PAUSED")
  <2>1. /\ new \in PeriodTable /\ KeepsPeriods(table, new)
        /\ \A p \in Periods \ pause : new[p] = table[p]
    BY <1>4, <1>9, <1>10, PeriodStatusSet
  <2> HIDE DEF new
  <2>2. period' = new
    BY <1>7 DEF new
  <2> QED BY <2>1, <2>2
<1>12. KeepsPeriods(period, period')
  BY <1>6, <1>9, <1>11 DEF KeepsPeriods
<1>13. ASSUME NEW p \in pause
       PROVE  period[p] # NoRow /\ period[p].student = s /\ period[p].status \in Current
  <2>1. CASE p \in I
    BY <1>3, <1>4, <1>5, <2>1
  <2>2. CASE p \notin I
    BY <1>1, <1>4, <1>6, <1>10, <2>2
  <2> QED BY <2>1, <2>2
<1>14. ASSUME NEW p \in Periods \ pause, period[p].status \in {"ACTIVE", "FINISHED"}
       PROVE  period'[p] = period[p]
  <2>1. p \notin I /\ period[p] # NoRow
    BY <1>2, <1>3, <1>4, <1>14, RowOfStatus, RowFacts
  <2> QED BY <1>6, <1>9, <1>11, <2>1
<1> QED BY <1>11, <1>12, <1>13, <1>14 DEF PeriodsMaintained

LEMMA MaintainMembers ==
  ASSUME TypeOK, NEW s \in Students, NEW add \in SUBSET Modalities, NEW join \in SUBSET Classes,
         NEW pause \in SUBSET Periods, NEW drop \in SUBSET ActiveIn(membership),
         Maintain(s, add, pause, drop, join)
  PROVE  MembersMaintained(s, drop, join)
<1> DEFINE left == SetStatus(membership, drop, "FINISHED")
<1>1. membership \in MemberTable /\ drop \in SUBSET Memberships /\ "FINISHED" \in MemberStatus
  BY Tables DEF ActiveIn, MemberStatus
<1>2. \A m \in drop : membership[m] # NoRow
  BY <1>1, RowOfStatus, RowFacts DEF ActiveIn, MemberStatus
<1>3. /\ left \in MemberTable /\ KeepsMembers(membership, left)
      /\ \A m \in drop : left[m].status = "FINISHED"
      /\ \A m \in Memberships \ drop : left[m] = membership[m]
  BY <1>1, <1>2, MemberStatusSet DEF MemberStatus
<1>4. membership' \in Insert(left, NewMemberships(s, join))
  BY DEF Maintain
<1> HIDE DEF left
<1>5. Enters(left, s, join)
  BY <1>3, <1>4, InsertEnters
<1>6. /\ \A m \in Memberships : left[m] # NoRow => membership[m] # NoRow
      /\ \A m \in Memberships : left[m].status = "ACTIVE" => m \notin drop /\ left[m] = membership[m]
  BY <1>2, <1>3
<1> QED BY <1>3, <1>5, <1>6 DEF MembersMaintained, left

\* The periods I are resumed, and new ones may be begun.
Resumes(I) ==
  /\ period' \in PeriodTable /\ KeepsPeriods(period, period')
  /\ \A p \in I : period'[p].status = "ACTIVE"
  /\ \A p \in Periods \ I : period[p] # NoRow => period'[p] = period[p]

LEMMA StatusSetPeriods ==
  ASSUME TypeOK, NEW I \in SUBSET Periods, NEW s \in PeriodStatus, \A p \in I : period[p] # NoRow
  PROVE  period' = SetStatus(period, I, s) =>
           /\ period' \in PeriodTable /\ KeepsPeriods(period, period')
           /\ \A p \in I : period'[p].status = s
           /\ \A p \in Periods \ I : period'[p] = period[p]
<1> DEFINE new == SetStatus(period, I, s)
<1>1. period \in PeriodTable
  BY Tables
<1>2. /\ new \in PeriodTable /\ KeepsPeriods(period, new)
      /\ \A p \in I : new[p].status = s
      /\ \A p \in Periods \ I : new[p] = period[p]
  BY <1>1, PeriodStatusSet
<1> SUFFICES ASSUME period' = new
             PROVE  /\ period' \in PeriodTable /\ KeepsPeriods(period, period')
                    /\ \A p \in I : period'[p].status = s
                    /\ \A p \in Periods \ I : period'[p] = period[p]
  OBVIOUS
<1> HIDE DEF new
<1> QED BY <1>2

LEMMA StartWriteEffect ==
  ASSUME TypeOK, KnownRows, NEW r \in Requests, StartWrite(r)
  PROVE  /\ Resumes({req[r].period} \ {None})
         /\ req[r] \in StartRequest /\ req' = [req EXCEPT ![r] = Idle]
         /\ UNCHANGED <<modality, class, edited, membership, attendance>>
<1>1. /\ req[r].op = "start" /\ req' = [req EXCEPT ![r] = Idle]
      /\ UNCHANGED <<modality, class, edited, membership, attendance>>
  BY DEF StartWrite, offer
<1>2. req[r] \in StartRequest
  BY <1>1, Tables, RequestKinds
<1>3. req[r].student \in Students /\ req[r].modality \in Modalities /\ req[r].period \in Periods \cup {None}
  BY <1>2 DEF StartRequest
<1>4. CASE req[r].period # None
  <2> DEFINE I == {req[r].period}
  <2>1. period' = SetStatus(period, I, "ACTIVE") /\ I \in SUBSET Periods /\ I = {req[r].period} \ {None}
    BY <1>3, <1>4 DEF StartWrite
  <2>2. \A p \in I : period[p] # NoRow
    BY <1>1, <1>4 DEF KnownRows, Known
  <2> HIDE DEF I
  <2>3. "ACTIVE" \in PeriodStatus
    BY DEF PeriodStatus, Current
  <2>4. Resumes(I)
    BY <2>1, <2>2, <2>3, StatusSetPeriods DEF PeriodStatus, Current, Resumes
  <2> QED BY <1>1, <1>2, <2>1, <2>4
<1>5. CASE req[r].period = None
  <2> DEFINE new == period'
  <2>1. new \in Insert(period, NewPeriods(req[r].student, {req[r].modality}))
    BY <1>3, <1>5 DEF StartWrite, Begun
  <2>2. {req[r].modality} \in SUBSET Modalities
    BY <1>3
  <2> HIDE DEF new
  <2>3. /\ new \in PeriodTable /\ KeepsPeriods(period, new)
        /\ \A p \in Periods : period[p] # NoRow => new[p] = period[p]
    BY <1>3, <2>1, <2>2, Tables, BegunEffect
  <2>4. Resumes({req[r].period} \ {None})
    BY <1>5, <2>3 DEF Resumes, new
  <2> QED BY <1>1, <1>2, <2>4
<1> QED BY <1>4, <1>5

LEMMA ChangeWriteEffect ==
  ASSUME TypeOK, KnownRows, NEW r \in Requests, ChangeWrite(r)
  PROVE  /\ period' \in PeriodTable /\ KeepsPeriods(period, period')
         /\ req[r].period \in Periods /\ period'[req[r].period].status = req[r].to
         /\ \A p \in Periods \ {req[r].period} : period'[p] = period[p]
         /\ req[r] \in ChangeRequest /\ req' = [req EXCEPT ![r] = Idle]
         /\ UNCHANGED <<modality, class, edited, membership, attendance>>
<1>1. /\ req[r].op = "change" /\ req' = [req EXCEPT ![r] = Idle]
      /\ period' = SetStatus(period, {req[r].period}, req[r].to)
      /\ UNCHANGED <<modality, class, edited, membership, attendance>>
  BY DEF ChangeWrite, offer
<1>2. req[r] \in ChangeRequest
  BY <1>1, Tables, RequestKinds
<1>3. req[r].period \in Periods /\ req[r].to \in PeriodStatus
  BY <1>2 DEF ChangeRequest, PeriodStatus
<1>4. period[req[r].period] # NoRow
  BY <1>1 DEF KnownRows, Known
<1>5. {req[r].period} \in SUBSET Periods /\ \A p \in {req[r].period} : period[p] # NoRow
  BY <1>3, <1>4
<1>6. /\ period' \in PeriodTable /\ KeepsPeriods(period, period')
      /\ \A p \in {req[r].period} : period'[p].status = req[r].to
      /\ \A p \in Periods \ {req[r].period} : period'[p] = period[p]
  BY <1>1, <1>3, <1>5, StatusSetPeriods
<1> QED BY <1>1, <1>2, <1>3, <1>6

LEMMA JoinWriteEffect ==
  ASSUME TypeOK, NEW r \in Requests, JoinWrite(r)
  PROVE  /\ Enters(membership, req[r].student, req[r].classes)
         /\ \A c \in req[r].classes : class[c] # NoRow
         /\ req[r] \in JoinRequest /\ req' = [req EXCEPT ![r] = Idle]
         /\ UNCHANGED <<modality, class, edited, period, attendance>>
<1>1. /\ req[r].op = "join" /\ req' = [req EXCEPT ![r] = Idle]
      /\ Admit(req[r].student, req[r].classes)
      /\ UNCHANGED <<modality, class, edited, period, attendance>>
  BY DEF JoinWrite, offer
<1>2. req[r] \in JoinRequest
  BY <1>1, Tables, RequestKinds
<1>3. req[r].student \in Students /\ req[r].classes \in SUBSET Classes
  BY <1>2 DEF JoinRequest
<1> QED BY <1>1, <1>2, <1>3, AdmitEffect

LEMMA EnrolCommitEffect ==
  ASSUME TypeOK, KnownRows, NEW r \in Requests, EnrolCommit(r)
  PROVE  /\ Resumes(req[r].paused)
         /\ \A m \in req[r].modalities \ {period[p].modality : p \in req[r].paused} :
              \E p \in Periods : /\ period'[p].status = "ACTIVE" /\ period'[p].modality = m
                                 /\ period'[p].student = req[r].student
         /\ Enters(membership, req[r].student, req[r].classes)
         /\ \A c \in req[r].classes : class[c] # NoRow
         /\ req[r] \in ResumeRequest /\ req' = [req EXCEPT ![r] = Idle]
         /\ UNCHANGED <<modality, class, edited, attendance>>
<1> DEFINE I == req[r].paused
           s == req[r].student
           resumed == SetStatus(period, I, "ACTIVE")
           missing == req[r].modalities \ {period[p].modality : p \in I}
<1>1. /\ req[r].op = "resume" /\ req' = [req EXCEPT ![r] = Idle]
      /\ period' \in Insert(resumed, NewPeriods(s, missing))
      /\ Admit(s, req[r].classes)
      /\ UNCHANGED <<modality, class, edited, attendance>>
  BY DEF EnrolCommit, offer, Begun
<1>2. req[r] \in ResumeRequest
  BY <1>1, Tables, RequestKinds
<1>3. /\ s \in Students /\ req[r].classes \in SUBSET Classes /\ req[r].modalities \in SUBSET Modalities
      /\ I \in SUBSET Periods
  BY <1>2 DEF ResumeRequest
<1>4. Enters(membership, s, req[r].classes) /\ \A c \in req[r].classes : class[c] # NoRow
  BY <1>1, <1>3, AdmitEffect
<1>5. \A p \in I : period[p] # NoRow
  BY <1>1 DEF KnownRows, Known
<1>6. missing \in SUBSET Modalities
  BY <1>3
<1> HIDE DEF I, s, missing
<1>7. /\ resumed \in PeriodTable /\ KeepsPeriods(period, resumed)
      /\ \A p \in I : resumed[p].status = "ACTIVE"
      /\ \A p \in Periods \ I : resumed[p] = period[p]
  BY <1>3, <1>5, Tables, PeriodStatusSet DEF PeriodStatus, Current
<1> HIDE DEF resumed
<1> DEFINE new == period'
<1>8. new \in Insert(resumed, NewPeriods(s, missing))
  BY <1>1
<1> HIDE DEF new
<1>9. /\ new \in PeriodTable /\ KeepsPeriods(resumed, new)
      /\ \A p \in Periods : resumed[p] # NoRow => new[p] = resumed[p]
      /\ \A m \in missing : \E p \in Periods : /\ new[p].status = "ACTIVE" /\ new[p].student = s
                                               /\ new[p].modality = m
  BY <1>3, <1>6, <1>7, <1>8, BegunEffect
<1>10. \A p \in I : resumed[p] # NoRow
  BY <1>3, <1>5, <1>7 DEF KeepsPeriods
<1>11. KeepsPeriods(period, new)
  BY <1>7, <1>9 DEF KeepsPeriods
<1>12. Resumes(I)
  BY <1>3, <1>7, <1>9, <1>10, <1>11 DEF Resumes, new
<1> QED BY <1>1, <1>2, <1>4, <1>9, <1>12 DEF I, s, missing, new

LEMMA MaintainSound ==
  ASSUME TypeOK, KnownRows, NEW s \in Students, NEW add \in SUBSET Modalities,
         NEW join \in SUBSET Classes, NEW pause \in SUBSET Periods,
         NEW drop \in SUBSET ActiveIn(membership), Maintain(s, add, pause, drop, join)
  PROVE  Sound /\ UNCHANGED <<modality, class, edited, attendance, req>>
<1>1. PeriodsMaintained(s, add, pause) /\ MembersMaintained(s, drop, join)
  BY MaintainPeriods, MaintainMembers
<1>2. period' \in PeriodTable /\ KeepsPeriods(period, period')
  BY <1>1 DEF PeriodsMaintained
<1>3. membership' \in MemberTable /\ KeepsMembers(membership, membership')
  BY <1>1 DEF MembersMaintained, Enters, KeepsMembers
<1>4. UNCHANGED <<modality, class, edited, attendance, req>>
  BY DEF Maintain, offer
<1>5. /\ modality' \in [Modalities -> {"ACTIVE", "INACTIVE", "ABSENT"}]
      /\ class' \in TableOf(Classes, Class) /\ edited' \subseteq Classes
      /\ attendance' \in TableOf(Attendances, Attendance)
  BY <1>4, Tables DEF TypeOK
<1> QED BY <1>2, <1>3, <1>4, <1>5, StepSound

\* The new records of a batch are of students who may attend.
LEMMA RecordSound ==
  ASSUME TypeOK, KnownRows, NEW c \in Classes, NEW d \in Days, NEW S \in SUBSET Students,
         NEW status \in [S -> AttendanceStatus], RecordAttendance(c, d, status)
  PROVE  /\ Sound /\ UNCHANGED <<modality, class, edited, period, membership, req>>
         /\ \A a \in Attendances :
              \/ attendance'[a] = attendance[a]
              \/ attendance'[a].class = c /\ MayAttend(attendance'[a].student, c)
<1> DEFINE N == {[status |-> status[s], student |-> s, class |-> c, day |-> d] : s \in S}
           new == attendance'
<1>1. /\ new \in Insert(attendance, N) /\ \A s \in S : MayAttend(s, c)
      /\ UNCHANGED <<modality, class, edited, period, membership, req>>
  BY DEF RecordAttendance, offer
<1>2. N \in SUBSET Attendance /\ NoRow \notin Attendance
  BY RowFacts DEF Attendance
<1>3. \A x \in N : x.class = c /\ x.student \in S
  OBVIOUS
<1> HIDE DEF N, new
<1>4. /\ new \in TableOf(Attendances, Attendance)
      /\ \A a \in Attendances :
           new[a] = attendance[a] \/ (attendance[a] = NoRow /\ new[a] \in N)
  BY <1>1, <1>2, Tables, Inserted
<1>5. /\ modality' \in [Modalities -> {"ACTIVE", "INACTIVE", "ABSENT"}]
      /\ class' \in TableOf(Classes, Class) /\ edited' \subseteq Classes
      /\ period' \in PeriodTable /\ KeepsPeriods(period, period')
      /\ membership' \in MemberTable /\ KeepsMembers(membership, membership')
  BY <1>1, Tables, Unread DEF TypeOK
<1>6. Sound
  BY <1>1, <1>4, <1>5, StepSound DEF new
<1> QED BY <1>1, <1>3, <1>4, <1>6 DEF new

LEMMA CorrectSound ==
  ASSUME TypeOK, KnownRows, NEW a \in Attendances, NEW status \in AttendanceStatus,
         CorrectAttendance(a, status)
  PROVE  /\ Sound /\ UNCHANGED <<modality, class, edited, period, membership, req>>
         /\ \A b \in Attendances :
              \/ attendance'[b] = attendance[b]
              \/ /\ attendance[b] # NoRow /\ attendance'[b].class = attendance[b].class
                 /\ attendance'[b].student = attendance[b].student
<1> DEFINE row == [attendance[a] EXCEPT !.status = status]
<1>1. /\ attendance[a] # NoRow /\ attendance' = [attendance EXCEPT ![a] = row]
      /\ UNCHANGED <<modality, class, edited, period, membership, req>>
  BY DEF CorrectAttendance, offer
<1>2. attendance \in [Attendances -> Attendance \cup {NoRow}]
  BY DEF TypeOK
<1>3. attendance[a] \in Attendance
  BY <1>1, <1>2
<1>4. /\ row \in Attendance /\ row.class = attendance[a].class
      /\ row.student = attendance[a].student
  BY <1>3 DEF Attendance
<1> HIDE DEF row
<1>5. /\ attendance' \in TableOf(Attendances, Attendance) /\ attendance'[a] = row
      /\ \A b \in Attendances \ {a} : attendance'[b] = attendance[b]
  BY <1>1, <1>2, <1>4 DEF TableOf
<1>6. /\ modality' \in [Modalities -> {"ACTIVE", "INACTIVE", "ABSENT"}]
      /\ class' \in TableOf(Classes, Class) /\ edited' \subseteq Classes
      /\ period' \in PeriodTable /\ KeepsPeriods(period, period')
      /\ membership' \in MemberTable /\ KeepsMembers(membership, membership')
  BY <1>1, Tables, Unread DEF TypeOK
<1>7. Sound
  BY <1>1, <1>5, <1>6, StepSound
<1> QED BY <1>1, <1>4, <1>5, <1>7

\* What a request has read before its last step.
Reads(r) ==
  /\ UNCHANGED rows
  /\ \E q \in Request : Known(q, period) /\ req' = [req EXCEPT ![r] = q]

\* A request that will put its student in the class c.
Admits(q, c) == q.op \in {"enrol", "resume", "join"} /\ c \in q.classes

\* What a request has read is so.
Fresh(q) ==
  /\ q.op = "start" /\ q.period # None => period[q.period].status \in Current
  /\ q.op = "change" => /\ period[q.period].status \in Current
                        /\ q.to # "ACTIVE" => ~ HoldsClass(q.period)
  /\ q.op = "resume" => q.paused \subseteq PeriodsOf(q.student, {"PAUSED"})
  /\ q.op \in {"enrol", "resume"} => \A c \in q.classes : ModalityOf(c) \in q.modalities
  /\ q.op = "join" => \A c \in q.classes : ModalityOf(c) \in ActiveModalities(q.student)
  /\ \A c \in Classes : Admits(q, c) => HasRoom(membership, c)

\* The first step of a request.
Starts(r) ==
  /\ UNCHANGED rows
  /\ \E q \in Request : Known(q, period) /\ Fresh(q) /\ req' = [req EXCEPT ![r] = q]

LEMMA BeginReads ==
  ASSUME TypeOK, NEW r \in Requests, Begin(r)
  PROVE  Starts(r) /\ Reads(r) /\ req[r] = Idle
<1>1. ASSUME NEW s \in Students, NEW m \in Modalities, StartPeriod(r, s, m)
      PROVE  Starts(r) /\ req[r] = Idle
  <2> DEFINE current == {p \in PeriodsOf(s, Current) : period[p].modality = m}
             q(p) == [op |-> "start", student |-> s, modality |-> m, period |-> p]
  <2>1. /\ req[r] = Idle /\ UNCHANGED rows
        /\ \E p \in IF current = {} THEN {None} ELSE current : req' = [req EXCEPT ![r] = q(p)]
    BY <1>1 DEF StartPeriod
  <2>2. PICK p \in IF current = {} THEN {None} ELSE current : req' = [req EXCEPT ![r] = q(p)]
    BY <2>1
  <2>3. p = None \/ (p \in Periods /\ period[p].status \in Current)
    BY <2>2 DEF PeriodsOf
  <2>4. p # None => period[p] # NoRow
    BY <2>3, RowFacts DEF PeriodStatus
  <2>5. q(p) \in Request
    BY <2>3 DEF Request, StartRequest
  <2>6. Known(q(p), period)
    BY <2>4 DEF Known
  <2>7. Fresh(q(p))
    BY <2>3 DEF Fresh, Admits
  <2> QED BY <2>1, <2>2, <2>5, <2>6, <2>7 DEF Starts
<1>2. ASSUME NEW p \in Periods, NEW to \in Current \cup {"FINISHED"}, ChangePeriod(r, p, to)
      PROVE  Starts(r) /\ req[r] = Idle
  <2> DEFINE q == [op |-> "change", period |-> p, to |-> to]
  <2>1. /\ req[r] = Idle /\ UNCHANGED rows /\ period[p].status \in Current
        /\ to # "ACTIVE" => ~ HoldsClass(p)
        /\ req' = [req EXCEPT ![r] = q]
    BY <1>2 DEF ChangePeriod
  <2>2. q \in Request
    BY DEF Request, ChangeRequest
  <2>3. Known(q, period)
    BY <2>1, RowFacts DEF Known, PeriodStatus
  <2>4. Fresh(q)
    BY <2>1 DEF Fresh, Admits
  <2> QED BY <2>1, <2>2, <2>3, <2>4 DEF Starts
<1>3. ASSUME NEW s \in Students, NEW c \in Classes, JoinClass(r, s, c)
      PROVE  Starts(r) /\ req[r] = Idle
  <2> DEFINE q == [op |-> "join", student |-> s, classes |-> {c}]
  <2>1. req[r] = Idle /\ UNCHANGED rows /\ req' = [req EXCEPT ![r] = q]
    BY <1>3 DEF JoinClass
  <2>2. q \in Request /\ Known(q, period)
    BY DEF Request, JoinRequest, Known
  <2>3. ModalityOf(c) \in ActiveModalities(s) /\ HasRoom(membership, c)
    BY <1>3 DEF JoinClass
  <2>4. Fresh(q)
    BY <2>3 DEF Fresh, Admits
  <2> QED BY <2>1, <2>2, <2>4 DEF Starts
<1>4. ASSUME NEW s \in Students, NEW M \in SUBSET Modalities, NEW C \in SUBSET Classes,
             Enrol(r, s, M, C)
      PROVE  Starts(r) /\ req[r] = Idle
  <2> DEFINE q == [op |-> "enrol", student |-> s, modalities |-> M, classes |-> C]
  <2>1. req[r] = Idle /\ UNCHANGED rows /\ req' = [req EXCEPT ![r] = q]
    BY <1>4 DEF Enrol
  <2>2. q \in Request /\ Known(q, period)
    BY DEF Request, EnrolRequest, Known
  <2>3. \A c \in C : ModalityOf(c) \in M /\ HasRoom(membership, c)
    BY <1>4 DEF Enrol
  <2>4. Fresh(q)
    BY <2>3 DEF Fresh, Admits
  <2> QED BY <2>1, <2>2, <2>4 DEF Starts
<1> QED BY <1>1, <1>2, <1>3, <1>4 DEF Begin, Starts, Reads

LEMMA TransactionReads ==
  ASSUME TypeOK, NEW r \in Requests, EnrolTransaction(r)
  PROVE  /\ Reads(r) /\ req[r] \in EnrolRequest
         /\ LET q == req'[r] IN
            /\ req' = [req EXCEPT ![r] = q] /\ q \in ResumeRequest
            /\ q.student = req[r].student /\ q.modalities = req[r].modalities
            /\ q.classes = req[r].classes
            /\ q.paused \subseteq PeriodsOf(q.student, {"PAUSED"})
<1> DEFINE s == req[r].student
           P == {p \in PeriodsOf(s, {"PAUSED"}) : period[p].modality \in req[r].modalities}
           q == [op |-> "resume", student |-> s, modalities |-> req[r].modalities,
                 classes |-> req[r].classes, paused |-> P]
<1>1. req[r].op = "enrol" /\ req' = [req EXCEPT ![r] = q] /\ UNCHANGED rows
  BY DEF EnrolTransaction
<1>2. req[r] \in EnrolRequest /\ req \in [Requests -> Request]
  BY <1>1, Tables, RequestKinds
<1>3. /\ s \in Students /\ req[r].modalities \in SUBSET Modalities
      /\ req[r].classes \in SUBSET Classes
  BY <1>2 DEF EnrolRequest
<1>4. P \in SUBSET Periods /\ P \subseteq PeriodsOf(s, {"PAUSED"})
  BY DEF PeriodsOf
<1>5. \A p \in P : period[p].status = "PAUSED"
  BY DEF PeriodsOf
<1>6. \A p \in P : period[p] # NoRow
  BY <1>5, RowFacts DEF PeriodStatus, Current
<1> HIDE DEF s, P
<1>7. /\ q \in ResumeRequest /\ q.op = "resume" /\ q.paused = P /\ q.student = s
      /\ q.modalities = req[r].modalities /\ q.classes = req[r].classes
  BY <1>3, <1>4 DEF ResumeRequest
<1> HIDE DEF q
<1>8. q \in Request /\ Known(q, period)
  BY <1>6, <1>7 DEF Request, Known
<1>9. req'[r] = q
  BY <1>1, <1>2
<1> QED BY <1>1, <1>2, <1>4, <1>7, <1>8, <1>9 DEF Reads, s

LEMMA ReadsSound ==
  ASSUME TypeOK, KnownRows, NEW r \in Requests, Reads(r)
  PROVE  Sound
<1>1. PICK q \in Request : Known(q, period) /\ req' = [req EXCEPT ![r] = q]
  BY DEF Reads
<1> QED BY <1>1, ReadSound DEF Reads

LEMMA ContinueSound ==
  ASSUME TypeOK, KnownRows, NEW r \in Requests, Continue(r)
  PROVE  Sound
<1>1. CASE StartWrite(r)
  BY <1>1, StartWriteEffect, WriteSound, Tables, Unread DEF Resumes
<1>2. CASE ChangeWrite(r)
  BY <1>2, ChangeWriteEffect, WriteSound, Tables, Unread
<1>3. CASE JoinWrite(r)
  BY <1>3, JoinWriteEffect, WriteSound, Tables, Unread DEF Enters
<1>4. CASE EnrolTransaction(r)
  BY <1>4, TransactionReads, ReadsSound
<1>5. CASE EnrolCommit(r)
  BY <1>5, EnrolCommitEffect, WriteSound DEF Resumes, Enters
<1>6. CASE AbortRequest(r)
  BY <1>6, IdleKnown, ReadSound DEF AbortRequest
<1> QED BY <1>1, <1>2, <1>3, <1>4, <1>5, <1>6 DEF Continue

LEMMA TypeStep ==
  ASSUME TypeOK, KnownRows, [Next]_vars
  PROVE  Sound
<1>1. CASE Offer
  BY <1>1, OfferSound
<1>2. CASE Keep
  BY <1>2, LeaveSound, MaintainSound DEF Keep
<1>3. CASE Record
  BY <1>3, RecordSound, CorrectSound DEF Record
<1>4. CASE \E r \in Requests : Begin(r) \/ Continue(r)
  BY <1>4, BeginReads, ReadsSound, ContinueSound
<1>5. CASE UNCHANGED vars
  <2>1. UNCHANGED <<modality, class, edited, period, membership, attendance, req>>
    BY <1>5 DEF vars
  <2> QED BY <2>1, StepSound, Tables, Unread DEF TypeOK
<1> QED BY <1>1, <1>2, <1>3, <1>4, <1>5 DEF Next

-----------------------------------------------------------------------------
(* Types and foreign keys *)

\* A membership's class has a row.
MembershipBacked ==
  \A m \in Memberships : membership[m] # NoRow => class[membership[m].class] # NoRow

\* The inductive invariant.
AcademicInv == TypeOK /\ KnownRows /\ MembershipBacked /\ AttendanceBacked

LEMMA InitAcademicInv ==
  ASSUME Init
  PROVE  AcademicInv
<1>1. TypeOK
  BY DEF Init, TypeOK, Request
<1>2. KnownRows
  BY DEF Init, KnownRows, Known, Idle
<1>3. MembershipBacked /\ AttendanceBacked
  BY DEF Init, MembershipBacked, AttendanceBacked
<1> QED BY <1>1, <1>2, <1>3 DEF AcademicInv

\* Classes that have been used keep their rows.
UsedClassesKept ==
  /\ \A m \in Memberships : membership[m] # NoRow /\ class[membership[m].class] # NoRow
       => class'[membership[m].class] # NoRow
  /\ \A a \in Attendances : attendance[a] # NoRow /\ class[attendance[a].class] # NoRow
       => class'[attendance[a].class] # NoRow

LEMMA OfferKeepsUsed ==
  ASSUME TypeOK, Offer
  PROVE  UsedClassesKept
<1>1. class \in [Classes -> Class \cup {NoRow}] /\ NoRow \notin Class
  BY RowFacts DEF TypeOK
<1>2. ASSUME UNCHANGED class
      PROVE  UsedClassesKept
  BY <1>2 DEF UsedClassesKept
<1>3. ASSUME NEW c \in Classes, NEW new \in Class, class' = [class EXCEPT ![c] = new]
      PROVE  UsedClassesKept
  <2>1. \A k \in DOMAIN class : class[k] # NoRow => class'[k] # NoRow
    BY <1>1, <1>3
  <2>2. /\ \A m \in Memberships : membership[m] # NoRow => membership[m].class \in Classes
        /\ \A a \in Attendances : attendance[a] # NoRow => attendance[a].class \in Classes
    BY DEF TypeOK, Membership, Attendance
  <2> QED BY <1>1, <2>1, <2>2 DEF UsedClassesKept
<1>4. ASSUME NEW c \in Classes, RemoveClass(c)
      PROVE  UsedClassesKept
  <2>1. /\ class' = [class EXCEPT ![c] = NoRow]
        /\ \A m \in Memberships : membership[m] # NoRow => membership[m].class # c
        /\ \A a \in Attendances : attendance[a] # NoRow => attendance[a].class # c
    BY <1>4 DEF RemoveClass
  <2>2. /\ \A m \in Memberships : membership[m] # NoRow => membership[m].class \in Classes
        /\ \A a \in Attendances : attendance[a] # NoRow => attendance[a].class \in Classes
    BY DEF TypeOK, Membership, Attendance
  <2>3. \A k \in Classes \ {c} : class'[k] = class[k]
    BY <1>1, <2>1
  <2> QED BY <2>1, <2>2, <2>3 DEF UsedClassesKept
<1> QED BY <1>2, <1>3, <1>4 DEF Offer, UpdateModality, RemoveModality, CreateClass, UpdateClass

\* The rows of memberships and attendances lead to the same rows as before, or to
\* classes found in the step.
LEMMA BackedStep ==
  ASSUME TypeOK, MembershipBacked, AttendanceBacked, UsedClassesKept,
         KeepsMembers(membership, membership'),
         \A m \in Memberships : membership'[m] # NoRow /\ membership[m] = NoRow
           => class'[membership'[m].class] # NoRow,
         \A a \in Attendances : attendance'[a] # NoRow =>
           \/ /\ attendance[a] # NoRow /\ attendance'[a].class = attendance[a].class
              /\ attendance'[a].student = attendance[a].student
           \/ /\ class'[attendance'[a].class] # NoRow
              /\ \E m \in Memberships : /\ membership[m] # NoRow
                                        /\ membership[m].student = attendance'[a].student
                                        /\ membership[m].class = attendance'[a].class
  PROVE  MembershipBacked' /\ AttendanceBacked'
<1>1. ASSUME NEW m \in Memberships, membership'[m] # NoRow
      PROVE  class'[membership'[m].class] # NoRow
  BY <1>1 DEF MembershipBacked, UsedClassesKept, KeepsMembers
<1>2. ASSUME NEW a \in Attendances, attendance'[a] # NoRow
      PROVE  /\ class'[attendance'[a].class] # NoRow
             /\ \E m \in Memberships : /\ membership[m] # NoRow
                                       /\ membership[m].student = attendance'[a].student
                                       /\ membership[m].class = attendance'[a].class
  BY <1>2 DEF AttendanceBacked, UsedClassesKept
<1>3. \A m \in Memberships : membership[m] # NoRow =>
        /\ membership'[m] # NoRow /\ membership'[m].student = membership[m].student
        /\ membership'[m].class = membership[m].class
  BY DEF KeepsMembers
<1>4. ASSUME NEW a \in Attendances, attendance'[a] # NoRow
      PROVE  \E m \in Memberships : /\ membership'[m] # NoRow
                                    /\ membership'[m].student = attendance'[a].student
                                    /\ membership'[m].class = attendance'[a].class
  BY <1>2, <1>3, <1>4
<1> QED BY <1>1, <1>2, <1>4 DEF MembershipBacked, AttendanceBacked

\* Classes and attendances unchanged: only memberships are created.
LEMMA EnterBacked ==
  ASSUME TypeOK, MembershipBacked, AttendanceBacked, UNCHANGED <<class, attendance>>,
         KeepsMembers(membership, membership'),
         \A m \in Memberships : membership'[m] # NoRow /\ membership[m] = NoRow
           => class'[membership'[m].class] # NoRow
  PROVE  MembershipBacked' /\ AttendanceBacked'
<1>1. UsedClassesKept
  BY DEF UsedClassesKept
<1> QED BY <1>1, BackedStep

LEMMA AttendBacked ==
  ASSUME TypeOK, MembershipBacked, AttendanceBacked, UNCHANGED <<class, membership>>,
         \A a \in Attendances : attendance'[a] # NoRow =>
           \/ /\ attendance[a] # NoRow /\ attendance'[a].class = attendance[a].class
              /\ attendance'[a].student = attendance[a].student
           \/ MayAttend(attendance'[a].student, attendance'[a].class)
  PROVE  MembershipBacked' /\ AttendanceBacked'
<1>1. UsedClassesKept /\ KeepsMembers(membership, membership')
  BY DEF UsedClassesKept, KeepsMembers
<1>2. ASSUME NEW s, NEW c, MayAttend(s, c)
      PROVE  /\ class[c] # NoRow
             /\ \E m \in Memberships : /\ membership[m] # NoRow
                                       /\ membership[m].student = s /\ membership[m].class = c
  <2>1. class[c] # NoRow
    BY <1>2, RowFacts DEF MayAttend
  <2>2. PICK m \in Memberships : /\ membership[m].status = "ACTIVE"
                                 /\ membership[m].student = s /\ membership[m].class = c
    BY <1>2 DEF MayAttend, ClassesOf, ActiveIn
  <2>3. membership[m] # NoRow
    BY <2>2, RowFacts DEF PeriodStatus, Current
  <2> QED BY <2>1, <2>2, <2>3
<1> QED BY <1>1, <1>2, BackedStep

LEMMA MaintainBacked ==
  ASSUME AcademicInv, NEW s \in Students, NEW add \in SUBSET Modalities,
         NEW join \in SUBSET Classes, NEW pause \in SUBSET Periods,
         NEW drop \in SUBSET ActiveIn(membership), Maintain(s, add, pause, drop, join)
  PROVE  MembershipBacked' /\ AttendanceBacked'
<1>1. TypeOK /\ KnownRows /\ MembershipBacked /\ AttendanceBacked
  BY DEF AcademicInv
<1>2. Sound /\ UNCHANGED <<class, attendance>>
  BY <1>1, MaintainSound
<1> DEFINE left == SetStatus(membership, drop, "FINISHED")
<1>3. /\ KeepsMembers(membership, left) /\ Enters(left, s, join)
      /\ \A m \in Memberships : left[m] # NoRow => membership[m] # NoRow
  <2>1. MembersMaintained(s, drop, join)
    BY <1>1, MaintainMembers
  <2> QED BY <2>1 DEF MembersMaintained
<1> HIDE DEF left
<1>4. \A c \in join : class[c] # NoRow
  BY RowFacts DEF Maintain
<1>5. ASSUME NEW m \in Memberships, membership'[m] # NoRow, membership[m] = NoRow
      PROVE  class[membership'[m].class] # NoRow
  <2>1. CASE left[m] = NoRow
    BY <1>3, <1>4, <1>5, <2>1 DEF Enters
  <2> QED BY <1>3, <1>5, <2>1
<1> QED BY <1>1, <1>2, <1>5, EnterBacked DEF Sound

LEMMA ContinueBacked ==
  ASSUME AcademicInv, NEW r \in Requests, Continue(r)
  PROVE  MembershipBacked' /\ AttendanceBacked'
<1>1. TypeOK /\ KnownRows /\ MembershipBacked /\ AttendanceBacked
  BY DEF AcademicInv
<1>2. ASSUME UNCHANGED <<class, membership, attendance>>
      PROVE  MembershipBacked' /\ AttendanceBacked'
  BY <1>1, <1>2, Unread, EnterBacked
<1>3. ASSUME NEW s, NEW C, Enters(membership, s, C), \A c \in C : class[c] # NoRow,
             UNCHANGED <<class, attendance>>
      PROVE  MembershipBacked' /\ AttendanceBacked'
  <2>1. KeepsMembers(membership, membership')
    BY <1>3 DEF Enters
  <2>2. \A m \in Memberships : membership'[m] # NoRow /\ membership[m] = NoRow
          => class'[membership'[m].class] # NoRow
    BY <1>3 DEF Enters
  <2> QED BY <1>1, <1>3, <2>1, <2>2, EnterBacked
<1>4. CASE StartWrite(r) \/ ChangeWrite(r) \/ EnrolTransaction(r) \/ AbortRequest(r)
  BY <1>2, <1>4 DEF StartWrite, ChangeWrite, EnrolTransaction, AbortRequest, rows, offer
<1>5. CASE JoinWrite(r)
  BY <1>1, <1>3, <1>5, JoinWriteEffect
<1>6. CASE EnrolCommit(r)
  BY <1>1, <1>3, <1>6, EnrolCommitEffect
<1> QED BY <1>4, <1>5, <1>6 DEF Continue

LEMMA AcademicStep ==
  ASSUME AcademicInv, [Next]_vars
  PROVE  AcademicInv'
<1>1. TypeOK /\ KnownRows /\ MembershipBacked /\ AttendanceBacked
  BY DEF AcademicInv
<1>2. TypeOK' /\ KnownRows' /\ KeepsMembers(membership, membership')
  BY <1>1, TypeStep DEF Sound
<1>3. ASSUME UNCHANGED <<class, membership, attendance>>
      PROVE  MembershipBacked' /\ AttendanceBacked'
  BY <1>1, <1>3, Unread, EnterBacked
<1>4. CASE Offer
  <2>1. UsedClassesKept /\ UNCHANGED <<membership, attendance>>
    BY <1>1, <1>4, OfferKeepsUsed, OfferSound
  <2> QED BY <1>1, <1>2, <2>1, BackedStep DEF AcademicInv
<1>5. CASE Keep
  <2>1. ASSUME NEW m \in Memberships, LeaveClass(m)
        PROVE  MembershipBacked' /\ AttendanceBacked'
    <3>1. membership[m] # NoRow /\ UNCHANGED <<class, attendance>>
      BY <2>1, RowFacts DEF LeaveClass, PeriodStatus, Current, offer
    <3>2. \A n \in Memberships : n # m => membership'[n] = membership[n]
      BY <1>1, <2>1, Tables DEF LeaveClass, SetStatus, MemberTable, TableOf
    <3> QED BY <1>1, <1>2, <3>1, <3>2, EnterBacked
  <2> QED BY <1>5, <2>1, MaintainBacked, <1>2 DEF Keep, AcademicInv
<1>6. CASE Record
  <2>1. UNCHANGED <<class, membership>>
    BY <1>1, <1>6, RecordSound, CorrectSound DEF Record
  <2>2. \A a \in Attendances : attendance'[a] # NoRow =>
           \/ /\ attendance[a] # NoRow /\ attendance'[a].class = attendance[a].class
              /\ attendance'[a].student = attendance[a].student
           \/ MayAttend(attendance'[a].student, attendance'[a].class)
    BY <1>1, <1>6, RecordSound, CorrectSound DEF Record
  <2> QED BY <1>1, <1>2, <2>1, <2>2, AttendBacked DEF AcademicInv
<1>7. CASE \E r \in Requests : Begin(r) \/ Continue(r)
  BY <1>1, <1>2, <1>3, <1>7, BeginReads, ContinueBacked DEF Reads, rows, offer, AcademicInv
<1>8. CASE UNCHANGED vars
  BY <1>2, <1>3, <1>8 DEF vars, AcademicInv
<1> QED BY <1>2, <1>4, <1>5, <1>6, <1>7, <1>8 DEF Next, AcademicInv

\* Types, the rows behind what a request has read, and the foreign keys, whatever
\* the interleaving of the requests.
THEOREM AcademicInvariant == Spec => []AcademicInv
<1>1. Init => AcademicInv
  BY InitAcademicInv
<1>2. AcademicInv /\ [Next]_vars => AcademicInv'
  BY AcademicStep
<1> QED BY <1>1, <1>2, PTL DEF Spec

\* The tables and the requests in flight keep their types: a period is resumed or
\* changed by id after it was read, and the id still has a row.
THEOREM AcademicTypes == Spec => []TypeOK
<1>1. AcademicInv => TypeOK
  BY DEF AcademicInv
<1> QED BY <1>1, AcademicInvariant, PTL

\* The attendance history is backed by the class and a membership of the student
\* in it: classes are removed only when unused, memberships end and are kept.
THEOREM AttendancesStayBacked == Spec => []AttendanceBacked
<1>1. AcademicInv => AttendanceBacked
  BY DEF AcademicInv
<1> QED BY <1>1, AcademicInvariant, PTL

-----------------------------------------------------------------------------
(* Rooms *)

LEMMA Counts ==
  /\ \A S \in SUBSET Memberships : IsFiniteSet(S) /\ Cardinality(S) \in Nat
  /\ \A S \in SUBSET Requests :
       IsFiniteSet(S) /\ Cardinality(S) \in Nat /\ Cardinality(S) <= Cardinality(Requests)
  /\ Cardinality(Requests) \in Nat
  BY AcademicAssumption, FS_Subset, FS_CardinalityType

LEMMA ClassCapacity ==
  ASSUME TypeOK, NEW c \in Classes, class[c] # NoRow
  PROVE  class[c] \in Class /\ class[c].capacity \in Nat /\ class[c].capacity >= 1
<1>1. class[c] \in Class
  BY DEF TypeOK
<1>2. class[c].capacity \in Nat \ {0}
  BY <1>1, RowFacts, AcademicAssumption
<1> QED BY <1>1, <1>2

\* A student who enters takes one place in each of the classes, and no other.
LEMMA EntersCounts ==
  ASSUME NEW old \in MemberTable, NEW s, NEW C, Enters(old, s, C), NEW c
  PROVE  /\ Cardinality(Members(membership', c)) <= Cardinality(Members(old, c)) + 1
         /\ c \notin C => Cardinality(Members(membership', c)) <= Cardinality(Members(old, c))
<1> DEFINE New == {m \in Memberships : membership'[m] # old[m] /\ membership'[m].class = c}
           After == Members(membership', c)
           Before == Members(old, c)
<1>1. Before \in SUBSET Memberships /\ New \in SUBSET Memberships /\ After \in SUBSET Memberships
  BY DEF Members, ActiveIn
<1>2. After \subseteq Before \cup New
  BY DEF Members, ActiveIn
<1>3. \A m, n \in New : m = n
  BY DEF Enters
<1>4. c \notin C => New = {}
  BY DEF Enters
<1> HIDE DEF New, After, Before
<1>5. IsFiniteSet(Before) /\ IsFiniteSet(After) /\ Cardinality(Before) \in Nat /\ Cardinality(After) \in Nat
  BY <1>1, Counts
<1>6. CASE New = {}
  <2>1. Cardinality(After) <= Cardinality(Before)
    BY <1>2, <1>5, <1>6, FS_Subset
  <2> QED BY <1>5, <2>1 DEF After, Before
<1>7. CASE New # {}
  <2>1. PICK x \in New : New = {x}
    BY <1>3, <1>7
  <2>2. IsFiniteSet(Before \cup {x}) /\ Cardinality(Before \cup {x}) <= Cardinality(Before) + 1
    <3>1. /\ IsFiniteSet(Before \cup {x})
          /\ Cardinality(Before \cup {x}) =
               IF x \in Before THEN Cardinality(Before) ELSE Cardinality(Before) + 1
      BY <1>5, FS_AddElement
    <3> QED BY <1>5, <3>1
  <2>3. Cardinality(Before \cup {x}) \in Nat
    BY <2>2, FS_CardinalityType
  <2>4. Cardinality(After) <= Cardinality(Before \cup {x})
    BY <1>2, <2>1, <2>2, FS_Subset
  <2>5. Cardinality(After) <= Cardinality(Before) + 1
    BY <1>5, <2>2, <2>3, <2>4
  <2> QED BY <1>4, <1>7, <2>5 DEF After, Before
<1> QED BY <1>6, <1>7

\* A request that no longer admits to c makes room, if it did.
LEMMA AdmittedStep ==
  ASSUME TypeOK, NEW r \in Requests, NEW q, req' = [req EXCEPT ![r] = q], NEW c
  PROVE  /\ ~ Admits(q, c) \/ Admits(req[r], c) =>
              Cardinality(Admitted(c)') <= Cardinality(Admitted(c))
         /\ ~ Admits(q, c) /\ Admits(req[r], c) =>
              Cardinality(Admitted(c)') <= Cardinality(Admitted(c)) - 1
<1> DEFINE After == Admitted(c)'
           Before == Admitted(c)
<1>1. Before = {k \in Requests : Admits(req[k], c)} /\ After = {k \in Requests : Admits(req'[k], c)}
  BY DEF Admitted, Admits
<1>2. req'[r] = q /\ \A k \in Requests \ {r} : req'[k] = req[k]
  BY DEF TypeOK
<1> HIDE DEF After, Before
<1>3. /\ IsFiniteSet(Before) /\ IsFiniteSet(After)
      /\ Cardinality(Before) \in Nat /\ Cardinality(After) \in Nat
  BY <1>1, Counts
<1>4. ASSUME ~ Admits(q, c) \/ Admits(req[r], c)
      PROVE  Cardinality(After) <= Cardinality(Before)
  <2>1. After \subseteq Before
    BY <1>1, <1>2, <1>4
  <2> QED BY <1>3, <2>1, FS_Subset
<1>5. ASSUME ~ Admits(q, c), Admits(req[r], c)
      PROVE  Cardinality(After) <= Cardinality(Before) - 1
  <2>1. After \subseteq Before \ {r} /\ r \in Before
    BY <1>1, <1>2, <1>5
  <2>2. IsFiniteSet(Before \ {r}) /\ Cardinality(Before \ {r}) = Cardinality(Before) - 1
    BY <1>3, <2>1, FS_RemoveElement
  <2>3. Cardinality(After) <= Cardinality(Before \ {r})
    BY <2>1, <2>2, FS_Subset
  <2> QED BY <2>2, <2>3
<1> QED BY <1>4, <1>5 DEF After, Before

\* The bound for one class.
Bounded(c) ==
  Cardinality(Members(membership, c)) + Cardinality(Admitted(c))
    <= class[c].capacity + Cardinality(Requests)

LEMMA BoundStep ==
  ASSUME TypeOK, NEW c \in Classes, class[c] # NoRow, Bounded(c),
         class'[c].capacity = class[c].capacity,
         Cardinality(Members(membership', c)) + Cardinality(Admitted(c)')
           <= Cardinality(Members(membership, c)) + Cardinality(Admitted(c))
  PROVE  Bounded(c)'
<1> DEFINE m == Cardinality(Members(membership, c))
           mm == Cardinality(Members(membership', c))
           a == Cardinality(Admitted(c))
           aa == Cardinality(Admitted(c)')
           cap == class[c].capacity
           n == Cardinality(Requests)
<1>1. m \in Nat /\ mm \in Nat /\ a \in Nat /\ aa \in Nat /\ n \in Nat /\ cap \in Nat
  <2>1. /\ Members(membership, c) \in SUBSET Memberships /\ Members(membership', c) \in SUBSET Memberships
        /\ Admitted(c) \in SUBSET Requests /\ Admitted(c)' \in SUBSET Requests
    BY DEF Members, ActiveIn, Admitted
  <2> QED BY <2>1, Counts, ClassCapacity
<1>2. m + a <= cap + n /\ mm + aa <= m + a
  BY DEF Bounded
<1> HIDE DEF m, mm, a, aa, cap, n
<1>3. mm + aa <= cap + n
  BY <1>1, <1>2
<1> QED BY <1>3 DEF Bounded, mm, aa, cap, n

\* A class within its capacity is within the bound.
LEMMA RoomBound ==
  ASSUME NEW c, class'[c].capacity \in Nat,
         Cardinality(Members(membership', c)) <= class'[c].capacity
  PROVE  Bounded(c)'
<1> DEFINE mm == Cardinality(Members(membership', c))
           aa == Cardinality(Admitted(c)')
           cap == class'[c].capacity
           n == Cardinality(Requests)
<1>1. mm \in Nat /\ aa \in Nat /\ n \in Nat /\ aa <= n
  <2>1. Members(membership', c) \in SUBSET Memberships /\ Admitted(c)' \in SUBSET Requests
    BY DEF Members, ActiveIn, Admitted
  <2> QED BY <2>1, Counts
<1>2. mm <= cap /\ cap \in Nat
  OBVIOUS
<1> HIDE DEF mm, aa, cap, n
<1>3. mm + aa <= cap + n
  BY <1>1, <1>2
<1> QED BY <1>3 DEF Bounded, mm, aa, cap, n

LEMMA Unbooked ==
  ASSUME TypeOK, MembershipBacked, NEW c \in Classes, class[c] = NoRow
  PROVE  Members(membership, c) = {}
<1>1. ASSUME NEW m \in Members(membership, c) PROVE FALSE
  <2>1. membership[m] # NoRow /\ membership[m].class = c /\ m \in Memberships
    BY RowFacts DEF Members, ActiveIn, PeriodStatus, Current
  <2> QED BY <2>1 DEF MembershipBacked
<1> QED BY <1>1

LEMMA OfferBound ==
  ASSUME AcademicInv, OverbookingBounded, Offer
  PROVE  OverbookingBounded'
<1>1. TypeOK /\ KnownRows /\ MembershipBacked
  BY DEF AcademicInv
<1>2. UNCHANGED <<membership, req>> /\ TypeOK'
  BY <1>1, OfferSound DEF Sound
<1>3. class \in [Classes -> Class \cup {NoRow}] /\ NoRow \notin Class
  BY <1>1, RowFacts DEF TypeOK
<1> SUFFICES ASSUME NEW c \in Classes, c \notin edited', class'[c] # NoRow
             PROVE  Bounded(c)'
  BY DEF OverbookingBounded, Bounded
<1>4. ASSUME class[c] # NoRow, c \notin edited, class'[c].capacity = class[c].capacity
      PROVE  Bounded(c)'
  <2>1. Bounded(c)
    BY <1>4 DEF OverbookingBounded, Bounded
  <2> QED BY <1>2, <1>4, <2>1 DEF Bounded, Admitted
<1>5. ASSUME class[c] = NoRow
      PROVE  Bounded(c)'
  <2>1. class'[c].capacity \in Nat /\ class'[c].capacity >= 1
    <3>1. class'[c] \in Class
      BY <1>2 DEF TypeOK
    <3>2. class'[c].capacity \in Nat \ {0}
      BY <3>1, RowFacts, AcademicAssumption
    <3> QED BY <3>2
  <2>2. Members(membership', c) = {} /\ Cardinality({}) = 0
    BY <1>1, <1>2, <1>5, Unbooked, FS_EmptySet
  <2>3. Cardinality(Members(membership', c)) <= class'[c].capacity
    BY <2>1, <2>2
  <2> QED BY <2>1, <2>3, RoomBound
<1>6. ASSUME UNCHANGED <<class, edited>>
      PROVE  Bounded(c)'
  BY <1>4, <1>6
<1>7. ASSUME NEW k \in Classes, NEW new \in Class, CreateClass(k, new)
      PROVE  Bounded(c)'
  <2>1. class[k] = NoRow /\ class' = [class EXCEPT ![k] = new] /\ edited' = edited
    BY <1>7 DEF CreateClass
  <2>2. CASE c = k
    BY <1>5, <2>1, <2>2
  <2>3. CASE c # k
    BY <1>3, <1>4, <2>1, <2>3
  <2> QED BY <2>2, <2>3
<1>8. ASSUME NEW k \in Classes, NEW new \in Class, UpdateClass(k, new)
      PROVE  Bounded(c)'
  <2>1. /\ class[k] # NoRow /\ class' = [class EXCEPT ![k] = new]
        /\ edited' = IF new.modality = class[k].modality /\ new.capacity = class[k].capacity
                     THEN edited ELSE edited \cup {k}
    BY <1>8 DEF UpdateClass
  <2>2. c \notin edited
    BY <2>1
  <2>3. CASE c = k
    BY <1>3, <1>4, <2>1, <2>2, <2>3
  <2>4. CASE c # k
    BY <1>3, <1>4, <2>1, <2>2, <2>4
  <2> QED BY <2>3, <2>4
<1>9. ASSUME NEW k \in Classes, RemoveClass(k)
      PROVE  Bounded(c)'
  <2>1. class' = [class EXCEPT ![k] = NoRow] /\ edited' = edited \ {k}
    BY <1>9 DEF RemoveClass
  <2>2. c # k
    BY <1>3, <2>1
  <2> QED BY <1>3, <1>4, <2>1, <2>2
<1> QED BY <1>6, <1>7, <1>8, <1>9 DEF Offer, UpdateModality, RemoveModality

\* A step of a request, or one that takes no place.
LEMMA RequestBound ==
  ASSUME TypeOK, OverbookingBounded, UNCHANGED <<class, edited>>,
         NEW r \in Requests, NEW q, req' = [req EXCEPT ![r] = q],
         \A c \in Classes :
           \/ Cardinality(Members(membership', c)) <= class[c].capacity
           \/ /\ Cardinality(Members(membership', c)) <= Cardinality(Members(membership, c))
              /\ ~ Admits(q, c) \/ Admits(req[r], c)
           \/ /\ Cardinality(Members(membership', c)) <= Cardinality(Members(membership, c)) + 1
              /\ ~ Admits(q, c) /\ Admits(req[r], c)
  PROVE  OverbookingBounded'
<1> SUFFICES ASSUME NEW c \in Classes, c \notin edited, class[c] # NoRow
             PROVE  Bounded(c)'
  BY DEF OverbookingBounded, Bounded
<1>1. Bounded(c) /\ class'[c].capacity = class[c].capacity /\ class[c].capacity \in Nat
  BY ClassCapacity DEF OverbookingBounded, Bounded
<1>2. CASE Cardinality(Members(membership', c)) <= class[c].capacity
  BY <1>1, <1>2, RoomBound
<1>3. /\ Members(membership, c) \in SUBSET Memberships /\ Members(membership', c) \in SUBSET Memberships
      /\ Admitted(c) \in SUBSET Requests /\ Admitted(c)' \in SUBSET Requests
  BY DEF Members, ActiveIn, Admitted
<1>4. /\ Cardinality(Members(membership, c)) \in Nat /\ Cardinality(Members(membership', c)) \in Nat
      /\ Cardinality(Admitted(c)) \in Nat /\ Cardinality(Admitted(c)') \in Nat
  BY <1>3, Counts
<1>5. CASE /\ Cardinality(Members(membership', c)) <= Cardinality(Members(membership, c))
           /\ ~ Admits(q, c) \/ Admits(req[r], c)
  <2>1. Cardinality(Admitted(c)') <= Cardinality(Admitted(c))
    BY <1>5, AdmittedStep
  <2>2. Cardinality(Members(membership', c)) + Cardinality(Admitted(c)')
          <= Cardinality(Members(membership, c)) + Cardinality(Admitted(c))
    BY <1>4, <1>5, <2>1
  <2> QED BY <1>1, <2>2, BoundStep
<1>6. CASE /\ Cardinality(Members(membership', c)) <= Cardinality(Members(membership, c)) + 1
           /\ ~ Admits(q, c) /\ Admits(req[r], c)
  <2>1. Cardinality(Admitted(c)') <= Cardinality(Admitted(c)) - 1
    BY <1>6, AdmittedStep
  <2>2. Cardinality(Members(membership', c)) + Cardinality(Admitted(c)')
          <= Cardinality(Members(membership, c)) + Cardinality(Admitted(c))
    BY <1>4, <1>6, <2>1
  <2> QED BY <1>1, <2>2, BoundStep
<1> QED BY <1>2, <1>5, <1>6

\* A step of no request.
LEMMA QuietBound ==
  ASSUME TypeOK, OverbookingBounded, UNCHANGED <<class, edited, req>>,
         \A c \in Classes :
           \/ Cardinality(Members(membership', c)) <= class[c].capacity
           \/ Cardinality(Members(membership', c)) <= Cardinality(Members(membership, c))
  PROVE  OverbookingBounded'
<1> SUFFICES ASSUME NEW c \in Classes, c \notin edited, class[c] # NoRow
             PROVE  Bounded(c)'
  BY DEF OverbookingBounded, Bounded
<1>1. Bounded(c) /\ class'[c].capacity = class[c].capacity /\ class[c].capacity \in Nat
  BY ClassCapacity DEF OverbookingBounded, Bounded
<1>2. CASE Cardinality(Members(membership', c)) <= class[c].capacity
  BY <1>1, <1>2, RoomBound
<1>3. /\ Members(membership, c) \in SUBSET Memberships /\ Members(membership', c) \in SUBSET Memberships
      /\ Admitted(c) \in SUBSET Requests /\ Admitted(c)' = Admitted(c)
  BY DEF Members, ActiveIn, Admitted
<1>4. /\ Cardinality(Members(membership, c)) \in Nat /\ Cardinality(Members(membership', c)) \in Nat
      /\ Cardinality(Admitted(c)) \in Nat
  BY <1>3, Counts
<1>5. CASE Cardinality(Members(membership', c)) <= Cardinality(Members(membership, c))
  <2>1. Cardinality(Members(membership', c)) + Cardinality(Admitted(c)')
          <= Cardinality(Members(membership, c)) + Cardinality(Admitted(c))
    BY <1>3, <1>4, <1>5
  <2> QED BY <1>1, <2>1, BoundStep
<1> QED BY <1>2, <1>5

LEMMA FewerMembers ==
  ASSUME NEW old, NEW new, NEW c, Members(new, c) \subseteq Members(old, c)
  PROVE  Cardinality(Members(new, c)) <= Cardinality(Members(old, c))
<1>1. Members(old, c) \in SUBSET Memberships
  BY DEF Members, ActiveIn
<1> QED BY <1>1, Counts, FS_Subset

LEMMA LeaveCounts ==
  ASSUME TypeOK, NEW m \in Memberships, LeaveClass(m)
  PROVE  /\ \A n \in Memberships : membership'[n].status = "ACTIVE" => membership'[n] = membership[n]
         /\ \A c : Cardinality(Members(membership', c)) <= Cardinality(Members(membership, c))
<1>1. /\ membership \in MemberTable /\ membership[m] # NoRow
      /\ membership' = SetStatus(membership, {m}, "FINISHED")
  BY Tables, RowFacts DEF LeaveClass, PeriodStatus, Current
<1> DEFINE I == {m}
           new == SetStatus(membership, I, "FINISHED")
<1>2. I \in SUBSET Memberships /\ \A n \in I : membership[n] # NoRow
  BY <1>1
<1>3. "FINISHED" \in MemberStatus
  BY DEF MemberStatus
<1> HIDE DEF I
<1>4. /\ \A n \in I : new[n].status = "FINISHED"
      /\ \A n \in Memberships \ I : new[n] = membership[n]
  BY <1>1, <1>2, <1>3, MemberStatusSet
<1>5. membership' = new
  BY <1>1 DEF I
<1> HIDE DEF new
<1>6. \A n \in Memberships : membership'[n].status = "ACTIVE" => membership'[n] = membership[n]
  BY <1>4, <1>5
<1>7. \A c : Members(membership', c) \subseteq Members(membership, c)
  BY <1>6 DEF Members, ActiveIn
<1> QED BY <1>6, <1>7, FewerMembers

LEMMA RoomToEnter ==
  ASSUME TypeOK, NEW old \in MemberTable, NEW s, NEW C, Enters(old, s, C),
         NEW c \in Classes, class[c] # NoRow, HasRoom(old, c)
  PROVE  Cardinality(Members(membership', c)) <= class[c].capacity
<1>1. /\ Members(old, c) \in SUBSET Memberships /\ Members(membership', c) \in SUBSET Memberships
  BY DEF Members, ActiveIn
<1>2. /\ Cardinality(Members(old, c)) \in Nat /\ Cardinality(Members(membership', c)) \in Nat
      /\ class[c].capacity \in Nat
  BY <1>1, Counts, ClassCapacity
<1>3. Cardinality(Members(membership', c)) <= Cardinality(Members(old, c)) + 1
  BY EntersCounts
<1> QED BY <1>2, <1>3 DEF HasRoom

LEMMA MaintainCounts ==
  ASSUME TypeOK, NEW s \in Students, NEW add \in SUBSET Modalities,
         NEW join \in SUBSET Classes, NEW pause \in SUBSET Periods,
         NEW drop \in SUBSET ActiveIn(membership), Maintain(s, add, pause, drop, join),
         NEW c \in Classes
  PROVE  \/ Cardinality(Members(membership', c)) <= class[c].capacity
         \/ Cardinality(Members(membership', c)) <= Cardinality(Members(membership, c))
<1> DEFINE left == SetStatus(membership, drop, "FINISHED")
<1>1. /\ left \in MemberTable /\ Enters(left, s, join)
      /\ \A m \in Memberships : left[m].status = "ACTIVE" => m \notin drop /\ left[m] = membership[m]
  <2>1. MembersMaintained(s, drop, join)
    BY MaintainMembers
  <2> QED BY <2>1 DEF MembersMaintained
<1>2. \A k \in join : class[k] # NoRow /\ HasRoom(left, k)
  BY RowFacts DEF Maintain
<1> HIDE DEF left
<1>3. CASE c \in join
  BY <1>1, <1>2, <1>3, RoomToEnter
<1>4. CASE c \notin join
  <2>1. Members(left, c) \subseteq Members(membership, c)
    BY <1>1 DEF Members, ActiveIn
  <2>2. Cardinality(Members(left, c)) <= Cardinality(Members(membership, c))
    BY <2>1, FewerMembers
  <2>3. Cardinality(Members(membership', c)) <= Cardinality(Members(left, c))
    BY <1>1, <1>4, EntersCounts
  <2>4. /\ Members(left, c) \in SUBSET Memberships /\ Members(membership, c) \in SUBSET Memberships
        /\ Members(membership', c) \in SUBSET Memberships
    BY DEF Members, ActiveIn
  <2> QED BY <2>2, <2>3, <2>4, Counts
<1> QED BY <1>3, <1>4

LEMMA StartBound ==
  ASSUME TypeOK, OverbookingBounded, NEW r \in Requests, Starts(r)
  PROVE  OverbookingBounded'
<1>1. PICK q \in Request : Fresh(q) /\ req' = [req EXCEPT ![r] = q]
  BY DEF Starts
<1>2. UNCHANGED <<class, edited, membership>>
  BY DEF Starts, rows, offer
<1> DEFINE M(c) == Cardinality(Members(membership, c))
<1>3. \A c \in Classes : M(c) \in Nat
  BY Counts DEF Members, ActiveIn
<1>4. \A c \in Classes : class[c] # NoRow =>
        (Admits(q, c) => M(c) <= class[c].capacity)
  BY <1>1, <1>3, ClassCapacity DEF Fresh, HasRoom
<1> SUFFICES ASSUME NEW c \in Classes, c \notin edited, class[c] # NoRow
             PROVE  Bounded(c)'
  BY <1>2 DEF OverbookingBounded, Bounded
<1>5. Bounded(c) /\ class'[c].capacity = class[c].capacity /\ class[c].capacity \in Nat
  BY <1>2, ClassCapacity DEF OverbookingBounded, Bounded
<1>6. CASE Admits(q, c)
  BY <1>2, <1>4, <1>5, <1>6, RoomBound
<1>7. CASE ~ Admits(q, c)
  <2>1. Cardinality(Admitted(c)') <= Cardinality(Admitted(c))
    BY <1>1, <1>7, AdmittedStep
  <2>2. Cardinality(Admitted(c)') \in Nat /\ Cardinality(Admitted(c)) \in Nat
    BY Counts DEF Admitted
  <2>3. Cardinality(Members(membership', c)) + Cardinality(Admitted(c)')
          <= Cardinality(Members(membership, c)) + Cardinality(Admitted(c))
    BY <1>2, <1>3, <2>1, <2>2
  <2> QED BY <1>5, <2>3, BoundStep
<1> QED BY <1>6, <1>7

\* A request that enters the classes it was admitted to, and is over.
LEMMA EnterBound ==
  ASSUME TypeOK, OverbookingBounded, UNCHANGED <<class, edited>>,
         NEW r \in Requests, req' = [req EXCEPT ![r] = Idle],
         req[r].op \in {"enrol", "resume", "join"},
         Enters(membership, req[r].student, req[r].classes)
  PROVE  OverbookingBounded'
<1>1. \A c : ~ Admits(Idle, c)
  BY DEF Admits, Idle
<1>2. ASSUME NEW c \in Classes
      PROVE \/ /\ Cardinality(Members(membership', c)) <= Cardinality(Members(membership, c))
               /\ ~ Admits(Idle, c)
            \/ /\ Cardinality(Members(membership', c)) <= Cardinality(Members(membership, c)) + 1
               /\ ~ Admits(Idle, c) /\ Admits(req[r], c)
  <2>1. CASE c \in req[r].classes
    <3>1. Admits(req[r], c)
      BY <2>1 DEF Admits
    <3> QED BY <1>1, <3>1, Tables, EntersCounts
  <2>2. CASE c \notin req[r].classes
    BY <1>1, <2>2, Tables, EntersCounts
  <2> QED BY <2>1, <2>2
<1> QED BY <1>2, RequestBound

\* A request that takes no place, and is over.
LEMMA OverBound ==
  ASSUME TypeOK, OverbookingBounded, UNCHANGED <<class, edited, membership>>,
         NEW r \in Requests, req' = [req EXCEPT ![r] = Idle]
  PROVE  OverbookingBounded'
<1>1. \A c : ~ Admits(Idle, c)
  BY DEF Admits, Idle
<1>2. \A c \in Classes : Cardinality(Members(membership', c)) <= Cardinality(Members(membership, c))
  BY FewerMembers
<1> QED BY <1>1, <1>2, RequestBound

LEMMA ContinueBound ==
  ASSUME TypeOK, KnownRows, OverbookingBounded, NEW r \in Requests, Continue(r)
  PROVE  OverbookingBounded'
<1>1. CASE StartWrite(r)
  BY <1>1, StartWriteEffect, OverBound
<1>2. CASE ChangeWrite(r)
  BY <1>2, ChangeWriteEffect, OverBound
<1>3. CASE JoinWrite(r)
  BY <1>3, JoinWriteEffect, EnterBound DEF JoinWrite
<1>4. CASE EnrolTransaction(r)
  <2>1. PICK q \in ResumeRequest : req' = [req EXCEPT ![r] = q] /\ q.classes = req[r].classes
    BY <1>4, TransactionReads
  <2>2. UNCHANGED <<class, edited, membership>> /\ req[r].op = "enrol"
    BY <1>4 DEF EnrolTransaction, rows, offer
  <2>3. \A c : Admits(q, c) => Admits(req[r], c)
    BY <2>1, <2>2 DEF Admits
  <2>4. \A c \in Classes : Cardinality(Members(membership', c)) <= Cardinality(Members(membership, c))
    BY <2>2, FewerMembers
  <2> QED BY <2>1, <2>2, <2>3, <2>4, RequestBound
<1>5. CASE EnrolCommit(r)
  BY <1>5, EnrolCommitEffect, EnterBound DEF EnrolCommit
<1>6. CASE AbortRequest(r)
  BY <1>6, OverBound DEF AbortRequest, rows, offer
<1> QED BY <1>1, <1>2, <1>3, <1>4, <1>5, <1>6 DEF Continue

LEMMA BoundInvariantStep ==
  ASSUME AcademicInv, OverbookingBounded, [Next]_vars
  PROVE  OverbookingBounded'
<1>1. TypeOK /\ KnownRows
  BY DEF AcademicInv
<1>2. ASSUME UNCHANGED <<class, edited, membership, req>>
      PROVE  OverbookingBounded'
  BY <1>2 DEF OverbookingBounded, Admitted
<1>3. CASE Offer
  BY <1>3, OfferBound
<1>4. CASE Keep
  <2>1. ASSUME NEW m \in Memberships, LeaveClass(m)
        PROVE  OverbookingBounded'
    <3>1. UNCHANGED <<class, edited, req>>
      BY <2>1 DEF LeaveClass, offer
    <3> QED BY <1>1, <2>1, <3>1, LeaveCounts, QuietBound
  <2>2. ASSUME NEW s \in Students, NEW add \in SUBSET Modalities,
               NEW join \in SUBSET Classes, NEW pause \in SUBSET Periods,
               NEW drop \in SUBSET ActiveIn(membership), Maintain(s, add, pause, drop, join)
        PROVE  OverbookingBounded'
    <3>1. UNCHANGED <<class, edited, req>>
      BY <2>2 DEF Maintain, offer
    <3> QED BY <1>1, <2>2, <3>1, MaintainCounts, QuietBound
  <2> QED BY <1>4, <2>1, <2>2 DEF Keep
<1>5. CASE Record
  BY <1>1, <1>2, <1>5, RecordSound, CorrectSound DEF Record
<1>6. CASE \E r \in Requests : Begin(r) \/ Continue(r)
  BY <1>1, <1>6, BeginReads, StartBound, ContinueBound
<1>7. CASE UNCHANGED vars
  BY <1>2, <1>7 DEF vars
<1> QED BY <1>3, <1>4, <1>5, <1>6, <1>7 DEF Next

\* A class is overbooked by no more than the requests in flight, whatever their
\* interleaving.
THEOREM OverbookingStaysBounded == Spec => []OverbookingBounded
<1>1. Init => OverbookingBounded
  BY DEF Init, OverbookingBounded
<1>2. AcademicInv /\ OverbookingBounded /\ [Next]_vars => OverbookingBounded'
  BY BoundInvariantStep
<1> QED BY <1>1, <1>2, AcademicInvariant, PTL DEF Spec

-----------------------------------------------------------------------------
(* Requests one at a time *)

Quiet == \A r \in Requests : req[r] = Idle
OneRequest == \A r, q \in Requests : req[r] # Idle /\ req[q] # Idle => r = q
AllFresh == \A r \in Requests : Fresh(req[r])

\* What holds in the serial behaviours: the rules, and that nothing a request has
\* read changes before it writes.
Serially == ClassNeedsModality /\ WithinCapacity /\ OneRequest /\ AllFresh

LEMMA QuietFresh ==
  /\ Quiet => OneRequest /\ AllFresh
  /\ Quiet' => OneRequest' /\ AllFresh'
  BY DEF Quiet, OneRequest, AllFresh, Fresh, Admits, Idle

\* The request in flight ends: there is no other.
LEMMA EndsQuiet ==
  ASSUME TypeOK, OneRequest, NEW r \in Requests, req[r].op # "idle", req' = [req EXCEPT ![r] = Idle]
  PROVE  Quiet'
<1>1. req[r] # Idle /\ req \in [Requests -> Request]
  BY DEF Idle, TypeOK
<1> QED BY <1>1 DEF OneRequest, Quiet

\* One request in flight, and what it has read is so.
LEMMA OneFresh ==
  ASSUME TypeOK, UNCHANGED rows, NEW r \in Requests, NEW q \in Request, Fresh(q),
         req' = [req EXCEPT ![r] = q], \A k \in Requests \ {r} : req[k] = Idle
  PROVE  OneRequest' /\ AllFresh'
<1>1. req'[r] = q /\ \A k \in Requests \ {r} : req'[k] = Idle
  BY DEF TypeOK
<1>2. OneRequest'
  BY <1>1 DEF OneRequest
<1>3. UNCHANGED <<class, period, membership>>
  BY DEF rows, offer
<1>4. ASSUME NEW k \in Requests PROVE Fresh(req[k])'
  <2>1. CASE k = r
    BY <1>1, <1>3, <2>1 DEF Fresh, Admits, HoldsClass, ClassesOf, ModalityOf, PeriodsOf,
                            ActiveModalities, HasRoom
  <2>2. CASE k # r
    <3>1. req'[k] = Idle
      BY <1>1, <2>2
    <3> QED BY <3>1 DEF Fresh, Admits, Idle
  <2> QED BY <2>1, <2>2
<1> QED BY <1>2, <1>4 DEF AllFresh

\* The student s trains the modality x.
Trains(table, s, x) ==
  \E p \in Periods : table[p].status = "ACTIVE" /\ table[p].student = s /\ table[p].modality = x

LEMMA TrainsActive ==
  /\ \A s, x : x \in ActiveModalities(s) <=> Trains(period, s, x)
  /\ ClassNeedsModality <=>
       \A m \in Memberships : membership[m].status = "ACTIVE" /\ membership[m].class \notin edited =>
         Trains(period, membership[m].student, class[membership[m].class].modality)
  /\ ClassNeedsModality' <=>
       \A m \in Memberships : membership'[m].status = "ACTIVE" /\ membership'[m].class \notin edited' =>
         Trains(period', membership'[m].student, class'[membership'[m].class].modality)
  BY DEF ActiveModalities, PeriodsOf, Trains, ClassNeedsModality, ModalityOf, ActiveIn

\* Each active member after the step is an old one who still trains, or one who
\* trains now.
LEMMA NeedsStep ==
  ASSUME ClassNeedsModality, UNCHANGED <<class, edited>>,
         \A m \in Memberships : membership'[m].status = "ACTIVE" =>
           LET s == membership'[m].student
               x == class[membership'[m].class].modality
           IN  \/ Trains(period', s, x)
               \/ membership'[m] = membership[m] /\ (Trains(period, s, x) => Trains(period', s, x))
  PROVE  ClassNeedsModality'
<1>1. ASSUME NEW m \in Memberships, membership'[m].status = "ACTIVE", membership'[m].class \notin edited'
      PROVE  Trains(period', membership'[m].student, class'[membership'[m].class].modality)
  BY <1>1, TrainsActive
<1> QED BY <1>1, TrainsActive

\* Who trains goes on when no active period is written but resumed.
LEMMA ResumesTrain ==
  ASSUME TypeOK, NEW I \in SUBSET Periods, Resumes(I), NEW s, NEW x, Trains(period, s, x)
  PROVE  Trains(period', s, x)
<1>1. PICK p \in Periods : /\ period[p].status = "ACTIVE" /\ period[p].student = s
                           /\ period[p].modality = x
  BY DEF Trains
<1>2. period[p] # NoRow
  BY <1>1, RowFacts DEF PeriodStatus, Current
<1>3. period'[p].status = "ACTIVE" /\ period'[p].student = s /\ period'[p].modality = x
  BY <1>1, <1>2 DEF Resumes, KeepsPeriods
<1> QED BY <1>3 DEF Trains

LEMMA ResumesFinished ==
  ASSUME NEW I \in SUBSET Periods, Resumes(I), \A p \in I : period[p].status \in Current
  PROVE  PeriodsStayFinished
<1>1. ASSUME NEW p \in Periods, period[p].status = "FINISHED"
      PROVE  period'[p] = period[p]
  <2>1. p \notin I
    BY <1>1 DEF Current
  <2>2. period[p] # NoRow
    BY <1>1, RowFacts DEF PeriodStatus
  <2> QED BY <2>1, <2>2 DEF Resumes
<1> QED BY <1>1 DEF PeriodsStayFinished

\* No more members than before, or no more than there is room for.
LEMMA RoomStep ==
  ASSUME TypeOK, WithinCapacity, UNCHANGED <<class, edited>>,
         \A c \in Classes : class[c] # NoRow =>
           \/ Cardinality(Members(membership', c)) <= class[c].capacity
           \/ Cardinality(Members(membership', c)) <= Cardinality(Members(membership, c))
  PROVE  WithinCapacity'
<1>1. ASSUME NEW c \in Classes, c \notin edited, class[c] # NoRow
      PROVE  Cardinality(Members(membership', c)) <= class[c].capacity
  <2>1. Cardinality(Members(membership, c)) <= class[c].capacity /\ class[c].capacity \in Nat
    BY <1>1, ClassCapacity DEF WithinCapacity
  <2>2. Cardinality(Members(membership', c)) \in Nat /\ Cardinality(Members(membership, c)) \in Nat
    BY Counts DEF Members, ActiveIn
  <2> QED BY <1>1, <2>1, <2>2
<1> QED BY <1>1 DEF WithinCapacity

\* What the offer changes about a class that is there before and after.
LEMMA OfferOfClass ==
  ASSUME TypeOK, Offer, NEW c \in Classes, class[c] # NoRow, class'[c] # NoRow, c \notin edited'
  PROVE  /\ c \notin edited /\ class'[c].modality = class[c].modality
         /\ class'[c].capacity = class[c].capacity
<1>1. class \in [Classes -> Class \cup {NoRow}]
  BY DEF TypeOK
<1>2. CASE UNCHANGED <<class, edited>>
  BY <1>2
<1>3. ASSUME NEW k \in Classes, NEW new \in Class, CreateClass(k, new)
      PROVE  c # k /\ class'[c] = class[c] /\ edited' = edited
  BY <1>1, <1>3 DEF CreateClass
<1>4. ASSUME NEW k \in Classes, NEW new \in Class, UpdateClass(k, new)
      PROVE  /\ c \notin edited /\ class'[c].modality = class[c].modality
             /\ class'[c].capacity = class[c].capacity
  <2>1. /\ class' = [class EXCEPT ![k] = new]
        /\ edited' = IF new.modality = class[k].modality /\ new.capacity = class[k].capacity
                     THEN edited ELSE edited \cup {k}
    BY <1>4 DEF UpdateClass
  <2>2. CASE c = k
    BY <1>1, <2>1, <2>2
  <2>3. CASE c # k
    BY <1>1, <2>1, <2>3
  <2> QED BY <2>2, <2>3
<1>5. ASSUME NEW k \in Classes, RemoveClass(k)
      PROVE  c # k /\ class'[c] = class[c] /\ edited' = edited \ {k}
  BY <1>1, <1>5 DEF RemoveClass
<1> QED BY <1>2, <1>3, <1>4, <1>5 DEF Offer, UpdateModality, RemoveModality

LEMMA OfferSerial ==
  ASSUME AcademicInv, Serially, Quiet, Offer
  PROVE  Serially' /\ PeriodsStayFinished
<1>1. TypeOK /\ KnownRows /\ MembershipBacked /\ ClassNeedsModality /\ WithinCapacity
  BY DEF AcademicInv, Serially
<1>2. UNCHANGED <<period, membership, req>> /\ TypeOK' /\ UsedClassesKept
  BY <1>1, OfferSound, OfferKeepsUsed DEF Sound
<1>3. OneRequest' /\ AllFresh' /\ PeriodsStayFinished
  BY <1>2, QuietFresh DEF Quiet, PeriodsStayFinished
<1>4. ASSUME NEW m \in Memberships, membership[m].status = "ACTIVE", membership[m].class \notin edited'
      PROVE  Trains(period, membership[m].student, class'[membership[m].class].modality)
  <2> DEFINE c == membership[m].class
  <2>1. membership[m] # NoRow
    BY <1>4, RowFacts DEF PeriodStatus, Current
  <2>2. c \in Classes
    BY <1>1, <2>1, Tables, RowOfStatus, RowFacts
  <2>3. class[c] # NoRow /\ class'[c] # NoRow
    BY <1>1, <1>2, <2>1 DEF MembershipBacked, UsedClassesKept
  <2>4. c \notin edited /\ class'[c].modality = class[c].modality
    BY <1>1, <1>4, <2>2, <2>3, OfferOfClass
  <2> QED BY <1>1, <1>4, <2>4, TrainsActive
<1>5. ClassNeedsModality'
  BY <1>2, <1>4, TrainsActive
<1>6. ASSUME NEW c \in Classes, c \notin edited', class'[c] # NoRow
      PROVE  Cardinality(Members(membership, c)) <= class'[c].capacity
  <2>1. CASE class[c] # NoRow
    BY <1>1, <1>6, <2>1, OfferOfClass DEF WithinCapacity
  <2>2. CASE class[c] = NoRow
    <3>1. Cardinality(Members(membership, c)) = 0
      BY <1>1, <2>2, Unbooked, FS_EmptySet
    <3>2. class'[c] \in Class
      BY <1>2, <1>6 DEF TypeOK
    <3>3. class'[c].capacity \in Nat \ {0}
      BY <3>2, RowFacts, AcademicAssumption
    <3> QED BY <3>1, <3>3
  <2> QED BY <2>1, <2>2
<1>7. WithinCapacity'
  BY <1>2, <1>6 DEF WithinCapacity
<1> QED BY <1>3, <1>5, <1>7 DEF Serially

LEMMA LeaveSerial ==
  ASSUME AcademicInv, Serially, Quiet, NEW m \in Memberships, LeaveClass(m)
  PROVE  Serially' /\ PeriodsStayFinished
<1>1. TypeOK /\ ClassNeedsModality /\ WithinCapacity /\ UNCHANGED <<class, edited, period, req>>
  BY DEF AcademicInv, Serially, LeaveClass, offer
<1>2. OneRequest' /\ AllFresh' /\ PeriodsStayFinished
  BY <1>1, QuietFresh DEF Quiet, PeriodsStayFinished
<1>3. ClassNeedsModality'
  BY <1>1, LeaveCounts, NeedsStep
<1>4. WithinCapacity'
  BY <1>1, LeaveCounts, RoomStep
<1> QED BY <1>2, <1>3, <1>4 DEF Serially

LEMMA MaintainSerial ==
  ASSUME AcademicInv, Serially, Quiet, NEW s \in Students, NEW add \in SUBSET Modalities,
         NEW join \in SUBSET Classes, NEW pause \in SUBSET Periods,
         NEW drop \in SUBSET ActiveIn(membership), Maintain(s, add, pause, drop, join)
  PROVE  Serially' /\ PeriodsStayFinished
<1>1. TypeOK /\ ClassNeedsModality /\ WithinCapacity /\ UNCHANGED <<class, edited, req>>
  BY DEF AcademicInv, Serially, Maintain, offer
<1>2. PeriodsMaintained(s, add, pause) /\ MembersMaintained(s, drop, join)
  BY <1>1, MaintainPeriods, MaintainMembers
<1>3. /\ KeepsPeriods(period, period')
      /\ \A p \in pause : period[p].student = s /\ period[p].status \in Current
      /\ \A p \in Periods \ pause : period[p].status \in {"ACTIVE", "FINISHED"} => period'[p] = period[p]
  BY <1>2 DEF PeriodsMaintained
<1> DEFINE left == SetStatus(membership, drop, "FINISHED")
<1>4. /\ Enters(left, s, join)
      /\ \A m \in Memberships : left[m].status = "ACTIVE" => m \notin drop /\ left[m] = membership[m]
  BY <1>2 DEF MembersMaintained
<1>5. /\ \A c \in join : Trains(period', s, class[c].modality)
      /\ InTheWay(s, {period[p].modality : p \in pause}, drop) = {}
  BY DEF Maintain, Trains, ModalityOf
<1> HIDE DEF left
<1>6. PeriodsStayFinished
  BY <1>3 DEF PeriodsStayFinished, Current
<1>7. OneRequest' /\ AllFresh'
  BY <1>1, QuietFresh DEF Quiet
<1>8. ASSUME NEW m \in Memberships, membership'[m] = membership[m], m \notin drop,
             membership[m].status = "ACTIVE",
             Trains(period, membership[m].student, class[membership[m].class].modality)
      PROVE  Trains(period', membership[m].student, class[membership[m].class].modality)
  <2> DEFINE x == class[membership[m].class].modality
  <2>1. PICK p \in Periods : /\ period[p].status = "ACTIVE" /\ period[p].student = membership[m].student
                             /\ period[p].modality = x
    BY <1>8 DEF Trains
  <2>2. p \notin pause
    <3> SUFFICES ASSUME p \in pause PROVE FALSE
      OBVIOUS
    <3>1. membership[m].student = s
      BY <1>3, <2>1
    <3>2. m \in InTheWay(s, {period[k].modality : k \in pause}, drop)
      BY <1>8, <2>1, <3>1 DEF InTheWay, ActiveIn, ModalityOf
    <3> QED BY <1>5, <3>2
  <2>3. period'[p] = period[p]
    BY <1>3, <2>1, <2>2
  <2> QED BY <2>1, <2>3 DEF Trains
<1>9. ASSUME NEW m \in Memberships, membership'[m].status = "ACTIVE"
      PROVE  \/ Trains(period', membership'[m].student, class[membership'[m].class].modality)
             \/ /\ membership'[m] = membership[m]
                /\ Trains(period, membership'[m].student, class[membership'[m].class].modality) =>
                     Trains(period', membership'[m].student, class[membership'[m].class].modality)
  <2>1. CASE membership'[m] = left[m]
    <3>1. m \notin drop /\ membership'[m] = membership[m]
      BY <1>4, <1>9, <2>1
    <3> QED BY <1>8, <1>9, <3>1
  <2>2. CASE membership'[m].student = s /\ membership'[m].class \in join
    BY <1>5, <2>2
  <2> QED BY <1>4, <2>1, <2>2 DEF Enters
<1>10. ClassNeedsModality'
  BY <1>1, <1>9, NeedsStep
<1>11. WithinCapacity'
  BY <1>1, MaintainCounts, RoomStep
<1> QED BY <1>6, <1>7, <1>10, <1>11 DEF Serially

LEMMA RecordSerial ==
  ASSUME AcademicInv, Serially, Quiet, Record
  PROVE  Serially' /\ PeriodsStayFinished
<1>1. TypeOK /\ KnownRows /\ ClassNeedsModality /\ WithinCapacity
  BY DEF AcademicInv, Serially
<1>2. UNCHANGED <<class, edited, period, membership, req>>
  BY <1>1, RecordSound, CorrectSound DEF Record
<1>3. OneRequest' /\ AllFresh' /\ PeriodsStayFinished
  BY <1>2, QuietFresh DEF Quiet, PeriodsStayFinished
<1>4. ClassNeedsModality' /\ WithinCapacity'
  BY <1>1, <1>2, NeedsStep, RoomStep, FewerMembers
<1> QED BY <1>3, <1>4 DEF Serially

\* The rows are as before.
LEMMA RowsSerial ==
  ASSUME TypeOK, ClassNeedsModality, WithinCapacity, UNCHANGED rows
  PROVE  ClassNeedsModality' /\ WithinCapacity' /\ PeriodsStayFinished
<1>1. UNCHANGED <<class, edited, period, membership>>
  BY DEF rows, offer
<1> QED BY <1>1, NeedsStep, RoomStep, FewerMembers DEF PeriodsStayFinished

LEMMA BeginSerial ==
  ASSUME AcademicInv, Serially, Quiet, NEW r \in Requests, Begin(r)
  PROVE  Serially' /\ PeriodsStayFinished
<1>1. TypeOK /\ ClassNeedsModality /\ WithinCapacity
  BY DEF AcademicInv, Serially
<1>2. Starts(r)
  BY <1>1, BeginReads
<1>3. OneRequest' /\ AllFresh'
  BY <1>1, <1>2, OneFresh DEF Starts, Quiet
<1> QED BY <1>1, <1>2, <1>3, RowsSerial DEF Starts, Serially

LEMMA StartWriteSerial ==
  ASSUME AcademicInv, Serially, NEW r \in Requests, StartWrite(r)
  PROVE  Serially' /\ PeriodsStayFinished
<1>1. TypeOK /\ KnownRows /\ ClassNeedsModality /\ WithinCapacity /\ OneRequest /\ Fresh(req[r])
  BY DEF AcademicInv, Serially, AllFresh
<1> DEFINE I == {req[r].period} \ {None}
<1>2. /\ Resumes(I) /\ req[r] \in StartRequest /\ req' = [req EXCEPT ![r] = Idle]
      /\ UNCHANGED <<class, edited, membership>>
  BY <1>1, StartWriteEffect
<1>3. /\ req[r].op = "start" /\ I \in SUBSET Periods
      /\ \A p \in I : period[p].status \in Current
  BY <1>1, <1>2 DEF StartRequest, Fresh
<1> HIDE DEF I
<1>4. PeriodsStayFinished
  BY <1>2, <1>3, ResumesFinished
<1>5. OneRequest' /\ AllFresh'
  BY <1>1, <1>2, <1>3, EndsQuiet, QuietFresh
<1>6. ClassNeedsModality'
  BY <1>1, <1>2, <1>3, ResumesTrain, NeedsStep
<1>7. WithinCapacity'
  BY <1>1, <1>2, RoomStep, FewerMembers
<1> QED BY <1>4, <1>5, <1>6, <1>7 DEF Serially

LEMMA ChangeWriteSerial ==
  ASSUME AcademicInv, Serially, NEW r \in Requests, ChangeWrite(r)
  PROVE  Serially' /\ PeriodsStayFinished
<1>1. TypeOK /\ KnownRows /\ ClassNeedsModality /\ WithinCapacity /\ OneRequest /\ Fresh(req[r])
  BY DEF AcademicInv, Serially, AllFresh
<1> DEFINE p == req[r].period
           to == req[r].to
<1>2. /\ KeepsPeriods(period, period') /\ p \in Periods /\ period'[p].status = to
      /\ \A k \in Periods \ {p} : period'[k] = period[k]
      /\ req[r] \in ChangeRequest /\ req' = [req EXCEPT ![r] = Idle]
      /\ UNCHANGED <<class, edited, membership>>
  BY <1>1, ChangeWriteEffect
<1>3. /\ req[r].op = "change" /\ period[p].status \in Current
      /\ to # "ACTIVE" => ~ HoldsClass(p)
  BY <1>1, <1>2 DEF ChangeRequest, Fresh
<1> HIDE DEF p, to
<1>4. PeriodsStayFinished
  BY <1>2, <1>3 DEF PeriodsStayFinished, Current
<1>5. OneRequest' /\ AllFresh'
  BY <1>1, <1>2, <1>3, EndsQuiet, QuietFresh
<1>6. ASSUME NEW m \in Memberships, membership[m].status = "ACTIVE",
             Trains(period, membership[m].student, class[membership[m].class].modality)
      PROVE  Trains(period', membership[m].student, class[membership[m].class].modality)
  <2>1. PICK k \in Periods : /\ period[k].status = "ACTIVE" /\ period[k].student = membership[m].student
                             /\ period[k].modality = class[membership[m].class].modality
    BY <1>6 DEF Trains
  <2>2. CASE k # p
    BY <1>2, <2>1, <2>2 DEF Trains
  <2>3. CASE k = p
    <3>1. HoldsClass(p)
      BY <1>6, <2>1, <2>3 DEF HoldsClass, ClassesOf, ActiveIn, ModalityOf
    <3>2. to = "ACTIVE"
      BY <1>3, <3>1
    <3>3. period[p] # NoRow
      BY <2>1, <2>3, RowFacts DEF PeriodStatus, Current
    <3>4. /\ period'[p].status = "ACTIVE" /\ period'[p].student = membership[m].student
          /\ period'[p].modality = class[membership[m].class].modality
      BY <1>2, <2>1, <2>3, <3>2, <3>3 DEF KeepsPeriods
    <3> QED BY <1>2, <3>4 DEF Trains
  <2> QED BY <2>2, <2>3
<1>7. ClassNeedsModality'
  BY <1>1, <1>2, <1>6, NeedsStep
<1>8. WithinCapacity'
  BY <1>1, <1>2, RoomStep, FewerMembers
<1> QED BY <1>4, <1>5, <1>7, <1>8 DEF Serially

\* Those who enter train, and find room; those who trained go on.
LEMMA EnterSerial ==
  ASSUME TypeOK, ClassNeedsModality, WithinCapacity, UNCHANGED <<class, edited>>,
         NEW s, NEW C \in SUBSET Classes, Enters(membership, s, C),
         \A t, x : Trains(period, t, x) => Trains(period', t, x),
         \A c \in C : class[c] # NoRow /\ HasRoom(membership, c) /\ Trains(period', s, class[c].modality)
  PROVE  ClassNeedsModality' /\ WithinCapacity'
<1>1. ASSUME NEW m \in Memberships
      PROVE  \/ membership'[m] = membership[m]
             \/ Trains(period', membership'[m].student, class[membership'[m].class].modality)
  BY DEF Enters
<1>2. ClassNeedsModality'
  BY <1>1, NeedsStep
<1>3. ASSUME NEW c \in Classes, class[c] # NoRow
      PROVE  \/ Cardinality(Members(membership', c)) <= class[c].capacity
             \/ Cardinality(Members(membership', c)) <= Cardinality(Members(membership, c))
  <2>1. CASE c \in C
    BY <1>3, <2>1, Tables, RoomToEnter
  <2>2. CASE c \notin C
    BY <2>2, Tables, EntersCounts
  <2> QED BY <2>1, <2>2
<1> QED BY <1>2, <1>3, RoomStep

LEMMA JoinWriteSerial ==
  ASSUME AcademicInv, Serially, NEW r \in Requests, JoinWrite(r)
  PROVE  Serially' /\ PeriodsStayFinished
<1>1. TypeOK /\ ClassNeedsModality /\ WithinCapacity /\ OneRequest /\ Fresh(req[r])
  BY DEF AcademicInv, Serially, AllFresh
<1> DEFINE C == req[r].classes
           s == req[r].student
<1>2. /\ Enters(membership, s, C) /\ \A c \in C : class[c] # NoRow
      /\ req[r] \in JoinRequest /\ req' = [req EXCEPT ![r] = Idle]
      /\ UNCHANGED <<class, edited, period>>
  BY <1>1, JoinWriteEffect
<1>3. req[r].op = "join" /\ C \in SUBSET Classes
  BY <1>2 DEF JoinRequest
<1>4. \A c \in C : HasRoom(membership, c) /\ Trains(period, s, class[c].modality)
  BY <1>1, <1>3, TrainsActive DEF Fresh, Admits, ModalityOf
<1>5. OneRequest' /\ AllFresh'
  BY <1>1, <1>2, <1>3, EndsQuiet, QuietFresh
<1> HIDE DEF C, s
<1>6. ClassNeedsModality' /\ WithinCapacity'
  BY <1>1, <1>2, <1>3, <1>4, EnterSerial
<1>7. PeriodsStayFinished
  BY <1>2 DEF PeriodsStayFinished
<1> QED BY <1>5, <1>6, <1>7 DEF Serially

LEMMA TransactionSerial ==
  ASSUME AcademicInv, Serially, NEW r \in Requests, EnrolTransaction(r)
  PROVE  Serially' /\ PeriodsStayFinished
<1>1. TypeOK /\ ClassNeedsModality /\ WithinCapacity /\ OneRequest /\ Fresh(req[r])
  BY DEF AcademicInv, Serially, AllFresh
<1>2. UNCHANGED rows /\ req[r].op = "enrol" /\ req[r] # Idle
  BY DEF EnrolTransaction, Idle
<1>3. PICK q \in ResumeRequest :
        /\ req' = [req EXCEPT ![r] = q] /\ q.student = req[r].student
        /\ q.modalities = req[r].modalities /\ q.classes = req[r].classes
        /\ q.paused \subseteq PeriodsOf(q.student, {"PAUSED"})
  BY <1>1, TransactionReads
<1>4. q.op = "resume" /\ q \in Request
  BY <1>3 DEF ResumeRequest, Request
<1>5. /\ \A c \in q.classes : ModalityOf(c) \in q.modalities
      /\ \A c \in Classes : c \in q.classes => HasRoom(membership, c)
  BY <1>1, <1>2, <1>3 DEF Fresh, Admits
<1>6. Fresh(q)
  BY <1>3, <1>4, <1>5 DEF Fresh, Admits
<1>7. \A k \in Requests \ {r} : req[k] = Idle
  BY <1>1, <1>2 DEF OneRequest
<1>8. OneRequest' /\ AllFresh'
  BY <1>1, <1>2, <1>3, <1>4, <1>6, <1>7, OneFresh
<1> QED BY <1>1, <1>2, <1>8, RowsSerial DEF Serially

LEMMA EnrolCommitSerial ==
  ASSUME AcademicInv, Serially, NEW r \in Requests, EnrolCommit(r)
  PROVE  Serially' /\ PeriodsStayFinished
<1>1. TypeOK /\ KnownRows /\ ClassNeedsModality /\ WithinCapacity /\ OneRequest /\ Fresh(req[r])
  BY DEF AcademicInv, Serially, AllFresh
<1> DEFINE C == req[r].classes
           s == req[r].student
           M == req[r].modalities
           I == req[r].paused
<1>2. /\ Resumes(I) /\ Enters(membership, s, C) /\ \A c \in C : class[c] # NoRow
      /\ \A x \in M \ {period[p].modality : p \in I} :
           \E p \in Periods : /\ period'[p].status = "ACTIVE" /\ period'[p].modality = x
                              /\ period'[p].student = s
      /\ req[r] \in ResumeRequest /\ req' = [req EXCEPT ![r] = Idle]
      /\ UNCHANGED <<class, edited>>
  BY <1>1, EnrolCommitEffect
<1>3. req[r].op = "resume" /\ C \in SUBSET Classes /\ I \in SUBSET Periods
  BY <1>2 DEF ResumeRequest
<1>4. /\ I \subseteq PeriodsOf(s, {"PAUSED"})
      /\ \A c \in C : class[c].modality \in M /\ HasRoom(membership, c)
  BY <1>1, <1>3 DEF Fresh, Admits, ModalityOf
<1>5. OneRequest' /\ AllFresh'
  BY <1>1, <1>2, <1>3, EndsQuiet, QuietFresh
<1> HIDE DEF C, s, M, I
<1>6. \A p \in I : period[p].status = "PAUSED" /\ period[p].student = s /\ p \in Periods
  BY <1>4 DEF PeriodsOf
<1>7. PeriodsStayFinished
  BY <1>2, <1>3, <1>6, ResumesFinished DEF Current
<1>8. ASSUME NEW x \in M
      PROVE  Trains(period', s, x)
  <2>1. CASE x \in {period[p].modality : p \in I}
    <3>1. PICK p \in I : period[p].modality = x
      BY <2>1
    <3>2. period[p] # NoRow
      BY <1>6, RowFacts DEF PeriodStatus, Current
    <3>3. period'[p].status = "ACTIVE" /\ period'[p].student = s /\ period'[p].modality = x
      BY <1>2, <1>6, <3>1, <3>2 DEF Resumes, KeepsPeriods
    <3> QED BY <1>6, <3>3 DEF Trains
  <2>2. CASE x \notin {period[p].modality : p \in I}
    BY <1>2, <2>2 DEF Trains
  <2> QED BY <2>1, <2>2
<1>9. \A t, x : Trains(period, t, x) => Trains(period', t, x)
  BY <1>1, <1>2, <1>3, ResumesTrain
<1>10. ClassNeedsModality' /\ WithinCapacity'
  BY <1>1, <1>2, <1>3, <1>4, <1>8, <1>9, EnterSerial
<1> QED BY <1>5, <1>7, <1>10 DEF Serially

LEMMA SerialStep ==
  ASSUME AcademicInv, Serially, SerialNext
  PROVE  Serially' /\ PeriodsStayFinished
<1>1. ASSUME Quiet, Offer \/ Keep \/ Record \/ \E r \in Requests : Begin(r)
      PROVE  Serially' /\ PeriodsStayFinished
  <2>1. CASE Offer
    BY <1>1, <2>1, OfferSerial
  <2>2. CASE Keep
    BY <1>1, <2>2, LeaveSerial, MaintainSerial DEF Keep
  <2>3. CASE Record
    BY <1>1, <2>3, RecordSerial
  <2>4. CASE \E r \in Requests : Begin(r)
    BY <1>1, <2>4, BeginSerial
  <2> QED BY <1>1, <2>1, <2>2, <2>3, <2>4
<1>2. ASSUME NEW r \in Requests, AbortRequest(r)
      PROVE  Serially' /\ PeriodsStayFinished
  <2>1. TypeOK /\ ClassNeedsModality /\ WithinCapacity /\ OneRequest
    BY DEF AcademicInv, Serially
  <2>2. UNCHANGED rows /\ req' = [req EXCEPT ![r] = Idle] /\ req[r] # Idle
    BY <1>2 DEF AbortRequest
  <2>3. req[r].op # "idle"
    BY <2>1, <2>2, Tables, RequestKinds
  <2>4. OneRequest' /\ AllFresh'
    BY <2>1, <2>2, <2>3, EndsQuiet, QuietFresh
  <2> QED BY <2>1, <2>2, <2>4, RowsSerial DEF Serially
<1>3. ASSUME NEW r \in Requests, Continue(r)
      PROVE  Serially' /\ PeriodsStayFinished
  BY <1>2, <1>3, StartWriteSerial, ChangeWriteSerial, JoinWriteSerial, TransactionSerial,
     EnrolCommitSerial DEF Continue
<1> QED BY <1>1, <1>3 DEF SerialNext, Quiet

\* The serial behaviours are behaviours of the academy.
LEMMA SerialIsNext ==
  ASSUME [MCNext]_<<vars, serial>>
  PROVE  [Next]_vars /\ UNCHANGED serial
  BY DEF MCNext, SerialNext, Next

SerialInv == AcademicInv /\ (serial => Serially)

THEOREM SerialInvariant == MCSpec => []SerialInv
<1>1. MCInit => SerialInv
  <2> SUFFICES ASSUME MCInit PROVE SerialInv
    OBVIOUS
  <2>1. AcademicInv /\ Quiet
    BY InitAcademicInv DEF MCInit, Init, Quiet
  <2>2. ClassNeedsModality /\ WithinCapacity
    BY RowFacts DEF MCInit, Init, ClassNeedsModality, WithinCapacity, ActiveIn, PeriodStatus, Current
  <2> QED BY <2>1, <2>2, QuietFresh DEF SerialInv, Serially
<1>2. SerialInv /\ [MCNext]_<<vars, serial>> => SerialInv'
  <2> SUFFICES ASSUME SerialInv, [MCNext]_<<vars, serial>> PROVE SerialInv'
    OBVIOUS
  <2>1. AcademicInv' /\ UNCHANGED serial
    BY SerialIsNext, AcademicStep DEF SerialInv
  <2>2. ASSUME serial, SerialNext PROVE Serially'
    BY <2>2, SerialStep DEF SerialInv
  <2>3. ASSUME serial, UNCHANGED vars PROVE Serially'
    <3>1. Serially /\ UNCHANGED <<class, edited, period, membership, req>>
      BY <2>3 DEF SerialInv, vars
    <3> QED BY <3>1 DEF Serially, ClassNeedsModality, WithinCapacity, OneRequest, AllFresh, Fresh, Admits,
              HoldsClass, ClassesOf, ModalityOf, PeriodsOf, ActiveModalities, HasRoom
  <2> QED BY <2>1, <2>2, <2>3 DEF MCNext, SerialInv
<1> QED BY <1>1, <1>2, PTL DEF MCSpec

\* One request at a time, the members of a class train its modality, no class is
\* overbooked and finished periods stay as they are.
THEOREM SerialRulesHold == MCSpec => SerialRules
<1>1. SerialInv /\ SerialInv' /\ [MCNext]_<<vars, serial>> =>
        [serial => ClassNeedsModality' /\ WithinCapacity' /\ PeriodsStayFinished]_<<vars, serial>>
  <2> SUFFICES ASSUME SerialInv, SerialInv', MCNext, serial
               PROVE  ClassNeedsModality' /\ WithinCapacity' /\ PeriodsStayFinished
    OBVIOUS
  <2>1. SerialNext
    BY DEF MCNext
  <2>2. Serially' /\ PeriodsStayFinished
    BY <2>1, SerialStep DEF SerialInv
  <2> QED BY <2>2 DEF Serially
<1> QED BY <1>1, SerialInvariant, PTL DEF MCSpec, SerialRules
=============================================================================
