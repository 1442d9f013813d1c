--------------------------- MODULE BillingProofs ---------------------------
(* Theorems about Billing for every value of its constants. *)
EXTENDS Billing, SumTheorems

-----------------------------------------------------------------------------
(* Rows of Charge *)

Table == [Charges -> Row \cup {Absent}]

\* The keys of a table's rows are distinct.
Unique(table) ==
  \A c, d \in Charges :
    c # d /\ table[c] # Absent /\ table[d] # Absent => Key(table[c]) # Key(table[d])

\* A row has a status, which tells it from a free id.
LEMMA RowIsThere == ASSUME NEW row \in Row PROVE row # Absent
  BY DEF Row, Absent, ChargeStatus

\* Setting its status leaves a row in its place of the unique index.
LEMMA RowStatusSet ==
  ASSUME NEW row \in Row, NEW s \in ChargeStatus
  PROVE  /\ [row EXCEPT !.status = s] \in Row
         /\ Key([row EXCEPT !.status = s]) = Key(row)
         /\ [row EXCEPT !.status = s].status = s
  BY DEF Row, Key

\* Patching a row with the fields an update may carry gives a row.
LEMMA RowPatched ==
  ASSUME NEW row \in Row, NEW patch \in Patches
  PROVE  [f \in DOMAIN row |-> IF f \in DOMAIN patch THEN patch[f] ELSE row[f]] \in Row
<1> DEFINE new == [f \in DOMAIN row |-> IF f \in DOMAIN patch THEN patch[f] ELSE row[f]]
           fields == {"status", "student", "type", "month", "plan", "final", "due"}
<1>1. DOMAIN row = fields /\ new \in [fields -> {new[f] : f \in fields}]
  BY DEF Row
<1>2. /\ new["student"] = row.student /\ new["type"] = row.type /\ new["plan"] = row.plan
  BY <1>1, BillingAssumption
<1>3. new["status"] \in ChargeStatus
  BY <1>1, BillingAssumption DEF Row
<1>4. new["month"] \in Nat
  BY <1>1, BillingAssumption DEF Row
<1>5. new["final"] \in Nat
  BY <1>1, BillingAssumption DEF Row
<1>6. new["due"] \in Nat
  BY <1>1, BillingAssumption DEF Row
<1>7. new = [status |-> new["status"], student |-> new["student"], type |-> new["type"],
             month |-> new["month"], plan |-> new["plan"], final |-> new["final"],
             due |-> new["due"]]
  BY <1>1
<1> QED BY <1>2, <1>3, <1>4, <1>5, <1>6, <1>7 DEF Row

\* Setting the status of some rows leaves every row in its place.
LEMMA StatusSet ==
  ASSUME charge \in Table, NEW C, C \subseteq Rows, NEW s \in ChargeStatus, SetStatus(C, s)
  PROVE  /\ charge' \in Table
         /\ Unique(charge) => Unique(charge')
         /\ \A c \in Charges : charge[c] # Absent => charge'[c] # Absent
<1>1. \A c \in Charges : charge'[c] =
        IF c \in C THEN [charge[c] EXCEPT !.status = s] ELSE charge[c]
  BY DEF SetStatus
<1>2. \A c \in C : charge[c] \in Row
  BY DEF Rows, Table
<1>3. \A c \in C : charge'[c] \in Row /\ Key(charge'[c]) = Key(charge[c])
  <2> TAKE c \in C
  <2>1. charge[c] \in Row /\ charge'[c] = [charge[c] EXCEPT !.status = s]
    BY <1>1, <1>2 DEF Rows
  <2>2. PICK row \in Row : row = charge[c]
    BY <2>1
  <2>3. charge'[c] = [row EXCEPT !.status = s]
    BY <2>1, <2>2
  <2> QED BY <2>2, <2>3, RowStatusSet
<1>4. DOMAIN charge' = Charges /\ charge' = [c \in Charges |-> charge'[c]]
  BY DEF SetStatus
<1>5. \A c \in Charges : /\ charge'[c] \in Row \cup {Absent}
                         /\ charge'[c] # Absent <=> charge[c] # Absent
                         /\ charge[c] # Absent => Key(charge'[c]) = Key(charge[c])
  BY <1>1, <1>2, <1>3, RowIsThere DEF Table
<1> QED BY <1>4, <1>5 DEF Table, Unique

\* Inserting rows leaves the old ones alone and puts each new one under one id.
LEMMA Inserted ==
  ASSUME NEW old \in Table, NEW rows, rows \subseteq Row, NEW new \in Insert(old, rows)
  PROVE  /\ new \in Table
         /\ \A c \in Charges : old[c] # Absent => new[c] = old[c]
         /\ \A c \in Charges : old[c] = Absent => new[c] \in rows \cup {Absent}
         /\ \A c, d \in Charges :
              c # d /\ old[c] = Absent /\ old[d] = Absent /\ new[c] # Absent =>
                new[c] # new[d]
<1> DEFINE free == {c \in Charges : old[c] = Absent}
<1>1. PICK id \in Injection(rows, free) :
        new = [c \in Charges |->
                IF c \in Range(id) THEN CHOOSE row \in rows : id[row] = c ELSE old[c]]
  BY DEF Insert
<1>2. id \in [rows -> free] /\ \A a, b \in rows : id[a] = id[b] => a = b
  BY <1>1 DEF Injection, IsInjective
<1>3. Range(id) = {id[row] : row \in rows}
  BY <1>2 DEF Range
<1>4. \A c \in Range(id) : c \in free /\ new[c] \in rows /\ id[new[c]] = c
  BY <1>1, <1>2, <1>3
<1>5. \A c \in Charges : c \notin Range(id) => new[c] = old[c]
  BY <1>1
<1>6. new \in Table
  BY <1>1, <1>4, <1>5 DEF Table
<1>7. ASSUME NEW c \in Charges, NEW d \in Charges, c # d, old[c] = Absent, old[d] = Absent,
             new[c] # Absent
      PROVE  new[c] # new[d]
  <2>1. c \in Range(id)
    BY <1>5, <1>7
  <2>2. CASE d \in Range(id)
    BY <2>1, <2>2, <1>4, <1>7
  <2>3. CASE d \notin Range(id)
    BY <2>3, <1>5, <1>7
  <2> QED BY <2>2, <2>3
<1> QED BY <1>4, <1>5, <1>6, <1>7

\* Rows whose keys are free and differ among themselves keep a table's keys unique.
LEMMA InsertedUnique ==
  ASSUME NEW old \in Table, Unique(old), NEW rows, rows \subseteq Row,
         \A a, b \in rows : Key(a) = Key(b) => a = b,
         \A row \in rows, c \in Charges : old[c] # Absent => Key(old[c]) # Key(row),
         NEW new \in Insert(old, rows)
  PROVE  Unique(new)
<1> SUFFICES ASSUME NEW c \in Charges, NEW d \in Charges, c # d,
                    new[c] # Absent, new[d] # Absent
             PROVE  Key(new[c]) # Key(new[d])
  BY DEF Unique
<1>1. CASE old[c] # Absent /\ old[d] # Absent
  BY <1>1, Inserted DEF Unique
<1>2. CASE old[c] = Absent /\ old[d] # Absent
  BY <1>2, Inserted
<1>3. CASE old[c] # Absent /\ old[d] = Absent
  BY <1>3, Inserted
<1>4. CASE old[c] = Absent /\ old[d] = Absent
  <2>1. new[c] \in rows /\ new[d] \in rows /\ new[c] # new[d]
    BY <1>4, Inserted
  <2> QED BY <2>1
<1> QED BY <1>1, <1>2, <1>3, <1>4

-----------------------------------------------------------------------------
(* The charges the generator makes *)

\* An instant falls into a month, counted from zero.
LEMMA MonthNat == ASSUME NEW t \in Nat PROVE MonthOf(t) \in Nat
<1>1. MonthLength \in Nat \ {0}
  BY BillingAssumption
<1> QED BY <1>1 DEF MonthOf

\* A billing day of a month is an instant of that month.
LEMMA DueDateNat == ASSUME NEW t \in Nat, NEW day \in BillingDays PROVE DueDate(t, day) \in Nat
<1>1. MonthLength \in Nat \ {0} /\ SafeDay \in Nat \ {0} /\ day \in Nat \ {0}
  BY BillingAssumption
<1>2. PICK m \in Nat : m = MonthOf(t)
  BY MonthNat
<1>3. m * MonthLength \in Nat
  BY <1>1, <1>2
<1> QED BY <1>1, <1>2, <1>3 DEF DueDate

\* A generated charge is a row, in the place of its student, type and month.
LEMMA GeneratedIsRow ==
  ASSUME NEW s \in Students, NEW type \in Generated, NEW t \in Nat, NEW due \in Nat,
         NEW sub \in Subscription
  PROVE  /\ GeneratedCharge(s, type, t, due, sub) \in Row
         /\ Key(GeneratedCharge(s, type, t, due, sub)) = <<s, type, MonthOf(t)>>
<1>1. sub.plan \in Plans /\ sub.price \in Nat
  BY BillingAssumption DEF Subscription
<1>2. type \in ChargeTypes
  BY BillingAssumption
<1> QED BY <1>1, <1>2, MonthNat DEF GeneratedCharge, Row, ChargeStatus, Key

\* The two charges of an enrolment are rows with different keys.
LEMMA EnrollmentRows ==
  ASSUME NEW s \in Students, NEW sub \in Subscription
  PROVE  /\ EnrollmentCharges(s, sub) \subseteq Row
         /\ \A a, b \in EnrollmentCharges(s, sub) : Key(a) = Key(b) => a = b
<1>1. sub.from \in Nat /\ sub.day \in BillingDays
  BY BillingAssumption DEF Subscription
<1> DEFINE fee == GeneratedCharge(s, "ENROLLMENT_FEE", sub.from, sub.from, sub)
           monthly == GeneratedCharge(s, "MONTHLY_FEE", sub.from, DueDate(sub.from, sub.day), sub)
<1>2. fee \in Row /\ Key(fee) = <<s, "ENROLLMENT_FEE", MonthOf(sub.from)>>
  BY <1>1, GeneratedIsRow DEF Generated
<1>3. monthly \in Row /\ Key(monthly) = <<s, "MONTHLY_FEE", MonthOf(sub.from)>>
  BY <1>1, DueDateNat, GeneratedIsRow DEF Generated
<1>4. EnrollmentCharges(s, sub) = {fee, monthly}
  BY DEF EnrollmentCharges
<1> HIDE DEF fee, monthly
<1> QED BY <1>2, <1>3, <1>4

\* The monthly charges of a run are rows, one for each student.
LEMMA MonthlyRows ==
  ASSUME TypeOK, NEW t \in Nat
  PROVE  /\ MonthlyCharges(t) \subseteq Row
         /\ \A a, b \in MonthlyCharges(t) : Key(a) = Key(b) => a = b
<1> DEFINE new(s) == GeneratedCharge(s, "MONTHLY_FEE", t, DueDate(t, subscription[s].day),
                                     subscription[s])
<1>1. MonthlyCharges(t) = {new(s) : s \in Eligible(t)}
  BY DEF MonthlyCharges
<1>2. ASSUME NEW s \in Eligible(t)
      PROVE  s \in Students /\ new(s) \in Row /\ Key(new(s)) = <<s, "MONTHLY_FEE", MonthOf(t)>>
  <2>1. s \in Students /\ subscription[s].plan \in Plans
    BY DEF Eligible, TypeOK
  <2>2. subscription[s] \in Subscription
    BY <2>1, BillingAssumption DEF TypeOK, NoPlan
  <2>3. PICK sub \in Subscription : sub = subscription[s]
    BY <2>2
  <2>4. sub.day \in BillingDays
    BY <2>3 DEF Subscription
  <2> QED BY <2>1, <2>3, <2>4, DueDateNat, GeneratedIsRow DEF Generated
<1> HIDE DEF new
<1>3. MonthlyCharges(t) \subseteq Row
  BY <1>1, <1>2
<1>4. ASSUME NEW a \in MonthlyCharges(t), NEW b \in MonthlyCharges(t), Key(a) = Key(b)
      PROVE  a = b
  <2>1. PICK s \in Eligible(t) : a = new(s)
    BY <1>1
  <2>2. PICK u \in Eligible(t) : b = new(u)
    BY <1>1
  <2>3. s = u
    BY <2>1, <2>2, <1>2, <1>4
  <2> QED BY <2>1, <2>2, <2>3
<1> QED BY <1>3, <1>4

-----------------------------------------------------------------------------
(* Rows of Charge are never removed and never share a key *)

\* What every step does to the table of charges.
TableKept ==
  /\ charge' \in Table
  /\ Unique(charge) => Unique(charge')
  /\ \A c \in Charges : charge[c] # Absent => charge'[c] # Absent

\* Inserting the missing ones of some rows into the table, in which the status of
\* old rows may have changed.
LEMMA MissingInserted ==
  ASSUME charge \in Table, NEW rows, rows \subseteq Row,
         \A a, b \in rows : Key(a) = Key(b) => a = b,
         NEW old \in Table,
         \A c \in Charges : /\ old[c] # Absent <=> charge[c] # Absent
                            /\ charge[c] # Absent => Key(old[c]) = Key(charge[c]),
         charge' \in Insert(old, Missing(rows))
  PROVE  TableKept
<1> DEFINE new == Missing(rows)
<1>1. new \subseteq Row /\ \A a, b \in new : Key(a) = Key(b) => a = b
  BY DEF Missing
<1>2. \A row \in new, c \in Charges : old[c] # Absent => Key(old[c]) # Key(row)
  BY DEF Missing, Taken, Rows
<1>3. Unique(charge) => Unique(old)
  BY DEF Unique
<1> HIDE DEF new
<1>4. charge' \in Insert(old, new)
  BY DEF new
<1>5. charge' \in Table /\ \A c \in Charges : old[c] # Absent => charge'[c] = old[c]
  BY <1>1, <1>4, Inserted
<1>6. Unique(old) => Unique(charge')
  BY <1>1, <1>2, <1>4, InsertedUnique
<1> QED BY <1>3, <1>5, <1>6 DEF TableKept

\* A request that will write, and every payment, names a charge that exists.
Referring ==
  /\ \A r \in Requests :
       req[r].op \in {"update", "remove"} => charge[req[r].charge] # Absent
  /\ \A p \in Payments : payment[p].charge # None => charge[payment[p].charge] # Absent

\* A step that leaves charges alone keeps the table.
LEMMA SameTable == ASSUME charge \in Table, UNCHANGED charge PROVE TableKept
  BY DEF TableKept, Unique

\* Every step keeps the table of charges.
LEMMA TableStep == ASSUME TypeOK, Referring, Next PROVE TableKept
<1> USE DEF Instants
<1>0. charge \in Table /\ Horizon \in Nat
  BY BillingAssumption DEF TypeOK, Table
<1>1. ASSUME NEW s \in Students, NEW sub \in Subscription, ChangePlan(s, sub) PROVE TableKept
  <2>1. PICK C : C = IF subscription[s] # NoPlan /\ sub # [subscription[s] EXCEPT !.from = sub.from]
                     THEN Future(s, subscription[s].plan, sub.from) ELSE {}
    OBVIOUS
  <2>2. SetStatus(C, "CANCELLED")
    BY <1>1, <2>1 DEF ChangePlan
  <2>3. C \subseteq Rows
    BY <2>1 DEF Future
  <2> QED BY <1>0, <2>2, <2>3, StatusSet DEF TableKept, ChargeStatus
<1>2. ASSUME NEW s \in Students, NEW p \in Plans, EndPlan(s, p) PROVE TableKept
  <2>1. PICK C : C = Future(s, p, now)
    OBVIOUS
  <2>2. C \subseteq Rows /\ SetStatus(C, "CANCELLED")
    BY <1>2, <2>1 DEF EndPlan, Future
  <2> QED BY <1>0, <2>2, StatusSet DEF TableKept, ChargeStatus
<1>3. ASSUME NEW c \in Charges, NEW row \in NewRows, CreateCharge(c, row) PROVE TableKept
  <2>1. row \in Row /\ row # Absent
    BY BillingAssumption, RowIsThere
  <2>2. charge' = [charge EXCEPT ![c] = row] /\ charge[c] = Absent
        /\ \A d \in Charges : charge[d] # Absent => Key(charge[d]) # Key(row)
    BY <1>3 DEF CreateCharge, Taken, Rows
  <2>3. \A d \in Charges : charge'[d] = IF d = c THEN row ELSE charge[d]
    BY <1>0, <2>2 DEF Table
  <2>4. charge' \in Table
    BY <1>0, <2>1, <2>2 DEF Table
  <2>5. Unique(charge) => Unique(charge')
    BY <2>2, <2>3 DEF Unique
  <2> QED BY <2>1, <2>3, <2>4, <2>5 DEF TableKept
<1>4. ASSUME NEW p \in Payments, NEW c \in Rows, NEW a \in 1..charge[c].final,
             RegisterPayment(p, c, a)
      PROVE  TableKept
  <2>1. PICK C : C = {c}
    OBVIOUS
  <2>2. PICK st \in ChargeStatus : st = IF a >= Balance(c) THEN "PAID" ELSE "PARTIALLY_PAID"
    BY DEF ChargeStatus
  <2>3. C \subseteq Rows /\ SetStatus(C, st)
    BY <1>4, <2>1, <2>2 DEF RegisterPayment
  <2> QED BY <1>0, <2>3, StatusSet DEF TableKept
<1>5. ASSUME NEW p \in Payments, RefundPayment(p) PROVE TableKept
  <2>1. PICK C : C = {payment[p].charge}
    OBVIOUS
  <2>2. PICK st : st = AfterRefund(payment[p].charge, TotalPaid(payment[p].charge) - payment[p].amount)
    OBVIOUS
  <2>3. st \in ChargeStatus
    BY <2>2 DEF AfterRefund, ChargeStatus
  <2>4. C \subseteq Rows /\ SetStatus(C, st)
    BY <1>5, <2>1, <2>2 DEF RefundPayment, TypeOK, Referring, Rows
  <2> QED BY <1>0, <2>3, <2>4, StatusSet DEF TableKept
<1>6. ASSUME NEW r \in Requests, NEW status \in StudentStatus, EnrolCommit(r, status)
      PROVE  TableKept
  <2>1. req[r] \in EnrolRequest
    BY <1>6 DEF TypeOK, EnrolCommit, Idle, UpdateRequest, RemoveRequest
  <2>2. PICK s \in Students, sub \in Subscription : s = req[r].student /\ sub = req[r].sub
    BY <2>1 DEF EnrolRequest
  <2>3. PICK rows : rows = IF status = "ACTIVE" /\ sub.plan \in offered
                           THEN EnrollmentCharges(s, sub) ELSE {}
    OBVIOUS
  <2>4. rows \subseteq Row /\ \A a, b \in rows : Key(a) = Key(b) => a = b
    BY <2>3, EnrollmentRows
  <2>5. Missing({}) = {}
    BY DEF Missing
  <2>6. charge' \in Insert(charge, Missing(rows))
    BY <1>6, <2>2, <2>3, <2>5 DEF EnrolCommit
  <2> QED BY <1>0, <2>4, <2>6, MissingInserted
<1>7. ASSUME NEW r \in Requests, UpdateWrite(r) PROVE TableKept
  <2>1. req[r] \in UpdateRequest /\ charge[req[r].charge] # Absent
    BY <1>7 DEF TypeOK, Referring, UpdateWrite, Idle, EnrolRequest, RemoveRequest
  <2>2. PICK c \in Charges, patch \in Patches : c = req[r].charge /\ patch = req[r].patch
    BY <2>1 DEF UpdateRequest
  <2>3. PICK old \in Row : old = charge[c]
    BY <1>0, <2>1, <2>2 DEF Table
  <2>4. PICK row : row = [f \in DOMAIN old |-> IF f \in DOMAIN patch THEN patch[f] ELSE old[f]]
    OBVIOUS
  <2>5. row \in Row /\ row # Absent
    BY <2>4, RowPatched, RowIsThere
  <2>6. charge' = [charge EXCEPT ![c] = row] /\ Key(row) \notin Taken \ {Key(charge[c])}
    BY <1>7, <2>2, <2>3, <2>4 DEF UpdateWrite
  <2>7. \A d \in Charges : charge'[d] = IF d = c THEN row ELSE charge[d]
    BY <1>0, <2>6 DEF Table
  <2>8. charge' \in Table
    BY <1>0, <2>5, <2>6 DEF Table
  <2>9. ASSUME Unique(charge), NEW d \in Charges, d # c, charge[d] # Absent
        PROVE  Key(charge[d]) # Key(row)
    <3>1. Key(charge[d]) \in Taken /\ Key(charge[d]) # Key(charge[c])
      BY <2>1, <2>2, <2>9 DEF Unique, Taken, Rows
    <3> QED BY <2>6, <3>1
  <2>10. Unique(charge) => Unique(charge')
    BY <2>7, <2>9 DEF Unique
  <2> QED BY <2>5, <2>7, <2>8, <2>10 DEF TableKept
<1>8. ASSUME NEW r \in Requests, RemoveWrite(r) PROVE TableKept
  <2>1. req[r] \in RemoveRequest /\ charge[req[r].charge] # Absent
    BY <1>8 DEF TypeOK, Referring, RemoveWrite, Idle, EnrolRequest, UpdateRequest
  <2>2. PICK C : C = {req[r].charge}
    OBVIOUS
  <2>3. C \subseteq Rows /\ SetStatus(C, "CANCELLED")
    BY <1>8, <2>1, <2>2 DEF RemoveWrite, RemoveRequest, Rows
  <2> QED BY <1>0, <2>3, StatusSet DEF TableKept, ChargeStatus
<1>9. ASSUME CycleCommit PROVE TableKept
  <2>1. PICK t \in Nat : t = cycle
    BY <1>0, <1>9 DEF CycleCommit, TypeOK
  <2>2. PICK old : old = [c \in Charges |->
          IF c \in Late(t) THEN [charge[c] EXCEPT !.status = "OVERDUE"] ELSE charge[c]]
    OBVIOUS
  <2>3. PICK rows : rows = MonthlyCharges(t)
    OBVIOUS
  <2>4. rows \subseteq Row /\ \A a, b \in rows : Key(a) = Key(b) => a = b
    BY <2>3, MonthlyRows
  <2>5. charge' \in Insert(old, Missing(rows))
    BY <1>9, <2>1, <2>2, <2>3 DEF CycleCommit
  <2>6. ASSUME NEW c \in Charges
        PROVE  /\ old[c] \in Row \cup {Absent}
               /\ old[c] # Absent <=> charge[c] # Absent
               /\ charge[c] # Absent => Key(old[c]) = Key(charge[c])
    <3>1. CASE c \in Late(t)
      <4>1. PICK row \in Row : row = charge[c]
        BY <1>0, <3>1 DEF Late, Rows, Table
      <4>2. old[c] = [row EXCEPT !.status = "OVERDUE"]
        BY <2>2, <3>1, <4>1
      <4>3. PICK new : new = [row EXCEPT !.status = "OVERDUE"]
        OBVIOUS
      <4>4. new \in Row /\ Key(new) = Key(row)
        BY <4>3, RowStatusSet DEF ChargeStatus
      <4>5. new # Absent /\ row # Absent
        BY <4>4, RowIsThere
      <4> QED BY <4>1, <4>2, <4>3, <4>4, <4>5
    <3>2. CASE c \notin Late(t)
      BY <1>0, <2>2, <3>2 DEF Table
    <3> QED BY <3>1, <3>2
  <2>7. old \in Table
    BY <2>2, <2>6 DEF Table
  <2> QED BY <1>0, <2>4, <2>5, <2>6, <2>7, MissingInserted
<1>10. ASSUME UNCHANGED charge PROVE TableKept
  BY <1>0, <1>10, SameTable
<1>11. ASSUME NEW r \in Requests, Begin(r) PROVE TableKept
  BY <1>11, <1>10 DEF Begin, Enrol, UpdateCharge, RemoveCharge, money
<1>12. ASSUME NEW r \in Requests, Continue(r) PROVE TableKept
  BY <1>12, <1>6, <1>7, <1>8, <1>10 DEF Continue, AbortRequest, money
<1>13. ASSUME Manage PROVE TableKept
  BY <1>13, <1>1, <1>2, <1>10 DEF Manage, SetStudentStatus, SetPlanOffered
<1>14. ASSUME Collect PROVE TableKept
  BY <1>14, <1>3, <1>4, <1>5 DEF Collect
<1>15. ASSUME Cycle \/ Tick PROVE TableKept
  BY <1>15, <1>9, <1>10 DEF Cycle, CycleStart, CycleFail, Tick, money
<1> QED BY <1>11, <1>12, <1>13, <1>14, <1>15 DEF Next

-----------------------------------------------------------------------------
(* Types and references *)

\* An EnrolRequest, and what it is about.
LEMMA EnrolmentRead ==
  ASSUME TypeOK, NEW r \in Requests, req[r].op = "enrol"
  PROVE  req[r].student \in Students /\ req[r].sub \in Subscription
<1>1. req[r] \in EnrolRequest
  BY DEF TypeOK, Idle, UpdateRequest, RemoveRequest
<1> QED BY <1>1 DEF EnrolRequest

\* Every step keeps the types.
LEMMA TypeStep == ASSUME TypeOK, Referring, [Next]_vars PROVE TypeOK'
<1>1. charge' \in Table
  BY TableStep DEF TableKept, vars, TypeOK, Table
<1>2. ASSUME NEW r \in Requests, NEW x,
             x \in {Idle} \cup EnrolRequest \cup UpdateRequest \cup RemoveRequest,
             req' = [req EXCEPT ![r] = x]
      PROVE  req' \in [Requests -> {Idle} \cup EnrolRequest \cup UpdateRequest \cup RemoveRequest]
  BY <1>2 DEF TypeOK
<1>3. CASE Manage
  <2>1. ASSUME NEW s \in Students, NEW status \in StudentStatus, SetStudentStatus(s, status)
        PROVE  TypeOK'
    BY <1>1, <2>1 DEF TypeOK, Table, SetStudentStatus
  <2>2. ASSUME NEW p \in Plans, NEW active \in BOOLEAN, SetPlanOffered(p, active)
        PROVE  TypeOK'
    BY <1>1, <2>2 DEF TypeOK, Table, SetPlanOffered
  <2>3. ASSUME NEW s \in Students, NEW sub \in Subscription, ChangePlan(s, sub)
        PROVE  TypeOK'
    <3>1. PICK new : new = IF subscription[s].plan = sub.plan
                           THEN [sub EXCEPT !.from = subscription[s].from] ELSE sub
      OBVIOUS
    <3>2. ASSUME subscription[s].plan = sub.plan PROVE new \in Subscription
      <4>1. subscription[s] \in Subscription
        BY <3>2, BillingAssumption DEF TypeOK, Subscription, NoPlan
      <4>2. PICK from \in Starts : from = subscription[s].from
        BY <4>1 DEF Subscription
      <4>3. new = [sub EXCEPT !.from = from]
        BY <3>1, <3>2, <4>2
      <4> QED BY <4>3 DEF Subscription
    <3>3. new \in Subscription
      BY <3>1, <3>2
    <3>4. subscription' = [subscription EXCEPT ![s] = new]
      BY <2>3, <3>1 DEF ChangePlan
    <3>5. subscription' \in [Students -> Subscription \cup {NoPlan}]
      BY <3>3, <3>4 DEF TypeOK
    <3>6. subscription[s].plan \in Plans \cup {None}
      BY DEF TypeOK, Subscription, NoPlan
    <3>7. finished' \subseteq Students \X Plans
      BY <2>3, <3>6 DEF TypeOK, ChangePlan
    <3> QED BY <1>1, <2>3, <3>5, <3>7 DEF TypeOK, Table, ChangePlan
  <2>4. ASSUME NEW s \in Students, NEW p \in Plans, EndPlan(s, p) PROVE TypeOK'
    <3>1. subscription' \in [Students -> Subscription \cup {NoPlan}]
      BY <2>4 DEF TypeOK, EndPlan
    <3> QED BY <1>1, <2>4, <3>1 DEF TypeOK, Table, EndPlan
  <2> QED BY <1>3, <2>1, <2>2, <2>3, <2>4 DEF Manage
<1>4. CASE Collect
  <2>1. ASSUME NEW c \in Charges, NEW row \in NewRows, CreateCharge(c, row) PROVE TypeOK'
    BY <1>1, <2>1 DEF TypeOK, Table, CreateCharge, people
  <2>2. ASSUME NEW p \in Payments, NEW c \in Rows, NEW a \in 1..charge[c].final,
               RegisterPayment(p, c, a)
        PROVE  TypeOK'
    <3>1. c \in Charges /\ a \in Nat
      BY DEF Rows, TypeOK, Row
    <3>2. payment' \in [Payments -> [charge : Charges \cup {None}, amount : Nat, refunded : BOOLEAN]]
      BY <2>2, <3>1 DEF TypeOK, RegisterPayment
    <3> QED BY <1>1, <2>2, <3>2 DEF TypeOK, Table, RegisterPayment, people
  <2>3. ASSUME NEW p \in Payments, RefundPayment(p) PROVE TypeOK'
    <3>1. PICK w : w = [payment[p] EXCEPT !.refunded = TRUE]
      OBVIOUS
    <3>2. w \in [charge : Charges \cup {None}, amount : Nat, refunded : BOOLEAN]
      BY <3>1 DEF TypeOK
    <3>3. payment' = [payment EXCEPT ![p] = w]
      BY <2>3, <3>1 DEF RefundPayment
    <3>4. payment' \in [Payments -> [charge : Charges \cup {None}, amount : Nat, refunded : BOOLEAN]]
      BY <3>2, <3>3 DEF TypeOK
    <3> QED BY <1>1, <2>3, <3>4 DEF TypeOK, Table, RefundPayment, people
  <2> QED BY <1>4, <2>1, <2>2, <2>3 DEF Collect
<1>5. CASE Cycle \/ Tick
  <2>1. Horizon \in Nat
    BY BillingAssumption
  <2> QED BY <1>1, <1>5, <2>1
        DEF TypeOK, Table, Cycle, CycleStart, CycleCommit, CycleFail, Tick, people, money, Instants
<1>6. CASE \E r \in Requests : Begin(r)
  <2>1. ASSUME NEW r \in Requests, NEW s \in Students, NEW sub \in Subscription, Enrol(r, s, sub)
        PROVE  TypeOK'
    <3>1. [op |-> "enrol", student |-> s, sub |-> sub, new |-> student[s] = "ABSENT"] \in EnrolRequest
      BY DEF EnrolRequest
    <3> QED BY <1>1, <1>2, <2>1, <3>1 DEF TypeOK, Table, Enrol, people, money
  <2>2. ASSUME NEW r \in Requests, NEW c \in Charges, NEW patch \in Patches,
               UpdateCharge(r, c, patch)
        PROVE  TypeOK'
    <3>1. [op |-> "update", charge |-> c, patch |-> patch] \in UpdateRequest
      BY DEF UpdateRequest
    <3> QED BY <1>1, <1>2, <2>2, <3>1 DEF TypeOK, Table, UpdateCharge, people, money
  <2>3. ASSUME NEW r \in Requests, NEW c \in Charges, RemoveCharge(r, c) PROVE TypeOK'
    <3>1. [op |-> "remove", charge |-> c] \in RemoveRequest
      BY DEF RemoveRequest
    <3> QED BY <1>1, <1>2, <2>3, <3>1 DEF TypeOK, Table, RemoveCharge, people, money
  <2> QED BY <1>6, <2>1, <2>2, <2>3 DEF Begin
<1>7. CASE \E r \in Requests : Continue(r)
  <2>1. ASSUME NEW r \in Requests, NEW status \in StudentStatus, EnrolCommit(r, status)
        PROVE  TypeOK'
    <3>1. req[r].student \in Students /\ req[r].sub \in Subscription
      BY <2>1, EnrolmentRead DEF EnrolCommit
    <3>2. /\ student' \in [Students -> StudentStatus \cup {"ABSENT"}]
          /\ subscription' \in [Students -> Subscription \cup {NoPlan}]
      BY <2>1, <3>1 DEF TypeOK, EnrolCommit
    <3> QED BY <1>1, <1>2, <2>1, <3>2 DEF TypeOK, Table, EnrolCommit
  <2>2. ASSUME NEW r \in Requests, UpdateWrite(r) \/ RemoveWrite(r) \/ AbortRequest(r)
        PROVE  TypeOK'
    BY <1>1, <1>2, <2>2 DEF TypeOK, Table, UpdateWrite, RemoveWrite, AbortRequest, people, money
  <2> QED BY <1>7, <2>1, <2>2 DEF Continue
<1>8. CASE UNCHANGED vars
  BY <1>8 DEF TypeOK, vars
<1> QED BY <1>3, <1>4, <1>5, <1>6, <1>7, <1>8 DEF Next

\* Charges stay, so what named one goes on naming one.
LEMMA ReferringStep == ASSUME TypeOK, Referring, [Next]_vars PROVE Referring'
<1>1. \A c \in Charges : charge[c] # Absent => charge'[c] # Absent
  BY TableStep DEF TableKept, vars
<1>2. ASSUME NEW p \in Payments, payment'[p].charge # None
      PROVE  charge'[payment'[p].charge] # Absent
  <2>1. CASE payment'[p].charge = payment[p].charge
    <3>1. payment[p].charge \in Charges /\ charge[payment[p].charge] # Absent
      BY <1>2, <2>1 DEF TypeOK, Referring
    <3> QED BY <1>1, <2>1, <3>1
  <2>2. CASE payment'[p].charge # payment[p].charge
    <3>1. ASSUME NEW q \in Payments, NEW c \in Rows, NEW a \in 1..charge[c].final,
                 RegisterPayment(q, c, a)
          PROVE  payment'[p].charge \in Rows
      BY <2>2, <3>1 DEF RegisterPayment, TypeOK
    <3>2. ASSUME NEW q \in Payments, RefundPayment(q) PROVE FALSE
      <4>1. PICK w : w = [payment[q] EXCEPT !.refunded = TRUE]
        OBVIOUS
      <4>2. w.charge = payment[q].charge
        BY <4>1 DEF TypeOK
      <4>3. payment' = [payment EXCEPT ![q] = w]
        BY <3>2, <4>1 DEF RefundPayment
      <4> QED BY <2>2, <4>2, <4>3 DEF TypeOK
    <3>3. CASE UNCHANGED payment
      BY <2>2, <3>3
    <3>4. CASE Manage \/ Cycle \/ Tick
      BY <3>3, <3>4 DEF Manage, SetStudentStatus, SetPlanOffered, ChangePlan, EndPlan, Cycle,
         CycleStart, CycleCommit, CycleFail, Tick, money
    <3>5. CASE Collect
      <4>1. CASE \E c \in Charges, row \in NewRows : CreateCharge(c, row)
        BY <3>3, <4>1 DEF CreateCharge
      <4>2. payment'[p].charge \in Rows
        BY <3>1, <3>2, <3>5, <2>2, <4>1 DEF Collect, CreateCharge
      <4> QED BY <4>2, <1>1 DEF Rows
    <3>6. CASE \E r \in Requests : Begin(r) \/ Continue(r)
      BY <3>3, <3>6 DEF Begin, Continue, Enrol, UpdateCharge, RemoveCharge, EnrolCommit, UpdateWrite,
         RemoveWrite, AbortRequest, money
    <3> QED BY <2>2, <3>3, <3>4, <3>5, <3>6 DEF Next, vars
  <2> QED BY <2>1, <2>2
<1>3. ASSUME NEW r \in Requests, req'[r].op \in {"update", "remove"}
      PROVE  charge'[req'[r].charge] # Absent
  <2>1. CASE req'[r] = req[r]
    <3>1. req[r].charge \in Charges /\ charge[req[r].charge] # Absent
      BY <1>3, <2>1 DEF TypeOK, Referring, Idle, EnrolRequest, UpdateRequest, RemoveRequest
    <3> QED BY <1>1, <2>1, <3>1
  <2>2. CASE req'[r] # req[r]
    <3>1. ASSUME NEW q \in Requests, NEW s \in Students, NEW sub \in Subscription, Enrol(q, s, sub)
          PROVE  FALSE
      BY <1>3, <2>2, <3>1 DEF Enrol, TypeOK
    <3>2. ASSUME NEW q \in Requests, Continue(q) PROVE FALSE
      <4>1. req' = [req EXCEPT ![q] = Idle]
        BY <3>2 DEF Continue, EnrolCommit, UpdateWrite, RemoveWrite, AbortRequest
      <4> QED BY <1>3, <2>2, <4>1 DEF TypeOK, Idle
    <3>3. ASSUME NEW q \in Requests, NEW c \in Charges, NEW patch \in Patches,
                 UpdateCharge(q, c, patch)
          PROVE  req'[r].charge \in Rows
      BY <1>3, <2>2, <3>3 DEF UpdateCharge, TypeOK
    <3>4. ASSUME NEW q \in Requests, NEW c \in Charges, RemoveCharge(q, c)
          PROVE  req'[r].charge \in Rows
      BY <1>3, <2>2, <3>4 DEF RemoveCharge, TypeOK
    <3>5. CASE UNCHANGED req
      BY <2>2, <3>5
    <3>6. CASE Manage \/ Collect \/ Cycle \/ Tick
      BY <3>5, <3>6 DEF Manage, SetStudentStatus, SetPlanOffered, ChangePlan, EndPlan, Collect,
         CreateCharge, RegisterPayment, RefundPayment, Cycle, CycleStart, CycleCommit, CycleFail, Tick
    <3>7. CASE \E q \in Requests : Begin(q) \/ Continue(q)
      <4>1. req'[r].charge \in Rows
        BY <3>1, <3>2, <3>3, <3>4, <3>7 DEF Begin
      <4> QED BY <4>1, <1>1 DEF Rows
    <3> QED BY <3>5, <3>6, <3>7 DEF Next, vars
  <2> QED BY <2>1, <2>2
<1> QED BY <1>2, <1>3 DEF Referring

\* The empty tables are well typed and refer to nothing.
LEMMA TypeInit == Init => TypeOK /\ Referring
  BY BillingAssumption DEF Init, TypeOK, Referring, Idle, Instants

-----------------------------------------------------------------------------
(* Theorems *)

\* Charges, payments, subscriptions and what requests remember stay well typed: a
\* due date or an amount never falls below zero, whatever is edited meanwhile.
THEOREM TypeCorrect == Spec => []TypeOK
<1>1. TypeOK /\ Referring /\ [Next]_vars => (TypeOK /\ Referring)'
  BY TypeStep, ReferringStep
<1> QED BY TypeInit, <1>1, PTL DEF Spec

\* However enrolments, hand-made charges, edits and runs of the cycle interleave,
\* no student is billed twice for the same month and type.
THEOREM BilledOnce == Spec => []BilledAtMostOnce
<1>1. Init => TypeOK /\ Referring /\ Unique(charge)
  BY TypeInit DEF Init, Unique
<1>2. TypeOK /\ Referring /\ Unique(charge) /\ [Next]_vars =>
        (TypeOK /\ Referring /\ Unique(charge))'
  <2>1. ASSUME TypeOK, Referring, Unique(charge), [Next]_vars PROVE Unique(charge')
    BY <2>1, TableStep DEF TableKept, vars
  <2> QED BY <2>1, TypeStep, ReferringStep
<1>3. Unique(charge) => BilledAtMostOnce
  BY DEF Unique, BilledAtMostOnce, Rows
<1> QED BY <1>1, <1>2, <1>3, PTL DEF Spec
-----------------------------------------------------------------------------
(* The cycle is idempotent *)

\* Inserting rows puts every one of them into the table.
LEMMA InsertedAll ==
  ASSUME NEW old, NEW rows, NEW new \in Insert(old, rows), NEW row \in rows
  PROVE  \E c \in Charges : old[c] = Absent /\ new[c] = row
<1> DEFINE free == {c \in Charges : old[c] = Absent}
<1>1. PICK id \in Injection(rows, free) :
        new = [c \in Charges |->
                IF c \in Range(id) THEN CHOOSE x \in rows : id[x] = c ELSE old[c]]
  BY DEF Insert
<1>2. id \in [rows -> free] /\ \A a, b \in rows : id[a] = id[b] => a = b
  BY <1>1 DEF Injection, IsInjective
<1>3. id[row] \in free /\ id[row] \in Range(id)
  BY <1>2 DEF Range
<1>4. new[id[row]] = CHOOSE x \in rows : id[x] = id[row]
  BY <1>1, <1>3
<1>5. (CHOOSE x \in rows : id[x] = id[row]) = row
  BY <1>2
<1> QED BY <1>3, <1>4, <1>5

\* A run that commits leaves no old charge late and no one to bill.
LEMMA CycleCommitted ==
  ASSUME TypeOK, CycleCommit, NEW t \in Instants, cycle = t
  PROVE  Late(t)' \cap Rows = {} /\ Missing(MonthlyCharges(t))' = {}
<1> DEFINE overdue == [c \in Charges |->
             IF c \in Late(t) THEN [charge[c] EXCEPT !.status = "OVERDUE"] ELSE charge[c]]
<1>1. charge \in Table /\ t \in Nat
  BY BillingAssumption DEF TypeOK, Table, Instants
<1>2. charge' \in Insert(overdue, Missing(MonthlyCharges(t))) /\ UNCHANGED <<student, offered, subscription>>
  BY DEF CycleCommit, people
<1>3. ASSUME NEW c \in Charges
      PROVE  /\ overdue[c] \in Row \cup {Absent}
             /\ overdue[c] # Absent <=> charge[c] # Absent
             /\ charge[c] # Absent => Key(overdue[c]) = Key(charge[c])
             /\ charge[c] # Absent /\ overdue[c].status = "PENDING" => c \notin Late(t)
  <2>1. CASE c \in Late(t)
    <3>1. PICK row \in Row : row = charge[c]
      BY <1>1, <2>1 DEF Late, Rows, Table
    <3>2. overdue[c] = [row EXCEPT !.status = "OVERDUE"] /\ "OVERDUE" \in ChargeStatus
      BY <2>1, <3>1 DEF ChargeStatus
    <3> HIDE DEF overdue
    <3>3. overdue[c] \in Row /\ Key(overdue[c]) = Key(row) /\ overdue[c].status = "OVERDUE"
      BY <3>2, RowStatusSet
    <3> QED BY <3>1, <3>3, RowIsThere
  <2>2. CASE c \notin Late(t)
    BY <1>1, <2>2 DEF Table
  <2> QED BY <2>1, <2>2
<1>4. overdue \in Table
  BY <1>3 DEF Table
<1>5. \A c \in Charges : c \in Late(t) =>
        overdue[c].status # "PENDING" /\ overdue[c].due = charge[c].due
  <2> TAKE c \in Charges
  <2> SUFFICES ASSUME c \in Late(t)
               PROVE  overdue[c].status # "PENDING" /\ overdue[c].due = charge[c].due
    OBVIOUS
  <2>1. PICK row \in Row : row = charge[c]
    BY <1>1 DEF Late, Rows, Table
  <2> QED BY <2>1 DEF Row
<1>6. \A c \in Charges : c \notin Late(t) => overdue[c] = charge[c]
  OBVIOUS
<1> HIDE DEF overdue
<1>7. Missing(MonthlyCharges(t)) \subseteq Row
  BY <1>1, MonthlyRows DEF Missing
<1>8. \A c \in Charges : overdue[c] # Absent => charge'[c] = overdue[c]
  BY <1>2, <1>4, <1>7, Inserted
<1>9. ASSUME NEW c \in Rows, c \in Late(t)' PROVE FALSE
  <2>1. charge'[c].status = "PENDING" /\ charge'[c].due < t
    BY <1>9 DEF Late
  <2>2. charge'[c] = overdue[c] /\ c \in Charges /\ charge[c] # Absent
    BY <1>3, <1>8, <1>9 DEF Rows
  <2>3. c \notin Late(t)
    BY <1>5, <2>1, <2>2
  <2> QED BY <1>6, <2>1, <2>2, <2>3 DEF Late, Rows
<1>10. MonthlyCharges(t)' = MonthlyCharges(t)
  BY <1>2 DEF MonthlyCharges, Eligible
<1>11. ASSUME NEW row \in MonthlyCharges(t) PROVE Key(row) \in Taken'
  <2>1. CASE Key(row) \in Taken
    <3>1. PICK c \in Charges : charge[c] # Absent /\ Key(charge[c]) = Key(row)
      BY <2>1 DEF Taken, Rows
    <3>2. charge'[c] # Absent /\ Key(charge'[c]) = Key(row)
      BY <1>3, <1>8, <3>1
    <3> QED BY <3>2 DEF Taken, Rows
  <2>2. CASE Key(row) \notin Taken
    <3>1. row \in Missing(MonthlyCharges(t))
      BY <2>2 DEF Missing
    <3>2. PICK c \in Charges : charge'[c] = row
      BY <1>2, <3>1, InsertedAll
    <3>3. row # Absent
      BY <1>7, <3>1, RowIsThere
    <3> QED BY <3>2, <3>3 DEF Taken, Rows
  <2> QED BY <2>1, <2>2
<1>12. Missing(MonthlyCharges(t))' = {}
  BY <1>10, <1>11 DEF Missing
<1> QED BY <1>9, <1>12

\* Only a run that commits ends the cycle with a change of charges.
LEMMA OnlyCommits ==
  ASSUME TypeOK, [Next]_vars, cycle # None, cycle' = None, charge' # charge
  PROVE  CycleCommit
<1>1. CASE Manage
  BY <1>1 DEF Manage, SetStudentStatus, SetPlanOffered, ChangePlan, EndPlan
<1>2. CASE Collect
  BY <1>2 DEF Collect, CreateCharge, RegisterPayment, RefundPayment
<1>3. CASE Cycle
  BY <1>3 DEF Cycle, CycleStart, CycleFail, money
<1>4. CASE Tick
  BY <1>4 DEF Tick
<1>5. ASSUME NEW r \in Requests, Begin(r) \/ Continue(r) PROVE FALSE
  BY <1>5 DEF Begin, Enrol, UpdateCharge, RemoveCharge, Continue, EnrolCommit, UpdateWrite,
     RemoveWrite, AbortRequest
<1> QED BY <1>1, <1>2, <1>3, <1>4, <1>5 DEF Next, vars

\* Whatever else is in flight, a run that follows another at once finds nothing to
\* do among the charges there were.
THEOREM RunsAreIdempotent == Spec => CycleIdempotent
<1>1. ASSUME TypeOK, [Next]_vars, NEW t \in Instants, cycle = t, cycle' = None, charge' # charge
      PROVE  Late(t)' \cap Rows = {} /\ Missing(MonthlyCharges(t))' = {}
  <2>1. cycle # None
    BY <1>1, BillingAssumption
  <2> QED BY <1>1, <2>1, OnlyCommits, CycleCommitted
<1>2. TypeOK /\ [Next]_vars =>
        [\A t \in Instants :
           cycle = t /\ cycle' = None /\ charge' # charge =>
             Late(t)' \cap Rows = {} /\ Missing(MonthlyCharges(t))' = {}]_vars
  BY <1>1
<1> QED BY <1>2, TypeCorrect, PTL DEF Spec, CycleIdempotent

-----------------------------------------------------------------------------
(* Received money, when requests run one at a time *)

\* What payment p adds to the money of charge c.
Part(p, c) == IF payment[p].charge = c /\ ~ payment[p].refunded THEN payment[p].amount ELSE 0

\* The money of charge c shows in its status.
Shown(c) ==
  charge[c] # Absent /\ TotalPaid(c) > 0 =>
    /\ TotalPaid(c) <= charge[c].final
    /\ charge[c].status = IF TotalPaid(c) = charge[c].final THEN "PAID" ELSE "PARTIALLY_PAID"

\* The inductive invariant: every payment is of some amount, what an update or a
\* removal has read is still so, and the money of every charge shows.
Positive == \A p \in Payments : payment[p].charge # None => payment[p].amount >= 1
NoPaymentSince ==
  \A r \in Requests, p \in Payments :
    req[r].op \in {"update", "remove"} => payment[p].charge # req[r].charge
MoneyInv == Positive /\ NoPaymentSince /\ \A c \in Charges : Shown(c)

\* What was paid is a natural number.
LEMMA PaidNat ==
  ASSUME TypeOK, NEW c PROVE TotalPaid(c) \in Nat
<1> DEFINE f == [p \in Payments |-> Part(p, c)]
<1>1. f \in [Payments -> Nat]
  BY DEF Part, TypeOK
<1>2. IsFiniteSet(Payments)
  BY BillingAssumption
<1>3. TotalPaid(c) = SumFunctionOnSet(f, Payments)
  BY DEF TotalPaid, Part
<1> HIDE DEF f
<1> QED BY <1>1, <1>2, <1>3, SumNat

\* A step that changes one payment changes what was paid by that payment's part.
LEMMA PaidChange ==
  ASSUME TypeOK, TypeOK', NEW c, NEW p \in Payments,
         \A q \in Payments \ {p} : payment'[q] = payment[q]
  PROVE  /\ TotalPaid(c) \in Nat /\ TotalPaid(c)' \in Nat
         /\ Part(p, c) \in Nat /\ Part(p, c)' \in Nat
         /\ TotalPaid(c)' = TotalPaid(c) + Part(p, c)' - Part(p, c)
<1> DEFINE f == [q \in Payments |-> Part(q, c)]
           g == [q \in Payments |-> Part(q, c)']
<1>1. f \in [Payments -> Nat] /\ g \in [Payments -> Nat]
  BY DEF Part, TypeOK
<1>2. \A q \in Payments \ {p} : f[q] = g[q]
  BY DEF Part
<1>3. f[p] = Part(p, c) /\ g[p] = Part(p, c)'
  OBVIOUS
<1>4. IsFiniteSet(Payments)
  BY BillingAssumption
<1>5. TotalPaid(c) = SumFunctionOnSet(f, Payments) /\ TotalPaid(c)' = SumFunctionOnSet(g, Payments)
  BY DEF TotalPaid, Part
<1> HIDE DEF f, g
<1>6. f[p] \in Nat /\ g[p] \in Nat /\ f \in [Payments -> Int] /\ g \in [Payments -> Int]
  BY <1>1
<1>7. SumFunctionOnSet(g, Payments) = SumFunctionOnSet(f, Payments) + g[p] - f[p]
  BY <1>2, <1>4, <1>6, SumUpdate
<1>8. SumFunctionOnSet(f, Payments) \in Nat /\ SumFunctionOnSet(g, Payments) \in Nat
  BY <1>1, <1>4, SumNat
<1> QED BY <1>3, <1>5, <1>6, <1>7, <1>8

\* What was paid is at least each payment that was not refunded.
LEMMA PaidAtLeast ==
  ASSUME TypeOK, NEW c, NEW p \in Payments
  PROVE  TotalPaid(c) >= Part(p, c)
<1> DEFINE f == [q \in Payments |-> Part(q, c)]
           g == [f EXCEPT ![p] = 0]
<1>1. f \in [Payments -> Nat] /\ f[p] = Part(p, c)
  BY DEF Part, TypeOK
<1>2. TotalPaid(c) = SumFunctionOnSet(f, Payments)
  BY DEF TotalPaid, Part
<1>3. IsFiniteSet(Payments)
  BY BillingAssumption
<1> HIDE DEF f
<1>4. g \in [Payments -> Nat] /\ g[p] = 0 /\ \A q \in Payments \ {p} : f[q] = g[q]
  BY <1>1
<1> HIDE DEF g
<1>5. f \in [Payments -> Int] /\ g \in [Payments -> Int] /\ f[p] \in Nat
  BY <1>1, <1>4
<1>6. /\ SumFunctionOnSet(g, Payments) = SumFunctionOnSet(f, Payments) + g[p] - f[p]
      /\ SumFunctionOnSet(f, Payments) \in Int
  BY <1>3, <1>4, <1>5, SumUpdate
<1>7. SumFunctionOnSet(g, Payments) \in Nat
  BY <1>3, <1>4, SumNat
<1> QED BY <1>1, <1>2, <1>4, <1>5, <1>6, <1>7

\* A charge without payments holds no money.
LEMMA Unpaid ==
  ASSUME NEW c, \A p \in Payments : payment[p].charge # c
  PROVE  TotalPaid(c) = 0
<1> DEFINE f == [p \in Payments |-> Part(p, c)]
<1>1. f \in [Payments -> {0}]
  BY DEF Part
<1>2. IsFiniteSet(Payments)
  BY BillingAssumption
<1>3. TotalPaid(c) = SumFunctionOnSet(f, Payments)
  BY DEF TotalPaid, Part
<1> HIDE DEF f
<1> QED BY <1>1, <1>2, <1>3, SumZero

\* A step that touches no payment, and only charges without money, hides none.
OnlyUnpaid == UNCHANGED payment /\ \A c \in Charges : charge'[c] = charge[c] \/ TotalPaid(c) = 0

\* Then all money still shows.
LEMMA ShownKept ==
  ASSUME MoneyInv, OnlyUnpaid
  PROVE  (\A c \in Charges : Shown(c)') /\ Positive'
<1>1. ASSUME NEW c \in Charges PROVE Shown(c)'
  <2>1. TotalPaid(c)' = TotalPaid(c)
    BY DEF OnlyUnpaid, TotalPaid
  <2>2. Shown(c)
    BY DEF MoneyInv
  <2> QED BY <2>1, <2>2 DEF OnlyUnpaid, Shown
<1>2. Positive'
  BY DEF MoneyInv, OnlyUnpaid, Positive
<1> QED BY <1>1, <1>2

\* A charge that is still to be paid, or that is not there yet, holds no money.
LEMMA UnpaidStatus ==
  ASSUME TypeOK, Referring, MoneyInv, NEW c \in Charges,
         charge[c] = Absent \/ charge[c].status \notin {"PAID", "PARTIALLY_PAID"}
  PROVE  TotalPaid(c) = 0
<1>1. CASE charge[c] = Absent
  <2>1. \A p \in Payments : payment[p].charge # c
    BY <1>1, BillingAssumption DEF Referring
  <2> QED BY <2>1, Unpaid
<1>2. CASE charge[c] # Absent /\ charge[c].status \notin {"PAID", "PARTIALLY_PAID"}
  <2>1. Shown(c) /\ TotalPaid(c) \in Nat
    BY PaidNat DEF MoneyInv
  <2> QED BY <1>2, <2>1 DEF Shown
<1> QED BY <1>1, <1>2

\* Setting the status of charges without money hides none.
LEMMA StatusOfUnpaid ==
  ASSUME UNCHANGED payment, NEW C, NEW s, SetStatus(C, s),
         \A c \in Charges : c \in C => TotalPaid(c) = 0
  PROVE  OnlyUnpaid
  BY DEF SetStatus, OnlyUnpaid

\* Nor does inserting charges into a table in which they have changed.
LEMMA InsertedUnpaid ==
  ASSUME TypeOK, Referring, MoneyInv, UNCHANGED payment,
         NEW old \in Table, NEW rows, rows \subseteq Row, charge' \in Insert(old, rows),
         \A c \in Charges : old[c] = charge[c] \/ TotalPaid(c) = 0
  PROVE  OnlyUnpaid
<1>1. ASSUME NEW c \in Charges PROVE charge'[c] = charge[c] \/ TotalPaid(c) = 0
  <2>1. CASE old[c] # Absent
    <3>1. charge'[c] = old[c]
      BY <2>1, Inserted
    <3> QED BY <3>1
  <2>2. CASE old[c] = Absent /\ charge[c] # Absent
    BY <2>2
  <2>3. CASE charge[c] = Absent
    BY <2>3, UnpaidStatus
  <2> QED BY <2>1, <2>2, <2>3
<1> QED BY <1>1 DEF OnlyUnpaid

\* Payments and refunds apart, no step takes a charge with money out of its status.
LEMMA StepOfUnpaid ==
  ASSUME TypeOK, Referring, MoneyInv, Next
  PROVE  \/ OnlyUnpaid
         \/ \E p \in Payments, c \in Rows : \E a \in 1..charge[c].final : RegisterPayment(p, c, a)
         \/ \E p \in Payments : RefundPayment(p)
<1>a. charge \in Table
  BY DEF TypeOK, Table
<1>b. ASSUME NEW C, C \subseteq Charges, \A c \in C : charge[c].status = "PENDING", NEW c \in C
      PROVE  TotalPaid(c) = 0
  BY <1>b, UnpaidStatus
<1>1. ASSUME UNCHANGED money PROVE OnlyUnpaid
  BY <1>1 DEF money, OnlyUnpaid
<1>2. ASSUME NEW s \in Students, NEW sub \in Subscription, ChangePlan(s, sub) PROVE OnlyUnpaid
  <2>1. PICK C : C = IF subscription[s] # NoPlan /\ sub # [subscription[s] EXCEPT !.from = sub.from]
                     THEN Future(s, subscription[s].plan, sub.from) ELSE {}
    OBVIOUS
  <2>2. SetStatus(C, "CANCELLED") /\ UNCHANGED payment
    BY <1>2, <2>1 DEF ChangePlan
  <2>3. C \subseteq Charges /\ \A c \in C : charge[c].status = "PENDING"
    BY <2>1 DEF Future, Rows
  <2> QED BY <1>b, <2>2, <2>3, StatusOfUnpaid
<1>3. ASSUME NEW s \in Students, NEW p \in Plans, EndPlan(s, p) PROVE OnlyUnpaid
  <2>1. PICK C : C = Future(s, p, now)
    OBVIOUS
  <2>2. SetStatus(C, "CANCELLED") /\ UNCHANGED payment
    BY <1>3, <2>1 DEF EndPlan
  <2>3. C \subseteq Charges /\ \A c \in C : charge[c].status = "PENDING"
    BY <2>1 DEF Future, Rows
  <2> QED BY <1>b, <2>2, <2>3, StatusOfUnpaid
<1>4. CASE Manage
  BY <1>1, <1>2, <1>3, <1>4 DEF Manage, SetStudentStatus, SetPlanOffered, money
<1>5. ASSUME NEW c \in Charges, NEW row \in NewRows, CreateCharge(c, row) PROVE OnlyUnpaid
  <2>1. TotalPaid(c) = 0
    BY <1>5, UnpaidStatus DEF CreateCharge
  <2>2. \A d \in Charges \ {c} : charge'[d] = charge[d]
    BY <1>a, <1>5 DEF CreateCharge, Table
  <2> QED BY <1>5, <2>1, <2>2 DEF CreateCharge, OnlyUnpaid
<1>6. CASE CycleCommit
  <2> DEFINE overdue == [c \in Charges |->
               IF c \in Late(cycle) THEN [charge[c] EXCEPT !.status = "OVERDUE"] ELSE charge[c]]
  <2>1. charge' \in Insert(overdue, Missing(MonthlyCharges(cycle))) /\ UNCHANGED payment
    BY <1>6 DEF CycleCommit
  <2>2. ASSUME NEW c \in Charges
        PROVE  /\ overdue[c] \in Row \cup {Absent}
               /\ overdue[c] = charge[c] \/ TotalPaid(c) = 0
    <3>1. CASE c \in Late(cycle)
      <4>1. PICK row \in Row : row = charge[c]
        BY <1>a, <3>1 DEF Late, Rows, Table
      <4>2. overdue[c] = [row EXCEPT !.status = "OVERDUE"] /\ "OVERDUE" \in ChargeStatus
        BY <3>1, <4>1 DEF ChargeStatus
      <4>3. charge[c].status \notin {"PAID", "PARTIALLY_PAID"}
        BY <3>1 DEF Late
      <4> HIDE DEF overdue
      <4>4. TotalPaid(c) = 0
        BY <4>3, UnpaidStatus
      <4> QED BY <4>2, <4>4, RowStatusSet
    <3>2. CASE c \notin Late(cycle)
      BY <1>a, <3>2 DEF Table
    <3> QED BY <3>1, <3>2
  <2>3. overdue \in Table
    BY <2>2 DEF Table
  <2>4. cycle \in Nat
    BY <1>6, BillingAssumption DEF CycleCommit, TypeOK, Instants
  <2>5. Missing(MonthlyCharges(cycle)) \subseteq Row
    BY <2>4, MonthlyRows DEF Missing
  <2> HIDE DEF overdue
  <2> QED BY <2>1, <2>2, <2>3, <2>5, InsertedUnpaid
<1>7. CASE Cycle \/ Tick
  BY <1>1, <1>6, <1>7 DEF Cycle, CycleStart, CycleFail, Tick
<1>8. ASSUME NEW r \in Requests, Begin(r) PROVE OnlyUnpaid
  BY <1>1, <1>8 DEF Begin, Enrol, UpdateCharge, RemoveCharge
<1>9. ASSUME NEW r \in Requests, NEW status \in StudentStatus, EnrolCommit(r, status)
      PROVE  OnlyUnpaid
  <2>1. req[r].student \in Students /\ req[r].sub \in Subscription
    BY <1>9, EnrolmentRead DEF EnrolCommit
  <2>2. PICK s \in Students, sub \in Subscription : s = req[r].student /\ sub = req[r].sub
    BY <2>1
  <2>3. PICK rows : rows = IF status = "ACTIVE" /\ sub.plan \in offered
                           THEN Missing(EnrollmentCharges(s, sub)) ELSE {}
    OBVIOUS
  <2>4. rows \subseteq Row
    BY <2>3, EnrollmentRows DEF Missing
  <2>5. charge' \in Insert(charge, rows) /\ UNCHANGED payment
    BY <1>9, <2>2, <2>3 DEF EnrolCommit
  <2> QED BY <1>a, <2>4, <2>5, InsertedUnpaid
<1>c. ASSUME NEW r \in Requests, req[r].op \in {"update", "remove"}
      PROVE  TotalPaid(req[r].charge) = 0
  <2>1. \A p \in Payments : payment[p].charge # req[r].charge
    BY <1>c DEF MoneyInv, NoPaymentSince
  <2> QED BY <2>1, Unpaid
<1>10. ASSUME NEW r \in Requests, UpdateWrite(r) PROVE OnlyUnpaid
  <2>1. PICK c : c = req[r].charge
    OBVIOUS
  <2>2. TotalPaid(c) = 0 /\ UNCHANGED payment
    BY <1>10, <1>c, <2>1 DEF UpdateWrite
  <2>3. \A d \in Charges : d # c => charge'[d] = charge[d]
    BY <1>a, <1>10, <2>1 DEF UpdateWrite, Table
  <2> QED BY <2>2, <2>3 DEF OnlyUnpaid
<1>11. ASSUME NEW r \in Requests, RemoveWrite(r) PROVE OnlyUnpaid
  <2>1. PICK C : C = {req[r].charge}
    OBVIOUS
  <2>2. SetStatus(C, "CANCELLED") /\ UNCHANGED payment
    BY <1>11, <2>1 DEF RemoveWrite
  <2>3. \A c \in C : TotalPaid(c) = 0
    BY <1>11, <1>c, <2>1 DEF RemoveWrite
  <2> QED BY <2>2, <2>3, StatusOfUnpaid
<1>12. ASSUME NEW r \in Requests, Continue(r) PROVE OnlyUnpaid
  BY <1>1, <1>9, <1>10, <1>11, <1>12 DEF Continue, AbortRequest
<1> QED BY <1>4, <1>5, <1>7, <1>8, <1>12 DEF Next, Collect

\* A payment is at most what is left to pay, and its charge's status says so.
LEMMA MoneyRegistered ==
  ASSUME TypeOK, TypeOK', MoneyInv, NEW p \in Payments, NEW c \in Rows, NEW a \in 1..charge[c].final,
         RegisterPayment(p, c, a)
  PROVE  (\A d \in Charges : Shown(d)') /\ Positive'
<1>a. charge \in [Charges -> Row \cup {Absent}] /\ c \in Charges /\ charge[c] \in Row
  BY DEF TypeOK, Rows
<1>1. /\ payment[p].charge = None /\ a \in Nat /\ a >= 1 /\ a <= Balance(c)
      /\ payment'[p] = [charge |-> c, amount |-> a, refunded |-> FALSE]
      /\ \A q \in Payments \ {p} : payment'[q] = payment[q]
  BY <1>a DEF RegisterPayment, TypeOK, Row
<1>2. PICK row \in Row : row = charge[c]
  BY <1>a
<1>3. /\ charge'[c] = [row EXCEPT !.status = IF a >= Balance(c) THEN "PAID" ELSE "PARTIALLY_PAID"]
      /\ \A d \in Charges \ {c} : charge'[d] = charge[d]
  BY <1>a, <1>2 DEF RegisterPayment, SetStatus
<1>4. row.final \in Nat /\ charge'[c].final = row.final
      /\ charge'[c].status = IF a >= Balance(c) THEN "PAID" ELSE "PARTIALLY_PAID"
  BY <1>2, <1>3 DEF Row
<1>5. None \notin Charges
  BY BillingAssumption
<1>6. \A d \in Charges : Part(p, d) = 0 /\ Part(p, d)' = IF d = c THEN a ELSE 0
  BY <1>1, <1>5 DEF Part
<1>7. \A d \in Charges : /\ TotalPaid(d) \in Nat
                         /\ TotalPaid(d)' = TotalPaid(d) + Part(p, d)' - Part(p, d)
  BY <1>1, PaidChange
<1>8. /\ TotalPaid(c)' = TotalPaid(c) + a
      /\ \A d \in Charges \ {c} : TotalPaid(d)' = TotalPaid(d)
  BY <1>a, <1>1, <1>6, <1>7
<1>9. Balance(c) = row.final - TotalPaid(c)
  BY <1>2 DEF Balance
<1>10. Shown(c)'
  <2>1. TotalPaid(c) \in Nat
    BY <1>a, <1>7
  <2>2. TotalPaid(c)' <= charge'[c].final
    BY <1>1, <1>4, <1>8, <1>9, <2>1
  <2>3. a >= Balance(c) <=> TotalPaid(c)' = charge'[c].final
    BY <1>1, <1>4, <1>8, <1>9, <2>1
  <2> QED BY <1>4, <2>2, <2>3 DEF Shown
<1>11. ASSUME NEW d \in Charges \ {c} PROVE Shown(d)'
  BY <1>3, <1>8 DEF MoneyInv, Shown
<1>12. Positive'
  BY <1>1 DEF MoneyInv, Positive
<1> QED BY <1>10, <1>11, <1>12

\* A refund leaves the charge with what the other payments have paid.
LEMMA MoneyRefunded ==
  ASSUME TypeOK, TypeOK', Referring, MoneyInv, NEW p \in Payments, RefundPayment(p)
  PROVE  (\A d \in Charges : Shown(d)') /\ Positive'
<1>1. PICK c \in Charges : c = payment[p].charge
  BY DEF RefundPayment, TypeOK
<1>a. charge \in [Charges -> Row \cup {Absent}] /\ charge[c] \in Row
      /\ payment \in [Payments -> [charge : Charges \cup {None}, amount : Nat, refunded : BOOLEAN]]
  BY <1>1, BillingAssumption DEF TypeOK, Referring
<1>b. PICK m \in Nat : m = payment[p].amount
  BY <1>a
<1>2. m >= 1 /\ ~ payment[p].refunded
  BY <1>1, <1>b, BillingAssumption DEF RefundPayment, MoneyInv, Positive
<1>3. PICK w : w = [payment[p] EXCEPT !.refunded = TRUE]
  OBVIOUS
<1>4. w.charge = c /\ w.refunded /\ w.amount = m
  BY <1>a, <1>b, <1>1, <1>3
<1>5. payment' = [payment EXCEPT ![p] = w]
  BY <1>3 DEF RefundPayment
<1>6. payment'[p] = w /\ \A q \in Payments \ {p} : payment'[q] = payment[q]
  BY <1>a, <1>5
<1>7. PICK row \in Row : row = charge[c]
  BY <1>a
<1>8. PICK st : st = AfterRefund(c, TotalPaid(c) - m)
  OBVIOUS
<1>9. charge'[c] = [row EXCEPT !.status = st] /\ \A d \in Charges \ {c} : charge'[d] = charge[d]
  BY <1>a, <1>b, <1>1, <1>7, <1>8 DEF RefundPayment, SetStatus
<1>10. row.final \in Nat /\ charge'[c].final = row.final /\ charge'[c].status = st
  BY <1>7, <1>9 DEF Row
<1>11. /\ \A d \in Charges : Part(p, d)' = 0
       /\ \A d \in Charges \ {c} : Part(p, d) = 0
       /\ Part(p, c) = m
  BY <1>1, <1>b, <1>2, <1>4, <1>6 DEF Part
<1>12. \A d \in Charges : /\ TotalPaid(d) \in Nat /\ TotalPaid(d)' \in Nat
                          /\ TotalPaid(d)' = TotalPaid(d) + Part(p, d)' - Part(p, d)
  BY <1>6, PaidChange
<1>13. TotalPaid(c)' = TotalPaid(c) - m /\ \A d \in Charges \ {c} : TotalPaid(d)' = TotalPaid(d)
  BY <1>11, <1>12
<1>14. Shown(c)'
  <2>1. TotalPaid(c) \in Nat /\ TotalPaid(c)' \in Nat
    BY <1>12
  <2>2. TotalPaid(c) <= row.final
    BY <1>2, <1>13, <1>a, <1>7, <2>1, RowIsThere DEF MoneyInv, Shown
  <2>3. TotalPaid(c)' < charge'[c].final
    BY <1>2, <1>10, <1>13, <2>1, <2>2
  <2>4. TotalPaid(c)' > 0 => st = "PARTIALLY_PAID"
    BY <1>7, <1>8, <1>10, <1>13, <2>1, <2>3 DEF AfterRefund
  <2> QED BY <1>10, <2>1, <2>3, <2>4 DEF Shown
<1>15. ASSUME NEW d \in Charges \ {c} PROVE Shown(d)'
  BY <1>9, <1>13 DEF MoneyInv, Shown
<1>16. Positive'
  BY <1>b, <1>2, <1>4, <1>6 DEF MoneyInv, Positive
<1> QED BY <1>14, <1>15, <1>16

\* An update or a removal that is in flight after a step began with it, and has seen
\* that its charge has no payment.
LEMMA NoPaymentStep ==
  ASSUME TypeOK, Next, OneAtATime
  PROVE  NoPaymentSince'
<1> SUFFICES ASSUME NEW r \in Requests, req'[r].op \in {"update", "remove"}
             PROVE  \A p \in Payments : payment'[p].charge # req'[r].charge
  BY DEF NoPaymentSince
<1>1. req'[r] # req[r]
  BY DEF OneAtATime, Idle
<1>2. req \in [Requests -> {Idle} \cup EnrolRequest \cup UpdateRequest \cup RemoveRequest]
  BY DEF TypeOK
<1>3. ASSUME NEW q \in Requests, NEW c \in Charges, NEW x, x.charge = c, req' = [req EXCEPT ![q] = x],
             PaymentsOf(c) = {}, UNCHANGED money
      PROVE  \A p \in Payments : payment'[p].charge # req'[r].charge
  BY <1>1, <1>2, <1>3 DEF PaymentsOf, money
<1>4. ASSUME NEW q \in Requests, NEW c \in Charges, NEW patch \in Patches, UpdateCharge(q, c, patch)
      PROVE  \A p \in Payments : payment'[p].charge # req'[r].charge
  <2>1. PICK x : x = [op |-> "update", charge |-> c, patch |-> patch]
    OBVIOUS
  <2> QED BY <1>3, <1>4, <2>1 DEF UpdateCharge
<1>5. ASSUME NEW q \in Requests, NEW c \in Charges, RemoveCharge(q, c)
      PROVE  \A p \in Payments : payment'[p].charge # req'[r].charge
  <2>1. PICK x : x = [op |-> "remove", charge |-> c]
    OBVIOUS
  <2> QED BY <1>3, <1>5, <2>1 DEF RemoveCharge
<1>6. ASSUME NEW q \in Requests, NEW s \in Students, NEW sub \in Subscription, Enrol(q, s, sub)
      PROVE  FALSE
  BY <1>1, <1>2, <1>6 DEF Enrol
<1>7. ASSUME NEW q \in Requests, Continue(q) PROVE FALSE
  <2>1. req' = [req EXCEPT ![q] = Idle]
    BY <1>7 DEF Continue, EnrolCommit, UpdateWrite, RemoveWrite, AbortRequest
  <2> QED BY <1>1, <1>2, <2>1 DEF Idle
<1>8. ASSUME Manage \/ Collect \/ Cycle \/ Tick PROVE FALSE
  BY <1>1, <1>8 DEF Manage, SetStudentStatus, SetPlanOffered, ChangePlan, EndPlan, Collect,
     CreateCharge, RegisterPayment, RefundPayment, Cycle, CycleStart, CycleCommit, CycleFail, Tick
<1> QED BY <1>4, <1>5, <1>6, <1>7, <1>8 DEF Next, Begin

\* The empty tables show all the money there is.
LEMMA MoneyInit == Init => MoneyInv
<1> SUFFICES ASSUME Init PROVE MoneyInv
  OBVIOUS
<1>1. Positive /\ NoPaymentSince
  BY DEF Init, Positive, NoPaymentSince, Idle
<1>2. \A c \in Charges : Shown(c)
  BY DEF Init, Shown
<1> QED BY <1>1, <1>2 DEF MoneyInv

\* Every step of SerialSpec keeps the invariant.
LEMMA MoneyStep ==
  TypeOK /\ Referring /\ MoneyInv /\ [Next /\ OneAtATime]_vars => MoneyInv'
<1> SUFFICES ASSUME TypeOK, Referring, MoneyInv, [Next /\ OneAtATime]_vars PROVE MoneyInv'
  OBVIOUS
<1>1. CASE Next /\ OneAtATime
  <2>1. TypeOK'
    BY <1>1, TypeStep
  <2>2. (\A c \in Charges : Shown(c)') /\ Positive'
    BY <1>1, <2>1, StepOfUnpaid, ShownKept, MoneyRegistered, MoneyRefunded
  <2> QED BY <1>1, <2>2, NoPaymentStep DEF MoneyInv
<1>2. CASE UNCHANGED vars
  <2>1. OnlyUnpaid
    BY <1>2 DEF vars, OnlyUnpaid
  <2>2. NoPaymentSince'
    BY <1>2 DEF vars, MoneyInv, NoPaymentSince
  <2> QED BY <2>1, <2>2, ShownKept DEF MoneyInv
<1> QED BY <1>1, <1>2

\* Received money shows in the status of its charge and never exceeds its amount, as
\* long as no step comes between what a request reads and what it writes.
THEOREM MoneyShows == SerialSpec => []ReceivedMoneyShows
<1>1. TypeOK /\ Referring /\ MoneyInv /\ [Next /\ OneAtATime]_vars =>
        (TypeOK /\ Referring /\ MoneyInv)'
  <2>1. [Next /\ OneAtATime]_vars => [Next]_vars
    OBVIOUS
  <2> QED BY <2>1, TypeStep, ReferringStep, MoneyStep
<1>2. MoneyInv => ReceivedMoneyShows
  BY DEF MoneyInv, Shown, ReceivedMoneyShows, Rows
<1> QED BY <1>1, <1>2, TypeInit, MoneyInit, PTL DEF SerialSpec
=============================================================================
