------------------------------ MODULE Billing ------------------------------
(***************************************************************************)
(* Charges, their payments and the daily financial cycle                   *)
(* (backend/src/charge), with the plan changes of backend/src/enrollment   *)
(* and backend/src/student-plan that create and cancel charges.            *)
(*                                                                         *)
(* As in StoreOrders, a Serializable transaction is one step.  The update  *)
(* and the removal of a charge have no transaction, and enrolment checks   *)
(* the plan before its transaction starts: they are a read, remembered in  *)
(* req, and a later write.  A run of the cycle takes the advisory lock,    *)
(* and commits or fails later, with the instant it started at.             *)
(***************************************************************************)
EXTENDS Integers, FiniteSets, Functions

CONSTANTS
  Students,     \* ids of the rows of Student
  Plans,        \* ids of the rows of Plan
  Charges,      \* ids of the rows of Charge
  Payments,     \* ids of the rows of Payment
  Requests,     \* HTTP requests that can be in flight at the same time
  None,         \* the SQL NULL of a reference
  ChargeTypes,  \* the types of ChargeType in use
  Prices,       \* monthly prices
  BillingDays,  \* the days of the month students may be billed on
  Starts,       \* the instants a subscription may start at
  NewRows,      \* the charges create is asked for
  Patches,      \* the bodies update is sent: some fields of a charge
  MonthLength,  \* instants in a month
  SafeDay,      \* the last day every month has (28 in the code)
  Horizon       \* bound: the last instant considered

VARIABLES
  student,       \* Student.status
  offered,       \* the plans with Plan.active
  subscription,  \* the ACTIVE StudentPlan of each student
  finished,      \* the FINISHED StudentPlan rows
  charge,        \* the rows of Charge
  payment,       \* the rows of Payment
  now,           \* the clock
  cycle,         \* when the run that holds the advisory lock started
  req            \* what each request in flight has read so far

people == <<student, offered, subscription, finished>>
money == <<charge, payment>>
vars == <<student, offered, subscription, finished, charge, payment, now, cycle, req>>

-----------------------------------------------------------------------------
(* Types *)

ChargeStatus ==
  {"PENDING", "PARTIALLY_PAID", "PAID", "OVERDUE", "CANCELLED", "REFUNDED"}
StudentStatus == {"ACTIVE", "INACTIVE"}   \* INACTIVE stands for PAUSED as well
Instants == 0..Horizon
MonthOf(t) == t \div MonthLength
Months == {MonthOf(t) : t \in Instants}
Generated == {"ENROLLMENT_FEE", "MONTHLY_FEE"}

\* month: referenceMonth; final: finalAmount; due: dueDate.
Row == [status : ChargeStatus, student : Students, type : ChargeTypes,
        month : Nat, plan : Plans \cup {None}, final : Nat, due : Nat]

ASSUME BillingAssumption ==
  /\ IsFiniteSet(Charges) /\ IsFiniteSet(Payments)
  /\ Generated \subseteq ChargeTypes
  /\ Prices \subseteq Nat /\ BillingDays \subseteq Nat \ {0}
  /\ Starts \subseteq Nat
  /\ MonthLength \in Nat \ {0} /\ SafeDay \in 1..MonthLength /\ Horizon \in Nat
  /\ NewRows \subseteq Row
  /\ \A patch \in Patches : \A f \in DOMAIN patch :
       \/ f = "status" /\ patch[f] \in ChargeStatus
       \/ f \in {"month", "final", "due"} /\ patch[f] \in Nat
  /\ None \notin Students \cup Plans \cup Charges \cup Instants

\* No row yet under this id.
Absent == [status |-> "ABSENT"]

Subscription == [plan : Plans, price : Prices, day : BillingDays, from : Starts]
NoPlan == [plan |-> None]

Idle == [op |-> "idle"]
EnrolRequest == [op : {"enrol"}, student : Students, sub : Subscription, new : BOOLEAN]
UpdateRequest == [op : {"update"}, charge : Charges, patch : Patches]
RemoveRequest == [op : {"remove"}, charge : Charges]

TypeOK ==
  /\ student \in [Students -> StudentStatus \cup {"ABSENT"}]
  /\ offered \subseteq Plans
  /\ subscription \in [Students -> Subscription \cup {NoPlan}]
  /\ finished \subseteq Students \X Plans
  /\ charge \in [Charges -> Row \cup {Absent}]
  /\ payment \in [Payments ->
       [charge : Charges \cup {None}, amount : Nat, refunded : BOOLEAN]]
  /\ now \in Instants
  /\ cycle \in Instants \cup {None}
  /\ req \in [Requests -> {Idle} \cup EnrolRequest \cup UpdateRequest \cup RemoveRequest]

-----------------------------------------------------------------------------
(* Helpers *)

Rows == {c \in Charges : charge[c] # Absent}
PaymentsOf(c) == {p \in Payments : payment[p].charge = c}

\* What has been paid of a charge and not refunded.
TotalPaid(c) ==
  SumFunctionOnSet([p \in Payments |->
    IF payment[p].charge = c /\ ~ payment[p].refunded THEN payment[p].amount ELSE 0],
    Payments)

\* A charge's place in the unique index (studentId, type, referenceMonth).
Key(row) == <<row.student, row.type, row.month>>

Taken == {Key(charge[c]) : c \in Rows}

SetStatus(C, s) ==
  charge' = [c \in Charges |-> IF c \in C THEN [charge[c] EXCEPT !.status = s] ELSE charge[c]]

\* The due date in the month of t of a student billed on the given day.
DueDate(t, day) ==
  MonthOf(t) * MonthLength + (IF day > SafeDay THEN SafeDay ELSE day) - 1

GeneratedCharge(s, type, t, due, sub) ==
  [status |-> "PENDING", student |-> s, type |-> type, month |-> MonthOf(t),
   plan |-> sub.plan, final |-> sub.price, due |-> due]

\* The charges of an enrolment that starts at sub.from.
EnrollmentCharges(s, sub) ==
  {GeneratedCharge(s, "ENROLLMENT_FEE", sub.from, sub.from, sub),
   GeneratedCharge(s, "MONTHLY_FEE", sub.from, DueDate(sub.from, sub.day), sub)}

\* Mutants of Missing: only charges that are still to be paid count as existing;
\* charges of any month count.
MissingOpen(rows) ==
  {row \in rows : Key(row) \notin {Key(charge[c]) : c \in {d \in Rows : charge[d].status = "PENDING"}}}

MissingStudents(rows) ==
  {row \in rows : \A c \in Rows : charge[c].student # row.student}

\* createMany with skipDuplicates: the rows whose key is still free.
Missing(rows) == {row \in rows : Key(row) \notin Taken}

\* The table with new rows under free ids.
Insert(table, rows) ==
  {[c \in Charges |-> IF c \in Range(id) THEN CHOOSE row \in rows : id[row] = c ELSE table[c]] :
     id \in Injection(rows, {c \in Charges : table[c] = Absent})}

Init ==
  /\ student = [s \in Students |-> "ABSENT"]
  /\ offered = Plans
  /\ subscription = [s \in Students |-> NoPlan]
  /\ finished = {}
  /\ charge = [c \in Charges |-> Absent]
  /\ payment = [p \in Payments |-> [charge |-> None, amount |-> 0, refunded |-> FALSE]]
  /\ now = 0
  /\ cycle = None
  /\ req = [r \in Requests |-> Idle]

-----------------------------------------------------------------------------
(* Students and plans *)

\* students.update and plans.update: the fields the cycle looks at.
SetStudentStatus(s, status) ==
  /\ student[s] # "ABSENT"
  /\ student' = [student EXCEPT ![s] = status]
  /\ UNCHANGED <<offered, subscription, finished, charge, payment, now, cycle, req>>

SetPlanOffered(p, active) ==
  /\ offered' = IF active THEN offered \cup {p} ELSE offered \ {p}
  /\ UNCHANGED <<student, subscription, finished, charge, payment, now, cycle, req>>

\* Enrolment checks the plan, and that the student exists unless it is new, ...
Enrol(r, s, sub) ==
  /\ req[r] = Idle /\ sub.plan \in offered
  /\ req' = [req EXCEPT ![r] = [op |-> "enrol", student |-> s, sub |-> sub,
                                new |-> student[s] = "ABSENT"]]
  /\ UNCHANGED <<people, money, now, cycle>>

\* ... and then creates the subscription and its charges in one transaction.
EnrolCommit(r, status) ==
  LET s == req[r].student
      sub == req[r].sub
      rows == IF status = "ACTIVE" /\ sub.plan \in offered
              THEN Missing(EnrollmentCharges(s, sub)) ELSE {}
  IN
  /\ req[r].op = "enrol"
  /\ req[r].new <=> student[s] = "ABSENT"
  /\ req[r].new \/ status = student[s]
  /\ subscription[s] = NoPlan
  /\ student' = [student EXCEPT ![s] = status]
  /\ subscription' = [subscription EXCEPT ![s] = sub]
  /\ charge' \in Insert(charge, rows)
  /\ req' = [req EXCEPT ![r] = Idle]
  /\ UNCHANGED <<offered, finished, payment, now, cycle>>

\* Mutant of Future: a charge that is partly paid is cancelled too.
FutureUnpaid(s, p, t) ==
  {c \in Rows : /\ charge[c].student = s /\ charge[c].plan = p
                /\ charge[c].status \in {"PENDING", "PARTIALLY_PAID"}
                /\ charge[c].due >= t}

\* The charges a change of plan cancels.
Future(s, p, t) ==
  {c \in Rows : /\ charge[c].student = s /\ charge[c].plan = p
                /\ charge[c].status = "PENDING" /\ charge[c].due >= t}

\* maintain, as far as the plan is concerned: the start of a subscription to the
\* same plan is kept, and no charge is created.
ChangePlan(s, sub) ==
  LET current == subscription[s]
      changes == current # NoPlan /\ sub # [current EXCEPT !.from = sub.from]
  IN
  /\ student[s] # "ABSENT" /\ sub.plan \in offered
  /\ SetStatus(IF changes THEN Future(s, current.plan, sub.from) ELSE {}, "CANCELLED")
  /\ subscription' = [subscription EXCEPT ![s] =
       IF current.plan = sub.plan THEN [sub EXCEPT !.from = current.from] ELSE sub]
  /\ finished' = IF current.plan \in {sub.plan, None} THEN finished
                 ELSE finished \cup {<<s, current.plan>>}
  /\ UNCHANGED <<student, offered, payment, now, cycle, req>>

\* remove of a StudentPlan, the ACTIVE one or one that has already ended.
EndPlan(s, p) ==
  /\ \/ subscription[s].plan = p /\ subscription' = [subscription EXCEPT ![s] = NoPlan]
     \/ <<s, p>> \in finished /\ UNCHANGED subscription
  /\ finished' = finished \cup {<<s, p>>}
  /\ SetStatus(Future(s, p, now), "CANCELLED")
  /\ UNCHANGED <<student, offered, payment, now, cycle, req>>

-----------------------------------------------------------------------------
(* Charges and payments *)

CreateCharge(c, row) ==
  /\ charge[c] = Absent /\ student[row.student] # "ABSENT" /\ Key(row) \notin Taken
  /\ charge' = [charge EXCEPT ![c] = row]
  /\ UNCHANGED <<people, payment, now, cycle, req>>

Balance(c) == charge[c].final - TotalPaid(c)

RegisterPayment(p, c, a) ==
  /\ payment[p].charge = None /\ c \in Rows
  /\ charge[c].status \notin {"CANCELLED", "REFUNDED", "PAID"}
  /\ a >= 1 /\ a <= Balance(c)
  /\ payment' = [payment EXCEPT ![p] = [charge |-> c, amount |-> a, refunded |-> FALSE]]
  /\ SetStatus({c}, IF a >= Balance(c) THEN "PAID" ELSE "PARTIALLY_PAID")
  /\ UNCHANGED <<people, now, cycle, req>>

\* The status of a charge that has lost a payment.
AfterRefund(c, paid) ==
  IF paid >= charge[c].final THEN "PAID"
  ELSE IF paid > 0 THEN "PARTIALLY_PAID"
  ELSE IF charge[c].due < now THEN "OVERDUE" ELSE "PENDING"

RefundPayment(p) ==
  LET c == payment[p].charge IN
  /\ c # None /\ ~ payment[p].refunded
  /\ charge[c].status \notin {"CANCELLED", "REFUNDED"}
  /\ payment' = [payment EXCEPT ![p].refunded = TRUE]
  /\ SetStatus({c}, AfterRefund(c, TotalPaid(c) - payment[p].amount))
  /\ UNCHANGED <<people, now, cycle, req>>

\* update reads the charge and its payments, ...
UpdateCharge(r, c, patch) ==
  /\ req[r] = Idle /\ c \in Rows
  /\ charge[c].status # "PAID" /\ PaymentsOf(c) = {}
  /\ req' = [req EXCEPT ![r] = [op |-> "update", charge |-> c, patch |-> patch]]
  /\ UNCHANGED <<people, money, now, cycle>>

\* ... and writes the fields it was sent, whatever has become of the charge.
UpdateWrite(r) ==
  LET c == req[r].charge
      row == [f \in DOMAIN charge[c] |->
               IF f \in DOMAIN req[r].patch THEN req[r].patch[f] ELSE charge[c][f]]
  IN
  /\ req[r].op = "update"
  /\ Key(row) \notin Taken \ {Key(charge[c])}
  /\ charge' = [charge EXCEPT ![c] = row]
  /\ req' = [req EXCEPT ![r] = Idle]
  /\ UNCHANGED <<people, payment, now, cycle>>

\* remove, which is a cancellation, likewise.
RemoveCharge(r, c) ==
  /\ req[r] = Idle /\ c \in Rows
  /\ charge[c].status = "PENDING" /\ PaymentsOf(c) = {}
  /\ req' = [req EXCEPT ![r] = [op |-> "remove", charge |-> c]]
  /\ UNCHANGED <<people, money, now, cycle>>

RemoveWrite(r) ==
  /\ req[r].op = "remove"
  /\ SetStatus({req[r].charge}, "CANCELLED")
  /\ req' = [req EXCEPT ![r] = Idle]
  /\ UNCHANGED <<people, payment, now, cycle>>

\* A request ends without a write: refused, failed, or its process stopped.
AbortRequest(r) ==
  /\ req[r] # Idle
  /\ req' = [req EXCEPT ![r] = Idle]
  /\ UNCHANGED <<people, money, now, cycle>>

-----------------------------------------------------------------------------
(* The financial cycle *)

\* The charges markOverdue updates.
Late(t) == {c \in Rows : charge[c].status = "PENDING" /\ charge[c].due < t}

\* The students billed by a run that started at t.
Eligible(t) ==
  {s \in Students : /\ student[s] = "ACTIVE" /\ subscription[s].plan \in offered
                    /\ subscription[s].from <= t}

MonthlyCharges(t) ==
  {GeneratedCharge(s, "MONTHLY_FEE", t, DueDate(t, subscription[s].day), subscription[s]) :
     s \in Eligible(t)}

\* The cron job, its script or the route of the controller; a run that finds the
\* lock taken returns without an effect.
CycleStart ==
  /\ cycle = None
  /\ cycle' = now
  /\ UNCHANGED <<people, money, now, req>>

\* Mutant of CycleCommit: the overdue update is lost when there is someone to bill.
CycleBillsOnly ==
  /\ cycle # None
  /\ charge' \in Insert(charge, Missing(MonthlyCharges(cycle)))
  /\ cycle' = None
  /\ UNCHANGED <<people, payment, now, req>>

CycleCommit ==
  LET overdue == [c \in Charges |->
        IF c \in Late(cycle) THEN [charge[c] EXCEPT !.status = "OVERDUE"] ELSE charge[c]]
  IN
  /\ cycle # None
  /\ charge' \in Insert(overdue, Missing(MonthlyCharges(cycle)))
  /\ cycle' = None
  /\ UNCHANGED <<people, payment, now, req>>

\* Any failure rolls the run back and releases the lock; the scheduler logs it.
CycleFail ==
  /\ cycle # None
  /\ cycle' = None
  /\ UNCHANGED <<people, money, now, req>>

Tick ==
  /\ now < Horizon
  /\ now' = now + 1
  /\ UNCHANGED <<people, money, cycle, req>>

-----------------------------------------------------------------------------
(* Billing *)

Manage ==
  \/ \E s \in Students, status \in StudentStatus : SetStudentStatus(s, status)
  \/ \E p \in Plans, active \in BOOLEAN : SetPlanOffered(p, active)
  \/ \E s \in Students, sub \in Subscription : ChangePlan(s, sub)
  \/ \E s \in Students, p \in Plans : EndPlan(s, p)

Collect ==
  \/ \E c \in Charges, row \in NewRows : CreateCharge(c, row)
  \/ \E p \in Payments, c \in Rows : \E a \in 1..charge[c].final : RegisterPayment(p, c, a)
  \/ \E p \in Payments : RefundPayment(p)

Begin(r) ==
  \/ \E s \in Students, sub \in Subscription : Enrol(r, s, sub)
  \/ \E c \in Charges, patch \in Patches : UpdateCharge(r, c, patch)
  \/ \E c \in Charges : RemoveCharge(r, c)

Continue(r) ==
  \/ \E status \in StudentStatus : EnrolCommit(r, status)
  \/ UpdateWrite(r)
  \/ RemoveWrite(r)
  \/ AbortRequest(r)

Cycle == CycleStart \/ CycleCommit \/ CycleFail

Next ==
  \/ Manage
  \/ Collect
  \/ Cycle
  \/ Tick
  \/ \E r \in Requests : Begin(r) \/ Continue(r)

Spec == Init /\ [][Next]_vars

\* The scheduler starts a run again and again, and not every run fails.
FairSpec == Spec /\ WF_vars(CycleStart) /\ SF_vars(CycleCommit)

\* What is left if update, remove and enrolment ran each as one Serializable
\* transaction: while a request is in flight, every step is its own.
OneAtATime == \A r \in Requests : req[r] # Idle => req'[r] # req[r]

SerialSpec == Init /\ [][Next /\ OneAtATime]_vars

-----------------------------------------------------------------------------
(* Properties of billing whatever the interleaving *)

\* A student is billed at most once for a month and a type, however often the
\* cycle runs and whoever enrols the student or creates charges by hand meanwhile
\* (createMany with skipDuplicates, the unique index of Charge).
BilledAtMostOnce ==
  \A c, d \in Rows : c # d => Key(charge[c]) # Key(charge[d])

\* A run that follows another at once bills nobody and finds no old charge late:
\* only what the first has generated, which may be late from the start, is left
\* for it (charge-generator.service.spec: repeated runs are idempotent).
CycleIdempotent ==
  [][\A t \in Instants :
       cycle = t /\ cycle' = None /\ charge' # charge =>
         Late(t)' \cap Rows = {} /\ Missing(MonthlyCharges(t))' = {}]_vars

\* Overdue charges are found: none stays PENDING after its due date for ever.
OverdueIsMarked ==
  \A c \in Charges :
    (c \in Late(now)) ~> (c \notin Late(now))

\* Every student who is to be billed for a month has a charge for it before the
\* month ends, unless the student or the plan changes or no run succeeds in time.
EligibleIsBilled ==
  \A s \in Students, m \in Months :
    s \in Eligible(now) /\ MonthOf(now) = m ~>
      \/ <<s, "MONTHLY_FEE", m>> \in Taken
      \/ s \notin Eligible(now)
      \/ MonthOf(now) # m

-----------------------------------------------------------------------------
(* Properties of SerialSpec, which interleavings of Spec break *)

\* Received money shows in the status of its charge and never exceeds its amount,
\* through payments, refunds, overdue runs, plan changes, edits and cancellations
\* in any order.
ReceivedMoneyShows ==
  \A c \in Rows : TotalPaid(c) > 0 =>
    /\ TotalPaid(c) <= charge[c].final
    /\ charge[c].status = IF TotalPaid(c) = charge[c].final THEN "PAID" ELSE "PARTIALLY_PAID"

\* A cancelled charge holds no money (remove, maintain, remove of a StudentPlan).
CancelledHoldsNoMoney ==
  \A c \in Rows : charge[c].status = "CANCELLED" => TotalPaid(c) = 0
=============================================================================
