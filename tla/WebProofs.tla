------------------------------ MODULE WebProofs ------------------------------
(***************************************************************************)
(* Theorems about WebSession, ReportsPanel and EnrolmentForm for every     *)
(* value of their constants.                                               *)
(***************************************************************************)
EXTENDS WebMC, SequenceTheorems, FiniteSetTheorems, TLAPS

-----------------------------------------------------------------------------
(* Pages and what they call *)

\* The guards let the role through to all of the handlers.
Passes(role, calls) == \A h \in calls : GuardLetsThrough(role, h)

LEMMA PassOf ==
  ASSUME NEW role, NEW controller, NEW methods, \A m \in methods : <<role, m>> \in Routes[controller]
  PROVE  Passes(role, Of(controller, methods))
<1> SUFFICES ASSUME NEW m \in methods PROVE GuardLetsThrough(role, <<controller, m>>)
  BY DEF Passes, Of
<1> QED BY DEF GuardLetsThrough

LEMMA PassOne ==
  ASSUME NEW role, NEW controller, NEW m, <<role, m>> \in Routes[controller]
  PROVE  GuardLetsThrough(role, <<controller, m>>)
  BY DEF GuardLetsThrough

LEMMA PassBoth ==
  ASSUME NEW role, NEW S, NEW T, Passes(role, S), Passes(role, T)
  PROVE  Passes(role, S \cup T)
  BY DEF Passes

LEMMA RoutesOf ==
  /\ Routes["me"] = MeRoutes /\ Routes["dashboard"] = DashboardRoutes /\ Routes["reports"] = ReportRoutes
  /\ Routes["modality"] = ModalityRoutes /\ Routes["class"] = ClassRoutes /\ Routes["plans"] = PlansRoutes
  /\ Routes["students"] = StudentsRoutes /\ Routes["attendance"] = AttendanceRoutes
  /\ Routes["graduations"] = GraduationRoutes /\ Routes["documents"] = DocumentRoutes
  /\ Routes["charges"] = ChargeRoutes /\ Routes["payments"] = PaymentRoutes
  /\ Routes["enrollments"] = EnrollmentRoutes /\ Routes["store"] = StoreRoutes /\ Routes["users"] = UsersRoutes
  BY DEF Routes

LEMMA Staff == Managers \subseteq Desk /\ Desk \subseteq Internal
  BY DEF Desk, Internal

\* What the parts of the pages call.
LEMMA StudentParts ==
  ASSUME NEW methods, methods \subseteq MeReading \cup MeOperating
  PROVE  Passes("ALUNO", Of("me", methods))
  BY PassOf, RoutesOf DEF MeRoutes, Open, Students

LEMMA InternalParts ==
  ASSUME NEW role \in Internal
  PROVE  /\ Passes(role, StudentListCalls) /\ Passes(role, RollCallCalls)
         /\ Passes(role, {<<"students", "findOne">>, <<"students", "history">>,
                          <<"attendance", "findAll">>, <<"graduations", "findAll">>})
         /\ Passes(role, {<<"modality", "findAll">>, <<"class", "findAll">>})
<1>1. /\ \A m \in {"findAll", "findOne", "history"} : <<role, m>> \in Routes["students"]
      /\ \A m \in {"findAll", "createBatch"} : <<role, m>> \in Routes["attendance"]
      /\ <<role, "findAll">> \in Routes["graduations"] /\ <<role, "findAll">> \in Routes["modality"]
      /\ \A m \in {"findAll", "getStudentsByClassId"} : <<role, m>> \in Routes["class"]
  BY RoutesOf DEF StudentsRoutes, AttendanceRoutes, GraduationRoutes, ModalityRoutes, ClassRoutes, Open, Reading
<1>2. Passes(role, RollCallCalls)
  BY <1>1, PassOf, PassBoth DEF RollCallCalls
<1>3. /\ GuardLetsThrough(role, <<"students", "findAll">>) /\ GuardLetsThrough(role, <<"students", "findOne">>)
      /\ GuardLetsThrough(role, <<"students", "history">>) /\ GuardLetsThrough(role, <<"attendance", "findAll">>)
      /\ GuardLetsThrough(role, <<"graduations", "findAll">>) /\ GuardLetsThrough(role, <<"modality", "findAll">>)
      /\ GuardLetsThrough(role, <<"class", "findAll">>)
  BY <1>1, PassOne
<1> QED BY <1>2, <1>3 DEF StudentListCalls, Passes

LEMMA DeskParts ==
  ASSUME NEW role \in Desk
  PROVE  /\ Passes(role, DashboardCalls) /\ Passes(role, ReportCalls) /\ Passes(role, Catalog)
         /\ Passes(role, {<<"enrollments", "create">>}) /\ Passes(role, {<<"enrollments", "maintain">>})
         /\ Passes(role, Of("documents", {"findByStudent", "upload", "getFile", "remove"}))
         /\ Passes(role, Of("charges", {"findAll", "registerPayment"})) /\ Passes(role, {<<"payments", "refund">>})
         /\ Passes(role, Of("store", {"listProducts", "getImage", "listOrders", "findCustomer",
                                      "createOrder", "submitPayment"}))
<1>1. /\ <<role, "summary">> \in Routes["dashboard"] /\ <<role, "findAll">> \in Routes["plans"]
      /\ \A m \in {"students", "financial", "attendance", "graduations"} : <<role, m>> \in Routes["reports"]
      /\ <<role, "create">> \in Routes["enrollments"] /\ <<role, "maintain">> \in Routes["enrollments"]
      /\ \A m \in {"findByStudent", "upload", "getFile", "remove"} : <<role, m>> \in Routes["documents"]
      /\ \A m \in {"findAll", "registerPayment"} : <<role, m>> \in Routes["charges"]
      /\ <<role, "refund">> \in Routes["payments"]
      /\ \A m \in {"listProducts", "getImage", "listOrders", "findCustomer", "createOrder", "submitPayment"} :
           <<role, m>> \in Routes["store"]
  BY RoutesOf DEF DashboardRoutes, PlansRoutes, ReportRoutes, EnrollmentRoutes, DocumentRoutes, ChargeRoutes,
                  PaymentRoutes, StoreRoutes, Open, Reading, Writing
<1>2. /\ Passes(role, Of("reports", {"students", "financial", "attendance", "graduations"}))
      /\ Passes(role, Of("documents", {"findByStudent", "upload", "getFile", "remove"}))
      /\ Passes(role, Of("charges", {"findAll", "registerPayment"})) /\ Passes(role, DashboardCalls)
      /\ Passes(role, Of("store", {"listProducts", "getImage", "listOrders", "findCustomer",
                                   "createOrder", "submitPayment"}))
  BY <1>1, PassOf DEF DashboardCalls
<1>3. /\ GuardLetsThrough(role, <<"plans", "findAll">>) /\ GuardLetsThrough(role, <<"payments", "refund">>)
      /\ GuardLetsThrough(role, <<"enrollments", "create">>) /\ GuardLetsThrough(role, <<"enrollments", "maintain">>)
  BY <1>1, PassOne
<1>4. Passes(role, {<<"modality", "findAll">>, <<"class", "findAll">>})
  BY Staff, InternalParts
<1>5. Passes(role, Catalog)
  BY <1>3, <1>4 DEF Passes, Catalog
<1>6. Passes(role, ReportCalls)
  BY <1>2, <1>4, PassBoth DEF ReportCalls
<1> QED BY <1>2, <1>3, <1>5, <1>6 DEF Passes

LEMMA ManagerParts ==
  ASSUME NEW role \in Managers
  PROVE  /\ \A page \in DOMAIN AdminCalls : Passes(role, AdminCalls[page])
         /\ Passes(role, Of("graduations", {"create", "update"}))
         /\ Passes(role, Of("store", {"reviews", "createProduct", "uploadImage", "addStock",
                                      "approve", "reject", "updateStatus"}))
<1>1. /\ \A m \in {"findAll", "create", "update"} :
           /\ <<role, m>> \in Routes["plans"] /\ <<role, m>> \in Routes["modality"]
           /\ <<role, m>> \in Routes["class"]
      /\ <<role, "findAll">> \in Routes["users"]
      /\ \A m \in {"create", "update"} : <<role, m>> \in Routes["graduations"]
      /\ \A m \in {"reviews", "createProduct", "uploadImage", "addStock", "approve", "reject", "updateStatus"} :
           <<role, m>> \in Routes["store"]
  BY RoutesOf DEF PlansRoutes, ModalityRoutes, ClassRoutes, UsersRoutes, GraduationRoutes, StoreRoutes, Open,
                  Reading, Writing, Desk, Internal, Managers
<1>2. /\ Passes(role, Of("plans", {"findAll", "create", "update"}))
      /\ Passes(role, Of("modality", {"findAll", "create", "update"}))
      /\ Passes(role, Of("class", {"findAll", "create", "update"}))
      /\ Passes(role, Of("graduations", {"create", "update"}))
      /\ Passes(role, Of("store", {"reviews", "createProduct", "uploadImage", "addStock",
                                   "approve", "reject", "updateStatus"}))
  BY <1>1, PassOf
<1>3. GuardLetsThrough(role, <<"modality", "findAll">>) /\ GuardLetsThrough(role, <<"users", "findAll">>)
  BY <1>1, PassOne
<1>4. Passes(role, {<<"modality", "findAll">>, <<"users", "findAll">>})
  BY <1>3 DEF Passes
<1>5. \A page \in DOMAIN AdminCalls : Passes(role, AdminCalls[page])
  BY <1>2, <1>4, PassBoth DEF AdminCalls
<1> QED BY <1>2, <1>5

\* What each page calls, is open to the roles that are shown it.
LEMMA StudentPages ==
  ASSUME NEW page, <<"ALUNO", page>> \in PageRoles
  PROVE  Passes("ALUNO", PageCalls(page, "ALUNO"))
<1>1. page \in {"home"} \cup DOMAIN SelfPageCalls \cup DOMAIN ShopCalls
  BY DEF PageRoles, SelfPageCalls, ShopCalls, Internal, Desk, Managers
<1>2. CASE page = "home"
  <2>1. Passes("ALUNO", HomeCalls)
    BY StudentParts DEF HomeCalls, MeReading
  <2>2. PageCalls(page, "ALUNO") = HomeCalls
    BY <1>2 DEF PageCalls, SelfPageCalls, ShopCalls, AdminCalls
  <2> QED BY <2>1, <2>2
<1>3. CASE page \in DOMAIN SelfPageCalls
  <2>1. Passes("ALUNO", SelfPageCalls[page])
    BY <1>3, StudentParts DEF SelfPageCalls, MeReading
  <2>2. /\ page \notin DOMAIN ShopCalls /\ page \notin DOMAIN AdminCalls
        /\ page \notin {"home", "dashboard", "reports", "storeOperations", "newStudent",
                        "students", "student", "attendance"}
    BY <1>3 DEF SelfPageCalls, ShopCalls, AdminCalls
  <2> QED BY <1>3, <2>1, <2>2 DEF PageCalls
<1>4. CASE page \in DOMAIN ShopCalls
  <2>1. Passes("ALUNO", ShopCalls[page])
    BY <1>4, StudentParts DEF ShopCalls, MeReading, MeOperating
  <2>2. /\ page \notin DOMAIN SelfPageCalls /\ page \notin DOMAIN AdminCalls
        /\ page \notin {"home", "dashboard", "reports", "storeOperations", "newStudent",
                        "students", "student", "attendance"}
    BY <1>4 DEF SelfPageCalls, ShopCalls, AdminCalls
  <2> QED BY <1>4, <2>1, <2>2 DEF PageCalls
<1> QED BY <1>1, <1>2, <1>3, <1>4

LEMMA OtherPages ==
  ASSUME NEW role, NEW page, <<role, page>> \in PageRoles, role # "ALUNO"
  PROVE  Passes(role, PageCalls(page, role))
<1>1. CASE page \in {"dashboard", "reports", "newStudent"} /\ role \in Desk
  <2>1. Passes(role, NewStudentCalls)
    BY <1>1, DeskParts, PassBoth DEF NewStudentCalls
  <2>2. PageCalls(page, role) \in {DashboardCalls, ReportCalls, NewStudentCalls}
    BY <1>1 DEF PageCalls, SelfPageCalls, ShopCalls, AdminCalls
  <2> QED BY <1>1, <2>1, <2>2, DeskParts
<1>2. CASE page = "storeOperations" /\ role \in Desk
  <2>1. Passes(role, StoreCalls(role))
    BY <1>2, DeskParts, ManagerParts, PassBoth DEF StoreCalls, Passes
  <2>2. PageCalls(page, role) = StoreCalls(role)
    BY <1>2 DEF PageCalls, SelfPageCalls, ShopCalls, AdminCalls
  <2> QED BY <2>1, <2>2
<1>3. CASE page \in {"adminPlans", "adminModalities", "adminClasses"} /\ role \in Managers
  <2>1. /\ page \in DOMAIN AdminCalls /\ page \notin DOMAIN SelfPageCalls /\ page \notin DOMAIN ShopCalls
        /\ page \notin {"home", "dashboard", "reports", "storeOperations", "newStudent",
                        "students", "student", "attendance"}
    BY <1>3 DEF SelfPageCalls, ShopCalls, AdminCalls
  <2>2. PageCalls(page, role) = AdminCalls[page]
    BY <2>1 DEF PageCalls
  <2> QED BY <1>3, <2>1, <2>2, ManagerParts
<1>4. CASE page \in {"students", "attendance"} /\ role \in Internal
  <2>1. PageCalls(page, role) \in {StudentListCalls, RollCallCalls}
    BY <1>4 DEF PageCalls, SelfPageCalls, ShopCalls, AdminCalls
  <2> QED BY <1>4, <2>1, InternalParts
<1>5. CASE page = "student" /\ role \in Internal
  <2>1. PageCalls(page, role) = StudentCalls(role)
    BY <1>5 DEF PageCalls, SelfPageCalls, ShopCalls, AdminCalls
  <2>2. role # "TEACHER" => role \in Desk
    BY <1>5 DEF Internal
  <2>3. Passes(role, StudentCalls(role))
    BY <1>5, <2>2, InternalParts, DeskParts, ManagerParts, PassBoth DEF StudentCalls, Passes
  <2> QED BY <2>1, <2>3
<1> QED BY <1>1, <1>2, <1>3, <1>4, <1>5 DEF PageRoles, Students

\* Whatever the page somebody is at, what is shown there calls nothing that is refused.
LEMMA ShownCallsPass ==
  ASSUME NEW role \in AllRoles
  PROVE  Passes(role, CallsShownTo(role))
<1> SUFFICES ASSUME NEW address \in Addresses
             PROVE  Passes(role, PageCalls(Shown(address, FALSE, role), role))
  BY DEF Passes, CallsShownTo
<1>1. <<role, Shown(address, FALSE, role)>> \in PageRoles
  <2>1. role # "NONE"
    BY DEF AllRoles, Internal, Desk, Managers, Students
  <2>2. <<role, Elsewhere(role)>> \in PageRoles
    BY DEF AllRoles, Elsewhere, PageRoles, Students, Internal
  <2> QED BY <2>1, <2>2 DEF Shown
<1> QED BY <1>1, StudentPages, OtherPages

-----------------------------------------------------------------------------
(* The session *)

\* A request, with the answer it has got: a token for a login, a role for /auth/me, and
\* the handler of a call that the guards have let through.
Shows == [role : Roles \cup {"NONE"}] \cup [call : Rereading]
Request ==
  [tab : Tabs, kind : Kinds, token : Token \cup {NoToken}, user : Roles \cup {"NONE"},
   answer : Answers, body : Token \cup Shows]
Tab == [user : Roles \cup {"NONE"}, phase : Phases]

SessionTyped ==
  /\ user \in [AccountIds -> User \cup {Missing, Removed}]
  /\ token \subseteq Token /\ stored \in token \cup {NoToken}
  /\ tab \in [Tabs -> Tab]
  /\ request \subseteq Request /\ opened \in 0..MaxOpenings

\* No session is ahead of its account.
Behind(t) == user[t.sub] \in User => t.version <= user[t.sub].version
NoneAhead == \A t \in token : Behind(t)

\* What a request carries was signed, and so is what a login gets; /auth/me names a
\* role; the token that was not accepted is dead; a page is shown to somebody; the guards
\* have let a call through with a token, and it is refused for a reason.
Answered(r) ==
  /\ r.token \in token \cup {NoToken}
  /\ r.kind \in {"restore", "me"} /\ r.answer = "ok" => r.body.role \in Roles
  /\ r.kind = "login" /\ r.answer = "ok" => r.body \in token
  /\ r.kind # "login" /\ r.answer = "401" => r.token = NoToken \/ ~ Valid(r.token)
  /\ r.kind = "page" => r.user # "NONE"
  /\ r.answer = "passed" => /\ r.kind = "page" /\ r.token \in token
                            /\ r.body.call \in Rereading /\ GuardLetsThrough(r.token.role, r.body.call)
  /\ r.answer \in Forbidden => r.token \in token /\ Excused(r)

SessionInv == SessionTyped /\ NoneAhead /\ \A r \in request : Answered(r)

-----------------------------------------------------------------------------
(* Accounts *)

LEMMA RowKinds == Missing \notin User /\ Removed \notin User
  BY DEF Missing, Removed, User

LEMMA RowsAreUsers ==
  ASSUME SessionTyped, NEW u \in AccountIds
  PROVE  u \in AccountRows <=> user[u] \in User
  BY RowKinds DEF SessionTyped, AccountRows

LEMMA NoTokenNone == NoToken \notin Token /\ NoToken \in Shows
  BY DEF NoToken, Token, Shows

\* A field is written only if it is sent.
LEMMA SentValue ==
  ASSUME NEW S, NEW old \in S, NEW values \in Optional(S)
  PROVE  /\ Sent(values, old) \in S
         /\ values \subseteq {old} => Sent(values, old) = old
<1>1. CASE values = {}
  BY <1>1 DEF Sent
<1>2. CASE values # {}
  <2>1. PICK x \in S : values = {x}
    BY <1>2 DEF Optional
  <2>2. Sent(values, old) = x
    BY <1>2, <2>1 DEF Sent
  <2> QED BY <1>2, <2>1, <2>2
<1> QED BY <1>1, <1>2

\* A row that is changed is ahead of what it was, or good for the same sessions.
LEMMA ChangedRow ==
  ASSUME NEW row \in User, NEW change \in Change, NEW w, w = Written(row, change, Critical(row, change)),
         w.version <= MaxVersion
  PROVE  /\ w \in User
         /\ \/ w.version > row.version
            \/ w.version = row.version /\ w.role = row.role /\ w.active = row.active
<1>1. /\ row.role \in Roles /\ row.active \in BOOLEAN /\ row.password \in Passwords
      /\ row.hash \in {"current", "outdated"} /\ row.version \in Nat
      /\ change.role \in Optional(Roles) /\ change.active \in Optional(BOOLEAN)
      /\ change.password \in Optional(Passwords)
  BY DEF User, Change
<1>2. /\ Sent(change.role, row.role) \in Roles /\ Sent(change.active, row.active) \in BOOLEAN
      /\ Sent(change.password, row.password) \in Passwords
      /\ change.role \subseteq {row.role} => Sent(change.role, row.role) = row.role
      /\ change.active \subseteq {row.active} => Sent(change.active, row.active) = row.active
  BY <1>1, SentValue
<1> DEFINE bump == Critical(row, change)
<1>3. /\ w = [role |-> Sent(change.role, row.role), active |-> Sent(change.active, row.active),
              password |-> Sent(change.password, row.password),
              hash |-> IF change.password = {} THEN row.hash ELSE "current",
              version |-> IF bump THEN row.version + 1 ELSE row.version]
      /\ ~ bump => change.role \subseteq {row.role} /\ change.active \subseteq {row.active}
  BY DEF Written, Critical
<1> HIDE DEF bump
<1>4. w.version \in 0..MaxVersion
  BY <1>1, <1>3, AccountsAssumption
<1>5. w \in User
  BY <1>1, <1>2, <1>3, <1>4 DEF User
<1> QED BY <1>1, <1>2, <1>3, <1>5

\* A change or a removal of an account brings no session back.
LEMMA DeadStayDead ==
  ASSUME SessionTyped, NoneAhead,
         (\E u \in AccountIds : (\E change \in Changes : ChangeAccount(u, change)) \/ DeleteAccount(u))
           \/ UNCHANGED user,
         UNCHANGED token
  PROVE  /\ user' \in [AccountIds -> User \cup {Missing, Removed}]
         /\ NoneAhead' /\ \A t \in token : ~ Valid(t) => ~ Valid(t)'
<1>1. CASE UNCHANGED user
  BY <1>1 DEF SessionTyped, NoneAhead, Behind, Valid, AccountRows
<1>2. ASSUME NEW u \in AccountIds, (\E change \in Changes : ChangeAccount(u, change)) \/ DeleteAccount(u)
      PROVE  /\ user' \in [AccountIds -> User \cup {Missing, Removed}]
             /\ NoneAhead' /\ \A t \in token : ~ Valid(t) => ~ Valid(t)'
  <2>1. PICK w : /\ user' = [user EXCEPT ![u] = w] /\ u \in AccountRows
                 /\ \/ w = Removed
                    \/ \E change \in Change : /\ w = Written(user[u], change, Critical(user[u], change))
                                              /\ w.version <= MaxVersion
    BY <1>2, AccountsAssumption DEF ChangeAccount, DeleteAccount
  <2>2. user[u] \in User
    BY <2>1, RowsAreUsers
  <2>3. \/ w = Removed
        \/ /\ w \in User
           /\ \/ w.version > user[u].version
              \/ w.version = user[u].version /\ w.role = user[u].role /\ w.active = user[u].active
    BY <2>1, <2>2, ChangedRow
  <2>4. /\ user' \in [AccountIds -> User \cup {Missing, Removed}]
        /\ user'[u] = w /\ \A x \in AccountIds \ {u} : user'[x] = user[x]
    BY <2>1, <2>3 DEF SessionTyped
  <2>5. \A row \in User : row.version \in Nat
    BY DEF User
  <2>6. \A t \in token : t.sub \in AccountIds /\ t.version \in Nat
    BY DEF SessionTyped, Token
  <2>7. NoneAhead'
    <3> SUFFICES ASSUME NEW t \in token PROVE Behind(t)'
      BY DEF NoneAhead
    <3>1. CASE t.sub = u
      BY <2>2, <2>3, <2>4, <2>5, <2>6, <3>1, RowKinds DEF NoneAhead, Behind
    <3>2. CASE t.sub # u
      BY <2>4, <2>6, <3>2 DEF NoneAhead, Behind
    <3> QED BY <3>1, <3>2
  <2>8. ASSUME NEW t \in token, Valid(t)' PROVE Valid(t)
    <3>1. CASE t.sub = u
      <4>1. w # Removed
        BY <2>4, <2>8, <3>1 DEF Valid, AccountRows
      <4>2. t.version = w.version /\ w.version \in Nat /\ user[u].version \in Nat /\ t.version <= user[u].version
        BY <2>2, <2>3, <2>4, <2>5, <2>8, <3>1, <4>1 DEF Valid, NoneAhead, Behind
      <4>3. w.version = user[u].version /\ w.role = user[u].role /\ w.active = user[u].active
        BY <2>3, <4>1, <4>2
      <4> QED BY <2>1, <2>4, <2>8, <3>1, <4>3 DEF Valid
    <3>2. CASE t.sub # u
      BY <2>4, <2>6, <2>8, <3>2 DEF Valid, AccountRows
    <3> QED BY <3>1, <3>2
  <2> QED BY <2>4, <2>7, <2>8
<1> QED BY <1>1, <1>2

-----------------------------------------------------------------------------
(* Requests *)

\* The requests that were there are still in order, and so is one that is new.
LEMMA RequestsStay ==
  ASSUME SessionInv, token \subseteq token', \A t \in token : ~ Valid(t) => ~ Valid(t)',
         NEW x, request' \subseteq request \/ (request' \subseteq request \cup {x} /\ x \in Request /\ Answered(x)')
  PROVE  request' \subseteq Request /\ (\A y \in request : Answered(y))'
<1>1. ASSUME NEW r \in request PROVE r \in Request /\ Answered(r)'
  <2>1. r \in Request /\ Answered(r)
    BY DEF SessionInv, SessionTyped
  <2> QED BY <2>1 DEF Answered, Excused
<1> QED BY <1>1

LEMMA SendingFits ==
  ASSUME SessionTyped, NEW t \in Tabs, NEW kind \in Kinds, NEW carried \in Token \cup {NoToken}
  PROVE  LET x == Sending(t, kind, carried) IN
         x \in Request /\ x.answer = "sent" /\ x.token = carried /\ x.kind = kind /\ x.user = tab[t].user
<1>1. tab[t].user \in Roles \cup {"NONE"}
  BY DEF SessionTyped, Tab
<1>2. "sent" \in Answers /\ NoToken \in Token \cup Shows
  BY NoTokenNone DEF Answers, Pending
<1> QED BY <1>1, <1>2 DEF Sending, Request

\* The same when a tab is opened, and shows no user.
LEMMA OpeningFits ==
  ASSUME SessionTyped, NEW t \in Tabs, NEW carried \in Token \cup {NoToken}
  PROVE  LET x == [Sending(t, "restore", carried) EXCEPT !.user = "NONE"] IN
         x \in Request /\ x.answer = "sent" /\ x.token = carried /\ x.kind = "restore"
<1>1. "sent" \in Answers /\ "restore" \in Kinds /\ NoToken \in Token \cup Shows
  BY NoTokenNone DEF Answers, Pending, Kinds
<1> QED BY <1>1 DEF Sending, Request

\* Every answer is one that the backend may give.
Served(r, answer, body) ==
  /\ answer \in Answers \ {"sent"} /\ body \in Token \cup Shows
  /\ r.kind \in {"restore", "me"} /\ answer = "ok" => body.role \in Roles
  /\ r.kind = "login" /\ answer = "ok" => body \in token'
  /\ r.kind # "login" /\ answer = "401" => ~ Authenticated(r)
  /\ answer = "passed" => /\ r.kind = "page" /\ r.token \in token
                          /\ body.call \in Rereading /\ GuardLetsThrough(r.token.role, body.call)
  /\ answer \in Forbidden => r.token \in token /\ Excused([r EXCEPT !.answer = answer])

LEMMA ExcusedAnswer ==
  ASSUME NEW r \in Request, NEW answer
  PROVE  Excused([r EXCEPT !.answer = answer]) <=>
           \/ r.user # r.token.role
           \/ ~ Valid(r.token) /\ answer \in {"403 actor", "403 teacher"}
           \/ r.user = "TEACHER" /\ answer = "403 teacher"
           \/ r.user = "ALUNO" /\ answer \in {"403 student", "403 operation"}
<1> DEFINE x == [r EXCEPT !.answer = answer]
<1>1. x.answer = answer /\ x.user = r.user /\ x.token = r.token
  BY DEF Request
<1> QED BY <1>1 DEF Excused

LEMMA ServedStep ==
  ASSUME SessionInv, NEW r \in request, NEW answer, NEW body, Served(r, answer, body),
         Replies(r, answer, body), token \subseteq token', token' \subseteq Token, NoneAhead',
         UNCHANGED <<user, stored, tab, opened>>
  PROVE  SessionInv'
<1>0. PICK x : x = [r EXCEPT !.answer = answer, !.body = body]
  OBVIOUS
<1>1. r \in Request /\ Answered(r)
  BY DEF SessionInv, SessionTyped
<1>2. x \in Request /\ x.answer = answer /\ x.body = body /\ x.kind = r.kind /\ x.token = r.token /\ x.user = r.user
  <2>1. answer \in Answers /\ body \in Token \cup Shows
    BY DEF Served, Answers
  <2> QED BY <1>0, <1>1, <2>1 DEF Request
<1>3. request' \subseteq request \cup {x}
  BY <1>0 DEF Replies, Reply
<1>4. \A t : Valid(t)' <=> Valid(t)
  BY DEF Valid, AccountRows
<1>5. Answered(x)'
  <2>1. answer \in Forbidden =>
          /\ r.token \in token
          /\ \/ r.user # r.token.role
             \/ ~ Valid(r.token) /\ answer \in {"403 actor", "403 teacher"}
             \/ r.user = "TEACHER" /\ answer = "403 teacher"
             \/ r.user = "ALUNO" /\ answer \in {"403 student", "403 operation"}
    BY <1>1, ExcusedAnswer DEF Served
  <2>2. x.answer \in Forbidden => x.token \in token' /\ Excused(x)'
    BY <1>2, <1>4, <2>1 DEF Excused
  <2>3. x.answer = "passed" => /\ x.kind = "page" /\ x.token \in token' /\ x.body.call \in Rereading
                              /\ GuardLetsThrough(x.token.role, x.body.call)
    BY <1>2 DEF Served
  <2>4. /\ x.token \in token' \cup {NoToken}
        /\ x.kind \in {"restore", "me"} /\ x.answer = "ok" => x.body.role \in Roles
        /\ x.kind = "login" /\ x.answer = "ok" => x.body \in token'
        /\ x.kind # "login" /\ x.answer = "401" => x.token = NoToken \/ ~ Valid(x.token)'
        /\ x.kind = "page" => x.user # "NONE"
    BY <1>1, <1>2, <1>4 DEF Answered, Served, Authenticated
  <2> QED BY <2>2, <2>3, <2>4 DEF Answered
<1>6. request' \subseteq Request /\ (\A y \in request : Answered(y))'
  <2>1. \A t \in token : ~ Valid(t) => ~ Valid(t)'
    BY <1>4
  <2> QED BY <1>2, <1>3, <1>5, <2>1, RequestsStay
<1>7. SessionTyped'
  BY <1>6 DEF SessionInv, SessionTyped
<1> QED BY <1>6, <1>7 DEF SessionInv

\* Behind the guards only teachers are refused for their classes, and only students
\* for their standing.
LEMMA VerdictReasons ==
  ASSUME NEW role, NEW handler, NEW answer \in Verdicts(role, handler),
         GuardLetsThrough(role, handler) \/ handler \in Rereading
  PROVE  /\ answer \in {"ok", "403 teacher", "403 student", "403 operation"}
         /\ answer = "403 teacher" => role = "TEACHER"
         /\ answer \in {"403 student", "403 operation"} => role = "ALUNO" /\ handler \notin Rereading
<1>1. \A h \in Rereading : h[1] # "me"
  BY DEF Rereading, Of
<1>2. CASE handler[1] = "me"
  <2>1. role = "ALUNO"
    BY <1>1, <1>2, RoutesOf DEF GuardLetsThrough, MeRoutes, Open, Students
  <2>2. PICK standing \in Standings : answer = MeAnswer(standing, handler[2])
    BY <1>2 DEF Verdicts
  <2>3. answer \in {"ok", "403 student", "403 operation"}
    BY <2>2 DEF MeAnswer
  <2> QED BY <1>1, <1>2, <2>1, <2>3
<1>3. CASE handler[1] # "me"
  BY <1>3 DEF Verdicts
<1> QED BY <1>2, <1>3

\* A call of a page is let through, answered, or refused for a reason.
ServedPage(r, answer, body) ==
  \/ answer = "ok" /\ body = NoToken
  \/ /\ answer = "passed" /\ body \in [call : Rereading]
     /\ GuardLetsThrough(r.token.role, body.call)
  \/ /\ answer \in Forbidden /\ body = NoToken
     /\ Excused([r EXCEPT !.answer = answer])

LEMMA PageServed ==
  ASSUME SessionInv, NEW r \in request, ServePage(r), Authenticated(r)
  PROVE  \E answer, body : ServedPage(r, answer, body) /\ Replies(r, answer, body)
<1>1. r \in Request /\ r.user \in AllRoles
  BY SessionAssumption DEF SessionInv, SessionTyped, ServePage, Answered, Request
<1>2. PICK handler \in CallsShownTo(r.user) :
        IF ~ GuardLetsThrough(r.token.role, handler) THEN Replies(r, "403 role", NoToken)
        ELSE IF handler \in Rereading THEN Replies(r, "passed", [call |-> handler])
        ELSE \E answer \in Verdicts(r.token.role, handler) : Replies(r, answer, NoToken)
  BY DEF ServePage
<1>3. CASE ~ GuardLetsThrough(r.token.role, handler)
  <2>1. r.user # r.token.role
    BY <1>1, <1>2, <1>3, ShownCallsPass DEF Passes
  <2>2. ServedPage(r, "403 role", NoToken)
    BY <1>1, <2>1, ExcusedAnswer DEF ServedPage, Forbidden
  <2> QED BY <1>2, <1>3, <2>2
<1>4. CASE GuardLetsThrough(r.token.role, handler) /\ handler \in Rereading
  <2>1. ServedPage(r, "passed", [call |-> handler])
    BY <1>4 DEF ServedPage
  <2> QED BY <1>2, <1>4, <2>1
<1>5. CASE GuardLetsThrough(r.token.role, handler) /\ handler \notin Rereading
  <2>1. PICK role, answer : /\ role = r.token.role /\ GuardLetsThrough(role, handler)
                            /\ answer \in Verdicts(role, handler) /\ Replies(r, answer, NoToken)
    BY <1>2, <1>5
  <2>2. /\ answer \in {"ok", "403 teacher", "403 student", "403 operation"}
        /\ answer = "403 teacher" => role = "TEACHER"
        /\ answer \in {"403 student", "403 operation"} => role = "ALUNO" /\ handler \notin Rereading
    BY <2>1, VerdictReasons, Zenon
  <2>3. answer # "ok" => Excused([r EXCEPT !.answer = answer])
    BY <1>1, <2>1, <2>2, ExcusedAnswer
  <2>4. ServedPage(r, answer, NoToken)
    BY <2>2, <2>3 DEF ServedPage, Forbidden
  <2> QED BY <2>1, <2>4
<1> QED BY <1>3, <1>4, <1>5

\* An account that is refused when it is read again is no longer what the token says.
LEMMA PageAnswered ==
  ASSUME SessionInv, NEW r \in request, AnswerPage(r)
  PROVE  \E answer \in {"ok", "403 actor", "403 teacher"} :
           Replies(r, answer, NoToken) /\ (answer # "ok" => Excused([r EXCEPT !.answer = answer]))
<1> DEFINE handler == r.body.call
           row == user[r.token.sub]
           known == /\ r.token.sub \in AccountRows /\ row.active
                    /\ handler[1] = "graduations" => GuardLetsThrough(row.role, handler)
<1>1. r \in Request /\ handler \in Rereading /\ GuardLetsThrough(r.token.role, handler)
  BY DEF SessionInv, SessionTyped, AnswerPage, Answered
<1>2. Valid(r.token) => known /\ r.token.role = row.role
  BY <1>1 DEF Valid
<1>3. CASE ~ known
  <2>1. Replies(r, "403 actor", NoToken)
    BY <1>3 DEF AnswerPage
  <2>2. Excused([r EXCEPT !.answer = "403 actor"])
    BY <1>1, <1>2, <1>3, ExcusedAnswer
  <2> QED BY <2>1, <2>2
<1>4. CASE known
  <2>1. PICK role \in {r.token.role, row.role} :
          \E answer \in Verdicts(role, handler) : Replies(r, answer, NoToken)
    BY <1>4 DEF AnswerPage
  <2>2. PICK answer \in Verdicts(role, handler) : Replies(r, answer, NoToken)
    BY <2>1
  <2> HIDE DEF handler, row, known
  <2>3. answer \in {"ok", "403 teacher"} /\ (answer = "403 teacher" => role = "TEACHER")
    BY <1>1, VerdictReasons
  <2>4. answer # "ok" => Excused([r EXCEPT !.answer = answer])
    BY <1>1, <1>2, <2>1, <2>3, ExcusedAnswer
  <2> QED BY <2>2, <2>3, <2>4
<1> QED BY <1>3, <1>4

LEMMA BackendStep ==
  ASSUME SessionInv, Backend
  PROVE  SessionInv'
<1>1. PICK r \in request : \/ ServeMe(r) \/ ServePage(r) \/ AnswerPage(r) \/ LoseRequest(r)
                           \/ \E u \in AccountIds, p \in Passwords : ServeLogin(r, u, p)
  BY DEF Backend
<1> DEFINE Served1 == \E answer, body : Served(r, answer, body) /\ Replies(r, answer, body)
<1>2. SessionTyped /\ NoneAhead /\ r \in Request /\ Answered(r)
  BY DEF SessionInv, SessionTyped
<1>3. NoToken \in Token \cup Shows
  BY NoTokenNone
<1>4. CASE ServeMe(r)
  <2>1. Served1
    <3>1. CASE Authenticated(r)
      <4>1. r.token \in Token /\ r.token.sub \in AccountRows
        BY <1>2, <3>1 DEF Authenticated, Valid, Request
      <4>2. user[r.token.sub].role \in Roles
        BY <1>2, <4>1, RowsAreUsers DEF Token, User
      <4>3. Replies(r, "ok", [role |-> user[r.token.sub].role])
        BY <1>4, <3>1 DEF ServeMe
      <4>4. Served(r, "ok", [role |-> user[r.token.sub].role])
        BY <1>4, <4>2 DEF ServeMe, Served, Shows, Answers, Forbidden, Pending
      <4> QED BY <4>3, <4>4
    <3>2. CASE ~ Authenticated(r)
      <4>1. Replies(r, "401", NoToken) /\ Served(r, "401", NoToken)
        BY <1>3, <1>4, <3>2 DEF ServeMe, Served, Answers, Forbidden, Pending
      <4> QED BY <4>1
    <3> QED BY <3>1, <3>2
  <2>2. token' = token /\ UNCHANGED <<user, stored, tab, opened>>
    BY <1>4 DEF ServeMe, accountVars
  <2>3. NoneAhead'
    BY <1>2, <2>2 DEF NoneAhead, Behind
  <2> HIDE DEF Served1
  <2> QED BY <1>2, <2>1, <2>2, <2>3, ServedStep DEF Served1, SessionTyped
<1>5. CASE ServePage(r) \/ AnswerPage(r) \/ LoseRequest(r)
  <2>1. Served1
    <3>1. CASE LoseRequest(r)
      <4>1. Replies(r, "failed", NoToken) /\ Served(r, "failed", NoToken)
        BY <1>3, <3>1 DEF LoseRequest, Served, Answers, Forbidden, Pending
      <4> QED BY <4>1
    <3>2. CASE ServePage(r) /\ ~ Authenticated(r)
      <4>1. Replies(r, "401", NoToken) /\ Served(r, "401", NoToken)
        BY <1>3, <3>2 DEF ServePage, Served, Answers, Forbidden, Pending
      <4> QED BY <4>1
    <3>3. CASE ServePage(r) /\ Authenticated(r)
      <4>1. PICK answer, body : ServedPage(r, answer, body) /\ Replies(r, answer, body)
        BY <1>2, <3>3, PageServed
      <4>2. Served(r, answer, body)
        BY <1>2, <3>3, <4>1, NoTokenNone
           DEF ServedPage, Served, ServePage, Authenticated, Answered, Answers, Forbidden, Pending, Shows
      <4> QED BY <4>1, <4>2
    <3>4. CASE AnswerPage(r)
      <4>1. PICK answer : /\ answer \in {"ok", "403 actor", "403 teacher"} /\ Replies(r, answer, NoToken)
                          /\ answer # "ok" => Excused([r EXCEPT !.answer = answer])
        BY <1>2, <3>4, PageAnswered
      <4>2. r.kind = "page" /\ r.token \in token
        BY <1>2, <3>4 DEF AnswerPage, Answered
      <4>3. Served(r, answer, NoToken)
        BY <1>3, <4>1, <4>2 DEF Served, Answers, Forbidden, Pending
      <4> QED BY <4>1, <4>3
    <3> QED BY <1>5, <3>1, <3>2, <3>3, <3>4
  <2>2. token' = token /\ UNCHANGED <<user, stored, tab, opened>>
    BY <1>5 DEF ServePage, AnswerPage, LoseRequest, accountVars
  <2>3. NoneAhead'
    BY <1>2, <2>2 DEF NoneAhead, Behind
  <2> HIDE DEF Served1
  <2> QED BY <1>2, <2>1, <2>2, <2>3, ServedStep DEF Served1, SessionTyped
<1>6. ASSUME NEW u \in AccountIds, NEW p \in Passwords, ServeLogin(r, u, p)
      PROVE  SessionInv'
  <2> DEFINE opening == [sub |-> u, role |-> user[u].role, version |-> user[u].version, password |-> p]
             known == u \in AccountRows /\ user[u].active /\ user[u].password = p
  <2>1. CASE known
    <3>1. user[u] \in User
      BY <1>2, <2>1, RowsAreUsers
    <3>2. opening \in Token /\ opening.sub = u /\ opening.version = user[u].version
      BY <3>1 DEF Token, User
    <3>3. /\ token' = token \cup {opening} /\ Replies(r, "ok", opening) /\ r.kind = "login"
          /\ UNCHANGED <<user, stored, tab, opened>>
      BY <1>6, <2>1 DEF ServeLogin
    <3> HIDE DEF opening
    <3>4. NoneAhead'
      BY <1>2, <3>1, <3>2, <3>3 DEF NoneAhead, Behind, User
    <3>5. Served(r, "ok", opening)
      BY <3>2, <3>3 DEF Served, Answers, Forbidden, Pending
    <3>6. token \subseteq token' /\ token' \subseteq Token
      BY <1>2, <3>2, <3>3 DEF SessionTyped
    <3> QED BY <3>3, <3>4, <3>5, <3>6, ServedStep
  <2>2. CASE ~ known
    <3>1. /\ token' = token /\ Replies(r, "401", NoToken) /\ r.kind = "login"
          /\ UNCHANGED <<user, stored, tab, opened>>
      BY <1>6, <2>2 DEF ServeLogin
    <3>2. NoneAhead'
      BY <1>2, <3>1 DEF NoneAhead, Behind
    <3>3. Served(r, "401", NoToken)
      BY <1>3, <3>1 DEF Served, Answers, Forbidden, Pending
    <3> QED BY <1>2, <3>1, <3>2, <3>3, ServedStep DEF SessionTyped
  <2> QED BY <2>1, <2>2
<1> QED BY <1>1, <1>4, <1>5, <1>6

-----------------------------------------------------------------------------
(* The tabs *)

\* A step of the tabs leaves the accounts alone, and sends at most one request.
LEMMA TabsStep ==
  ASSUME SessionInv, UNCHANGED accountVars, stored' \in token \cup {NoToken}, tab' \in [Tabs -> Tab],
         opened' \in 0..MaxOpenings,
         NEW x, \/ request' \subseteq request
                \/ request' \subseteq request \cup {x} /\ x \in Request /\ x.answer = "sent"
                     /\ x.token \in token \cup {NoToken} /\ (x.kind = "page" => x.user # "NONE")
  PROVE  SessionInv'
<1>1. UNCHANGED <<user, token>>
  BY DEF accountVars
<1>2. \A t : Valid(t)' <=> Valid(t)
  BY <1>1 DEF Valid, AccountRows
<1>3. request' \subseteq request \/ (request' \subseteq request \cup {x} /\ x \in Request /\ Answered(x)')
  BY <1>1 DEF Answered, Forbidden
<1>4. request' \subseteq Request /\ (\A y \in request : Answered(y))'
  <2>1. token \subseteq token' /\ \A t \in token : ~ Valid(t) => ~ Valid(t)'
    BY <1>1, <1>2
  <2> QED BY <1>3, <2>1, RequestsStay
<1>5. NoneAhead'
  BY <1>1 DEF SessionInv, NoneAhead, Behind
<1>6. SessionTyped'
  BY <1>1, <1>4 DEF SessionInv, SessionTyped
<1> QED BY <1>4, <1>5, <1>6 DEF SessionInv

LEMMA OneTabSet ==
  ASSUME tab \in [Tabs -> Tab], NEW t \in Tabs, NEW shown \in Tab
  PROVE  [tab EXCEPT ![t] = shown] \in [Tabs -> Tab]
  OBVIOUS

LEMMA TabActions ==
  ASSUME SessionInv, NEW t \in Tabs, OpenTab(t) \/ SubmitLogin(t) \/ CallFromPage(t) \/ Logout(t)
  PROVE  SessionInv'
<1>1. /\ SessionTyped /\ tab \in [Tabs -> Tab] /\ stored \in token \cup {NoToken} /\ token \subseteq Token
      /\ opened \in 0..MaxOpenings /\ tab[t].user \in Roles \cup {"NONE"} /\ tab[t].phase \in Phases
  BY DEF SessionInv, SessionTyped, Tab
<1>2. CASE OpenTab(t)
  <2> DEFINE x == [Sending(t, "restore", stored) EXCEPT !.user = "NONE"]
  <2>1. x \in Request /\ x.answer = "sent" /\ x.token = stored /\ x.kind = "restore"
    <3>1. stored \in Token \cup {NoToken}
      BY <1>1
    <3> QED BY <1>1, <3>1, OpeningFits
  <2>2. request' \subseteq request \/ request' \subseteq request \cup {x}
    BY <1>2 DEF OpenTab
  <2> HIDE DEF x
  <2>3. PICK phase \in {"ready", "initializing"} : tab' = [tab EXCEPT ![t] = [user |-> "NONE", phase |-> phase]]
    BY <1>2 DEF OpenTab
  <2>4. [user |-> "NONE", phase |-> phase] \in Tab
    BY DEF Tab, Phases
  <2>5. tab' \in [Tabs -> Tab]
    BY <1>1, <2>3, <2>4, OneTabSet
  <2>6. UNCHANGED <<accountVars, stored>>
    BY <1>2 DEF OpenTab
  <2>7. opened' \in 0..MaxOpenings
    <3>1. opened < MaxOpenings /\ opened' = opened + 1 /\ opened \in Nat /\ MaxOpenings \in Int
      BY <1>1, <1>2, SessionAssumption DEF OpenTab
    <3> QED BY <3>1
  <2> QED BY <1>1, <2>1, <2>2, <2>5, <2>6, <2>7, TabsStep
<1>3. ASSUME NEW kind \in {"login", "page"}, NEW phase \in Phases,
             tab' = [tab EXCEPT ![t].phase = phase] \/ UNCHANGED tab,
             request' = request \cup {Sending(t, kind, stored)}, UNCHANGED <<accountVars, stored, opened>>,
             kind = "page" => tab[t].user # "NONE"
      PROVE  SessionInv'
  <2> DEFINE x == Sending(t, kind, stored)
  <2>1. x \in Request /\ x.answer = "sent" /\ x.token = stored /\ (x.kind = "page" => x.user # "NONE")
    <3>1. kind \in Kinds /\ stored \in Token \cup {NoToken}
      BY <1>1 DEF Kinds
    <3> QED BY <1>1, <1>3, <3>1, SendingFits
  <2>2. request' \subseteq request \cup {x}
    BY <1>3
  <2> HIDE DEF x
  <2>3. tab' \in [Tabs -> Tab]
    BY <1>1, <1>3 DEF Tab
  <2> QED BY <1>1, <1>3, <2>1, <2>2, <2>3, TabsStep
<1>4. CASE SubmitLogin(t)
  <2>1. /\ tab' = [tab EXCEPT ![t].phase = "submitting"] /\ request' = request \cup {Sending(t, "login", stored)}
        /\ UNCHANGED <<accountVars, stored, opened>> /\ "submitting" \in Phases
    BY <1>4 DEF SubmitLogin, Phases
  <2> QED BY <1>3, <2>1
<1>5. CASE CallFromPage(t)
  <2>1. /\ UNCHANGED tab /\ request' = request \cup {Sending(t, "page", stored)}
        /\ UNCHANGED <<accountVars, stored, opened>> /\ "ready" \in Phases /\ tab[t].user # "NONE"
    BY <1>5 DEF CallFromPage, Phases
  <2> QED BY <1>3, <2>1
<1>6. CASE Logout(t)
  <2>1. /\ stored' = NoToken /\ tab' = [tab EXCEPT ![t].user = "NONE"] /\ request' \subseteq request
        /\ UNCHANGED <<accountVars, opened>>
    BY <1>6 DEF Logout
  <2>2. tab' \in [Tabs -> Tab]
    BY <1>1, <2>1 DEF Tab
  <2> QED BY <1>1, <2>1, <2>2, TabsStep
<1> QED BY <1>2, <1>4, <1>5, <1>6

LEMMA ReceiveAnswerStep ==
  ASSUME SessionInv, NEW r \in request, ReceiveAnswer(r)
  PROVE  SessionInv'
<1>1. /\ SessionTyped /\ r \in Request /\ Answered(r) /\ tab \in [Tabs -> Tab] /\ token \subseteq Token
      /\ stored \in token \cup {NoToken} /\ opened \in 0..MaxOpenings
  BY DEF SessionInv, SessionTyped
<1> DEFINE entered == r.kind = "login" /\ r.answer = "ok"
<1>2. r.tab \in Tabs /\ tab[r.tab] \in Tab
  BY <1>1 DEF Request
<1>3. AfterAnswer(r.tab, r) \in Tab
  <2> DEFINE left == [tab[r.tab] EXCEPT !.user = "NONE"]
  <2>1. left \in Tab
    BY <1>2 DEF Tab
  <2>2. [user |-> "NONE", phase |-> "ready"] \in Tab
    BY DEF Tab, Phases
  <2>3. r.kind \in {"restore", "me"} /\ r.answer = "ok" => [user |-> r.body.role, phase |-> "ready"] \in Tab
    BY <1>1 DEF Answered, Tab, Phases
  <2> QED BY <1>2, <2>1, <2>2, <2>3 DEF AfterAnswer
<1>4. tab' \in [Tabs -> Tab]
  BY <1>1, <1>2, <1>3, OneTabSet DEF ReceiveAnswer
<1>5. CASE entered
  <2> DEFINE x == Sending(r.tab, "me", r.body)
  <2>1. r.body \in token
    BY <1>1, <1>5 DEF Answered
  <2>2. x \in Request /\ x.answer = "sent" /\ x.token = r.body /\ x.kind = "me"
    <3>1. "me" \in Kinds /\ r.body \in Token \cup {NoToken}
      BY <1>1, <2>1 DEF Kinds
    <3> QED BY <1>1, <1>2, <3>1, SendingFits
  <2>3. stored' = r.body /\ request' \subseteq request \cup {x} /\ UNCHANGED <<accountVars, opened>>
    BY <1>5 DEF ReceiveAnswer
  <2> HIDE DEF x
  <2> QED BY <1>1, <1>4, <2>1, <2>2, <2>3, TabsStep
<1>6. CASE ~ entered
  <2>1. stored' \in {stored, NoToken} /\ request' \subseteq request /\ UNCHANGED <<accountVars, opened>>
    BY <1>6 DEF ReceiveAnswer
  <2> QED BY <1>1, <1>4, <2>1, TabsStep
<1> QED BY <1>5, <1>6

-----------------------------------------------------------------------------
(* The accounts behind the session *)

LEMMA AccountsMove ==
  ASSUME SessionInv,
         \E u \in AccountIds : (\E change \in Changes : ChangeAccount(u, change)) \/ DeleteAccount(u)
  PROVE  SessionInv'
<1>1. UNCHANGED <<token, login, update, webVars>>
  BY DEF ChangeAccount, DeleteAccount
<1>2. UNCHANGED <<token, stored, tab, request, opened>>
  BY <1>1 DEF webVars
<1>3. /\ user' \in [AccountIds -> User \cup {Missing, Removed}]
      /\ NoneAhead' /\ \A t \in token : ~ Valid(t) => ~ Valid(t)'
  BY <1>2, DeadStayDead DEF SessionInv
<1>4. request' \subseteq Request /\ (\A y \in request : Answered(y))'
  BY <1>2, <1>3, RequestsStay
<1>5. SessionTyped'
  BY <1>2, <1>3, <1>4 DEF SessionInv, SessionTyped
<1> QED BY <1>3, <1>4, <1>5 DEF SessionInv

LEMMA SessionStep ==
  ASSUME SessionInv, [WebNext]_sessionVars
  PROVE  SessionInv'
<1>1. CASE UNCHANGED sessionVars
  <2>1. UNCHANGED <<accountVars, stored, tab, request, opened>>
    BY <1>1 DEF sessionVars, webVars
  <2> QED BY <2>1, TabsStep DEF SessionInv, SessionTyped
<1>2. CASE WebNext
  BY <1>2, TabActions, ReceiveAnswerStep, BackendStep, AccountsMove DEF WebNext
<1> QED BY <1>1, <1>2

LEMMA SessionInitially == WebInit => SessionInv
<1> SUFFICES ASSUME WebInit PROVE SessionInv
  OBVIOUS
<1>1. user \in [AccountIds -> User \cup {Missing, Removed}] /\ token = {}
  BY DEF WebInit, AccountsInit, OldAccount
<1>2. stored = NoToken /\ tab = [t \in Tabs |-> Closed] /\ request = {} /\ opened = 0
  BY DEF WebInit
<1>3. Closed \in Tab
  BY DEF Closed, Tab, Phases
<1>4. 0 \in 0..MaxOpenings
  BY SessionAssumption
<1> QED BY <1>1, <1>2, <1>3, <1>4 DEF SessionInv, SessionTyped, NoneAhead

\* Whatever the tabs, the backend and the administration do, the session stays in order.
THEOREM SessionInvariant == WebSpec => []SessionInv
  BY SessionInitially, SessionStep, PTL DEF WebSpec

\* The stored token and those of the requests were signed; tabs and requests have the
\* types of the code.
THEOREM SessionTypes == WebSpec => []WebTypeOK
<1>1. SessionInv => WebTypeOK
  BY DEF SessionInv, SessionTyped, WebTypeOK, Tab, Request, Answered
<1> QED BY <1>1, SessionInvariant, PTL

\* A call of a page is refused only if the token is not that of the user shown, if it
\* died while the call was under way, to a teacher for classes of others, or to a student
\* for the own standing.
THEOREM SessionPagesPass == WebSpec => []ForbiddenHasAReason
<1>1. SessionInv => ForbiddenHasAReason
  BY DEF SessionInv, Answered, ForbiddenHasAReason
<1> QED BY <1>1, SessionInvariant, PTL

\* A token that an answer removes is dead.
THEOREM SessionForgetsTheDead == WebSpec => OnlyDeadTokensForgotten
<1> DEFINE Dead == \A r \in request :
                     /\ r \notin request' /\ r.answer = "401" /\ r.kind # "login"
                     /\ stored # NoToken /\ r.token = stored /\ stored' = NoToken
                     => ~ Valid(stored)
<1>1. ASSUME SessionInv PROVE Dead
  BY <1>1 DEF SessionInv, Answered
<1>2. SessionInv /\ [WebNext]_sessionVars => [Dead]_sessionVars
  BY <1>1
<1> HIDE DEF Dead
<1>3. WebSpec => [][Dead]_sessionVars
  BY <1>2, SessionInvariant, PTL DEF WebSpec
<1> QED BY <1>3 DEF Dead, OnlyDeadTokensForgotten

-----------------------------------------------------------------------------
(* The reports *)

\* What the form of a report may hold, and the searches that are made with it.
Form(kind) ==
  {f \in [Fields[kind] -> UNION {Values[field] \cup {Unset(field)} : field \in Fields[kind]}] :
     \A field \in Fields[kind] : f[field] \in Values[field] \cup {Unset(field)}}
Search(kind) == [values : Form(kind), page : Nat \ {0}, walk : SUBSET Form(kind)]

\* A page that is asked for is the first, or one of those counted on the way to it.
Counted(s) == s.page = 1 \/ \E f \in s.walk : s.page <= TotalPages(Total(report, f))

\* The panel shows nothing yet, an error, or the answer to a search that could be made.
ReportsInv ==
  /\ report \in Reports /\ filters \in Form(report)
  /\ searches \in Seq(Search(report)) /\ \A i \in DOMAIN searches : Counted(searches[i])
  /\ \/ result = Showing("loading") /\ searches # <<>>
     \/ result = Showing("error")
     \/ \E s \in Search(report) : Counted(s) /\ ~ Reversed(s.values) /\ result = Answer(s)

-----------------------------------------------------------------------------
(* What the pages of a report hold *)

LEMMA TotalNat ==
  ASSUME NEW kind \in Reports, NEW f
  PROVE  Total(kind, f) \in Nat
<1> DEFINE S == {row \in ReportRows[kind] : Where(kind, row, f)}
<1>1. IsFiniteSet(S)
  BY FS_Subset, ReportsAssumption
<1> QED BY <1>1, FS_CardinalityType DEF Total

\* There are rows on each page that is counted.
LEMMA PagesCounted ==
  ASSUME NEW total \in Nat, NEW page \in Nat \ {0}, page = 1 \/ page <= TotalPages(total), total # 0
  PROVE  total - (page - 1) * PageSize >= 1
<1> DEFINE d == PageSize  q == (total + d - 1) \div d
<1>1. d \in Nat \ {0}
  BY ReportsAssumption
<1>2. CASE page = 1
  <2>1. (page - 1) * d = 0
    BY <1>1, <1>2
  <2> QED BY <2>1
<1>3. CASE page <= TotalPages(total)
  <2>1. total + d - 1 \in Nat
    BY <1>1
  <2>2. q \in Int /\ q * d <= total + d - 1
    BY <1>1, <2>1
  <2>3. page <= q
    BY <1>3 DEF TotalPages
  <2> HIDE DEF d, q
  <2>4. page * d <= q * d
    BY <1>1, <2>2, <2>3
  <2>5. (page - 1) * d = page * d - d
    BY <1>1
  <2>6. page * d \in Int /\ q * d \in Int
    BY <1>1, <2>2
  <2> QED BY <1>1, <2>2, <2>4, <2>5, <2>6 DEF d
<1> QED BY <1>2, <1>3

LEMMA SomethingTaken ==
  ASSUME NEW total \in Nat, NEW page \in Nat, total - (page - 1) * PageSize >= 1
  PROVE  Taken(total, page) # 0
<1> DEFINE left == total - (page - 1) * PageSize
<1>1. PageSize \in Nat \ {0} /\ left \in Int /\ left >= 1
  BY ReportsAssumption
<1> HIDE DEF left
<1>2. Max({0, left}) = left
  BY <1>1 DEF Max
<1>3. Min({PageSize, left}) \in {PageSize, left}
  BY <1>1 DEF Min
<1> QED BY <1>1, <1>2, <1>3 DEF Taken, left

\* A search is taken from among those under way.
LEMMA OneRemoved ==
  ASSUME NEW S, NEW s \in Seq(S), NEW i \in DOMAIN s
  PROVE  /\ RemoveAt(s, i) \in Seq(S) /\ Len(RemoveAt(s, i)) = Len(s) - 1
         /\ \A j \in DOMAIN RemoveAt(s, i) : \E k \in DOMAIN s : RemoveAt(s, i)[j] = s[k]
<1> DEFINE a == SubSeq(s, 1, i - 1)  b == SubSeq(s, i + 1, Len(s))
<1>1. Len(s) \in Nat /\ i \in 1..Len(s) /\ DOMAIN s = 1..Len(s)
  BY LenProperties
<1>2. /\ a \in Seq(S) /\ Len(a) = i - 1 /\ \A j \in 1..(i - 1) : a[j] = s[j]
  <2>1. \A j \in 1..(i - 1) : s[j] \in S
    BY <1>1, ElementOfSeq
  <2>2. a \in Seq(S) /\ Len(a) = (IF 1 <= i - 1 THEN i - 1 - 1 + 1 ELSE 0)
        /\ \A j \in 1..(i - 1 - 1 + 1) : a[j] = s[1 + j - 1]
    BY <1>1, <2>1, SubSeqProperties
  <2> QED BY <1>1, <2>2
<1>3. /\ b \in Seq(S) /\ Len(b) = Len(s) - i /\ \A j \in 1..(Len(s) - i) : b[j] = s[i + j]
  <2>1. \A j \in (i + 1)..Len(s) : s[j] \in S
    BY <1>1, ElementOfSeq
  <2>2. b \in Seq(S) /\ Len(b) = (IF i + 1 <= Len(s) THEN Len(s) - (i + 1) + 1 ELSE 0)
        /\ \A j \in 1..(Len(s) - (i + 1) + 1) : b[j] = s[i + 1 + j - 1]
    BY <1>1, <2>1, SubSeqProperties
  <2> QED BY <1>1, <2>2
<1> HIDE DEF a, b
<1>4. /\ a \o b \in Seq(S) /\ Len(a \o b) = Len(a) + Len(b)
      /\ \A j \in 1..(Len(a) + Len(b)) : (a \o b)[j] = IF j <= Len(a) THEN a[j] ELSE b[j - Len(a)]
  BY <1>2, <1>3, ConcatProperties
<1>5. Len(a \o b) = Len(s) - 1 /\ DOMAIN (a \o b) = 1..(Len(s) - 1)
  <2>1. Len(a \o b) = Len(s) - 1
    BY <1>1, <1>2, <1>3, <1>4
  <2> QED BY <1>4, <2>1, LenProperties
<1>6. ASSUME NEW j \in 1..(Len(s) - 1) PROVE \E k \in DOMAIN s : (a \o b)[j] = s[k]
  <2>1. CASE j <= i - 1
    BY <1>1, <1>2, <1>3, <1>4, <2>1
  <2>2. CASE ~ (j <= i - 1)
    <3>1. j - (i - 1) \in 1..(Len(s) - i) /\ j + 1 \in DOMAIN s
      BY <1>1, <2>2
    <3>2. (a \o b)[j] = b[j - (i - 1)]
      BY <1>1, <1>2, <1>3, <1>4, <2>2
    <3>3. b[j - (i - 1)] = s[i + (j - (i - 1))] /\ i + (j - (i - 1)) = j + 1
      BY <1>1, <1>3, <3>1
    <3> QED BY <3>1, <3>2, <3>3
  <2> QED BY <2>1, <2>2
<1>7. RemoveAt(s, i) = a \o b
  BY DEF RemoveAt, a, b
<1> QED BY <1>4, <1>5, <1>6, <1>7

-----------------------------------------------------------------------------
(* The steps of the panel *)

LEMMA InitialForm == \A kind \in Reports : Initial(kind) \in Form(kind)
  BY DEF Initial, Form

\* Another search is under way: it asks for a page that may be asked for.
LEMMA ExecuteStep ==
  ASSUME ReportsInv, NEW values \in Form(report), NEW page \in Nat \ {0}, NEW walk \in SUBSET Form(report),
         Counted([values |-> values, page |-> page, walk |-> walk]),
         filters' \in Form(report), Execute(values, page, walk)
  PROVE  ReportsInv' /\ Last(searches').values = values
<1> DEFINE s == [values |-> values, page |-> page, walk |-> walk]
<1>1. s \in Search(report) /\ s.values = values
  BY DEF Search
<1>2. searches' = Append(searches, s) /\ result' = Showing("loading") /\ report' = report
  BY DEF Execute
<1>3. Counted(s)
  OBVIOUS
<1> HIDE DEF s
<1>4. searches \in Seq(Search(report)) /\ Len(searches) \in Nat
  BY LenProperties DEF ReportsInv
<1>5. /\ searches' \in Seq(Search(report)) /\ searches' # <<>> /\ Len(searches') = Len(searches) + 1
      /\ \A i \in 1..Len(searches) : searches'[i] = searches[i]
      /\ searches'[Len(searches) + 1] = s
  BY <1>1, <1>2, <1>4, AppendProperties
<1>6. DOMAIN searches' = 1..(Len(searches) + 1) /\ DOMAIN searches = 1..Len(searches)
  BY <1>4, <1>5, LenProperties
<1>7. \A i \in DOMAIN searches' : Counted(searches'[i])
  BY <1>3, <1>4, <1>5, <1>6 DEF ReportsInv
<1>8. ReportsInv'
  <2>1. \A x : Counted(x)' <=> Counted(x)
    BY <1>2 DEF Counted
  <2> QED BY <1>2, <1>5, <1>7, <2>1 DEF ReportsInv
<1>9. Last(searches') = s
  BY <1>5 DEF Last
<1> QED BY <1>1, <1>8, <1>9

\* A search is over, and the panel shows its answer or an error.
LEMMA AnswerStep ==
  ASSUME ReportsInv, NEW i \in DOMAIN searches, ReceivePage(i) \/ LosePage(i)
  PROVE  ReportsInv' /\ Len(searches') = Len(searches) - 1
<1>1. PICK s \in Search(report) : searches \in Seq(Search(report)) /\ s = searches[i] /\ Counted(s)
  BY ElementOfSeq, LenProperties DEF ReportsInv
<1>2. searches' = RemoveAt(searches, i) /\ UNCHANGED <<report, filters>>
  BY DEF ReceivePage, LosePage
<1>3. /\ searches' \in Seq(Search(report)) /\ Len(searches') = Len(searches) - 1
      /\ \A j \in DOMAIN searches' : Counted(searches'[j])
  BY <1>1, <1>2, OneRemoved DEF ReportsInv
<1>4. result' = Showing("error") \/ (~ Reversed(s.values) /\ result' = Answer(s))
  BY <1>1 DEF ReceivePage, LosePage, Answer
<1>5. /\ \A x : Counted(x)' <=> Counted(x)
      /\ Answer(s)' = Answer(s) /\ Reversed(s.values)' = Reversed(s.values)
  BY <1>2 DEF Counted, Answer, Reversed
<1>6. \/ result' = Showing("error")
      \/ \E x \in Search(report) : Counted(x)' /\ ~ Reversed(x.values) /\ result' = Answer(x)'
  BY <1>1, <1>4, <1>5
<1>7. ReportsInv'
  BY <1>2, <1>3, <1>5, <1>6 DEF ReportsInv
<1> QED BY <1>3, <1>7

\* What is shown when there are rows: the answer to a search that could be made.
LEMMA ShownData ==
  ASSUME ReportsInv, result.phase = "data"
  PROVE  \E s \in Search(report) :
           /\ Counted(s) /\ result.search = s
           /\ result.count = Taken(Total(report, s.values), s.page)
           /\ result.totalPages = TotalPages(Total(report, s.values))
<1>1. PICK s \in Search(report) : Counted(s) /\ ~ Reversed(s.values) /\ result = Answer(s)
  BY DEF ReportsInv, Showing
<1>2. result = [phase |-> "data", search |-> s, count |-> Taken(Total(report, s.values), s.page),
                totalPages |-> TotalPages(Total(report, s.values))]
  BY <1>1 DEF Answer
<1> QED BY <1>1, <1>2

LEMMA TurnPageStep ==
  ASSUME ReportsInv, result.phase = "data",
         NEW page \in {result.search.page - 1, result.search.page + 1}, TurnPage(page)
  PROVE  ReportsInv' /\ Last(searches').values = filters'
<1>1. PICK s \in Search(report) :
        Counted(s) /\ result.search = s /\ result.totalPages = TotalPages(Total(report, s.values))
  BY ShownData
<1>2. s.values \in Form(report) /\ s.page \in Nat \ {0} /\ s.walk \in SUBSET Form(report)
  BY <1>1 DEF Search
<1>3. page \in Nat \ {0} /\ s.walk \cup {s.values} \in SUBSET Form(report)
  BY <1>1, <1>2 DEF TurnPage
<1> DEFINE new == [values |-> filters, page |-> page, walk |-> s.walk \cup {s.values}]
<1>4. Counted(new)
  <2>1. \A f \in Form(report) : TotalPages(Total(report, f)) \in Int
    <3>1. PageSize \in Nat \ {0} /\ \A n \in Nat : n + PageSize - 1 \in Int
      BY ReportsAssumption
    <3> QED BY <3>1, TotalNat DEF TotalPages, ReportsInv
  <2>2. CASE page = s.page + 1 /\ s.page < TotalPages(Total(report, s.values))
    BY <1>2, <2>1, <2>2 DEF Counted
  <2>3. CASE page = s.page - 1 /\ s.page > 1
    <3>1. PICK f \in s.walk : s.page <= TotalPages(Total(report, f))
      BY <1>1, <1>2, <2>3 DEF Counted
    <3>2. page <= TotalPages(Total(report, f))
      BY <1>2, <2>1, <2>3, <3>1
    <3> QED BY <3>1, <3>2 DEF Counted
  <2> QED BY <1>1, <1>2, <2>2, <2>3 DEF TurnPage
<1>5. filters \in Form(report) /\ filters' = filters /\ Execute(filters, page, s.walk \cup {s.values})
  BY <1>1 DEF TurnPage, ReportsInv
<1> QED BY <1>3, <1>4, <1>5, ExecuteStep

\* Pesquisar and Limpar ask for the first page.
LEMMA FirstPageStep ==
  ASSUME ReportsInv, filters' \in Form(report), Execute(filters', 1, {})
  PROVE  ReportsInv' /\ Last(searches').values = filters'
<1> DEFINE values == filters'  walk == {}
<1>1. /\ values \in Form(report) /\ 1 \in Nat \ {0} /\ walk \in SUBSET Form(report)
      /\ Counted([values |-> values, page |-> 1, walk |-> walk]) /\ Execute(values, 1, walk)
  BY DEF Counted
<1> HIDE DEF values, walk
<1>2. Last(searches').values = values /\ ReportsInv'
  BY <1>1, ExecuteStep DEF values
<1> QED BY <1>2 DEF values

LEMMA OpenStep ==
  ASSUME NEW kind \in Reports, searches' = <<[values |-> Initial(kind), page |-> 1, walk |-> {}]>>,
         report' = kind, filters' = Initial(kind), result' = Showing("loading")
  PROVE  ReportsInv' /\ Last(searches').values = filters'
<1> DEFINE s == [values |-> Initial(kind), page |-> 1, walk |-> {}]
<1>1. s \in Search(kind) /\ s.values = Initial(kind) /\ Counted(s)'
  BY InitialForm DEF Search, Counted
<1>2. searches' = <<s>>
  OBVIOUS
<1> HIDE DEF s
<1>3. /\ searches' \in Seq(Search(report')) /\ searches' # <<>> /\ searches'[1] = s
      /\ Len(searches') = 1 /\ DOMAIN searches' = {1}
  BY <1>1, <1>2
<1>4. ReportsInv'
  BY <1>1, <1>3, InitialForm DEF ReportsInv
<1>5. Last(searches') = s
  BY <1>3 DEF Last
<1> QED BY <1>1, <1>4, <1>5

LEMMA ReportsStep ==
  ASSUME ReportsInv, [ReportsNext]_panelVars
  PROVE  ReportsInv' /\ (Len(searches') > Len(searches) => Last(searches').values = filters')
<1> DEFINE Asks == Len(searches') > Len(searches) => Last(searches').values = filters'
<1>0. Len(searches) \in Nat
  BY LenProperties DEF ReportsInv
<1>1. ASSUME NEW kind \in Reports, OpenReport(kind) PROVE ReportsInv' /\ Asks
  BY <1>1, OpenStep DEF OpenReport
<1>2. CASE UNCHANGED <<report, searches, result>> /\ filters' \in Form(report)
  <2>1. \A s : (Counted(s)' <=> Counted(s)) /\ Answer(s)' = Answer(s)
    BY <1>2 DEF Counted, Answer
  <2>2. ReportsInv'
    BY <1>2, <2>1 DEF ReportsInv
  <2> QED BY <1>0, <1>2, <2>2
<1>3. ASSUME NEW field \in Fields[report], NEW value \in Values[field] \cup {Unset(field)}, EditFilter(field, value)
      PROVE  UNCHANGED <<report, searches, result>> /\ filters' \in Form(report)
  <2>1. filters \in Form(report) /\ filters' = [filters EXCEPT ![field] = value]
    BY <1>3 DEF EditFilter, ReportsInv
  <2> QED BY <1>3, <2>1 DEF EditFilter, Form
<1>4. CASE SubmitSearch
  <2>1. filters' \in Form(report) /\ Execute(filters', 1, {})
    BY <1>4 DEF SubmitSearch, ReportsInv
  <2> QED BY <2>1, FirstPageStep
<1>5. CASE Clear
  <2>1. filters' \in Form(report) /\ Execute(filters', 1, {})
    BY <1>5, InitialForm DEF Clear, ReportsInv
  <2> QED BY <2>1, FirstPageStep
<1>6. ASSUME NEW i \in DOMAIN searches, ReceivePage(i) \/ LosePage(i) PROVE ReportsInv' /\ Asks
  BY <1>0, <1>6, AnswerStep
<1>7. CASE UNCHANGED panelVars
  BY <1>2, <1>7 DEF panelVars, ReportsInv
<1>8. CASE result.phase = "data" /\ \E page \in {result.search.page - 1, result.search.page + 1} : TurnPage(page)
  BY <1>8, TurnPageStep
<1> QED BY <1>1, <1>2, <1>3, <1>4, <1>5, <1>6, <1>7, <1>8 DEF ReportsNext

LEMMA ReportsInitially == ReportsInit => ReportsInv
<1>1. "students" \in Reports
  BY DEF Reports, Fields
<1> QED BY <1>1, InitialForm DEF ReportsInit, ReportsInv, Search, Counted

\* The panel, its searches and their pages are ones that can be.
THEOREM ReportsInvariant == ReportsSpec => []ReportsInv
  BY ReportsInitially, ReportsStep, PTL DEF ReportsSpec

\* The panel, its form and what it shows have the types of the code.
THEOREM ReportsTypes == ReportsSpec => []ReportsTypeOK
<1>1. ReportsInv => ReportsTypeOK
  BY DEF ReportsInv, ReportsTypeOK, Form, Showing, Answer
<1> QED BY <1>1, ReportsInvariant, PTL

\* Rows that match a search are missed only on a page of other filters.
THEOREM ReportsMissNothing == ReportsSpec => []NothingFoundMeansNothing
<1>1. ASSUME ReportsInv PROVE NothingFoundMeansNothing
  <2> SUFFICES ASSUME result.phase = "data", result.count = 0, result.search.walk \subseteq {result.search.values},
                      Total(report, result.search.values) # 0
               PROVE  FALSE
    BY DEF NothingFoundMeansNothing
  <2>1. PICK s \in Search(report) :
          Counted(s) /\ result.search = s /\ result.count = Taken(Total(report, s.values), s.page)
    BY <1>1, ShownData
  <2> DEFINE total == Total(report, s.values)
  <2>2. s.page \in Nat \ {0} /\ total \in Nat /\ total # 0
    BY <1>1, <2>1, TotalNat DEF Search, ReportsInv
  <2>3. s.page = 1 \/ s.page <= TotalPages(total)
    BY <2>1 DEF Counted
  <2> HIDE DEF total
  <2>4. Taken(total, s.page) # 0
    BY <2>2, <2>3, PagesCounted, SomethingTaken
  <2> QED BY <2>1, <2>4 DEF total
<1> QED BY <1>1, ReportsInvariant, PTL

\* A search asks for what the form shows.
THEOREM ReportsAskForTheForm == ReportsSpec => SearchesAskForTheForm
<1> DEFINE Asks == Len(searches') > Len(searches) => Last(searches').values = filters'
<1>1. ReportsInv /\ [ReportsNext]_panelVars => [Asks]_panelVars
  BY ReportsStep
<1> HIDE DEF Asks
<1>2. ReportsSpec => [][Asks]_panelVars
  BY <1>1, ReportsInvariant, PTL DEF ReportsSpec
<1> QED BY <1>2 DEF Asks, SearchesAskForTheForm

-----------------------------------------------------------------------------
(* The form for a new student *)

FormTyped ==
  /\ offered \subseteq Offers /\ full \subseteq Courses
  /\ lists \in [phase : {"loading", "failed", "ready"}, read : SUBSET Offers]
  /\ draft \in Draft /\ submitting \in BOOLEAN
  /\ notice \in {"none", "left", "review"} \cup Refusals
  /\ posted \in Seq(Posted)
  /\ DOMAIN people \subseteq DOMAIN posted /\ people \in [DOMAIN people -> Person]

\* Of every class that is chosen the modality is chosen too: in the form, and in a request.
DraftCoherent == \A c \in draft.classIds : DisciplineOf[c] \in draft.modalityIds
Coherent(r) == \A c \in r.chosen \cap Courses : DisciplineOf[c] \in r.chosen
PostsCoherent == \A n \in DOMAIN posted : Coherent(posted[n])

\* What is chosen, in the form and in a request, was read when the page opened; nothing
\* is before.
Picks(form) == ({form.plan} \ {"none"}) \cup form.modalityIds \cup form.classIds
AllListed ==
  /\ Picks(draft) \subseteq lists.read
  /\ \A n \in DOMAIN posted : posted[n].chosen \subseteq lists.read
  /\ lists.phase = "loading" => Picks(draft) = {} /\ posted = <<>>

\* The page waits for one answer at a time, and says nothing meanwhile.
OneKept ==
  \A n \in DOMAIN posted : posted[n].kept =>
    submitting /\ notice = "none" /\ \A m \in DOMAIN posted : posted[m].kept => m = n

FormInv == FormTyped /\ DraftCoherent /\ PostsCoherent /\ AllListed /\ OneKept

\* A request that is changed is still a request, and the others stay.
LEMMA PostChanged ==
  ASSUME posted \in Seq(Posted), NEW n \in DOMAIN posted, NEW r \in Posted,
         posted' = [posted EXCEPT ![n] = r]
  PROVE  /\ posted' \in Seq(Posted) /\ DOMAIN posted' = DOMAIN posted
         /\ posted'[n] = r /\ \A m \in DOMAIN posted \ {n} : posted'[m] = posted[m]
<1>1. DOMAIN posted = 1..Len(posted)
  BY LenProperties
<1> QED BY <1>1, ExceptSeq

\* A step of a request that only the backend, or only the page, knows of.
LEMMA StageStep ==
  ASSUME FormInv, NEW n \in DOMAIN posted, NEW stage \in {"checked", "ok"} \cup Refusals,
         Stage(n, stage), UNCHANGED <<offered, full, lists, draft, submitting, notice>>,
         \/ UNCHANGED people
         \/ people' = [m \in DOMAIN people \cup {n} |-> IF m = n THEN posted[n].person ELSE people[m]]
  PROVE  FormInv' /\ posted'[n].stage = stage /\ \A m \in DOMAIN posted \ {n} : posted'[m] = posted[m]
<1> DEFINE r == [posted[n] EXCEPT !.stage = stage]
<1>1. posted \in Seq(Posted) /\ posted[n] \in Posted
  BY ElementOfSeq, LenProperties DEF FormInv, FormTyped
<1>2. r \in Posted /\ r.chosen = posted[n].chosen /\ r.kept = posted[n].kept /\ r.stage = stage
      /\ posted[n].person \in Person
  BY <1>1 DEF Posted
<1>3. posted' = [posted EXCEPT ![n] = r]
  BY DEF Stage
<1> HIDE DEF r
<1>4. /\ posted' \in Seq(Posted) /\ DOMAIN posted' = DOMAIN posted
      /\ posted'[n] = r /\ \A m \in DOMAIN posted \ {n} : posted'[m] = posted[m]
  BY <1>1, <1>2, <1>3, PostChanged
<1>5. DOMAIN people' \subseteq DOMAIN posted' /\ people' \in [DOMAIN people' -> Person]
  BY <1>2, <1>4 DEF FormInv, FormTyped
<1>6. FormTyped' /\ DraftCoherent'
  BY <1>4, <1>5 DEF FormInv, FormTyped, DraftCoherent
<1>7. PostsCoherent'
  BY <1>2, <1>4 DEF FormInv, PostsCoherent, Coherent
<1>8. OneKept'
  BY <1>2, <1>4 DEF FormInv, OneKept
<1>9. AllListed'
  BY <1>2, <1>4 DEF FormInv, AllListed, Picks
<1> QED BY <1>2, <1>4, <1>6, <1>7, <1>8, <1>9 DEF FormInv

\* The page no longer waits for a request.
LEMMA KeptStep ==
  ASSUME FormInv, NEW n \in DOMAIN posted, posted[n].kept,
         posted' = [posted EXCEPT ![n].kept = FALSE],
         submitting' \in BOOLEAN, notice' \in {"left"} \cup Refusals,
         UNCHANGED <<offered, full, lists, draft, people>>
  PROVE  FormInv' /\ DOMAIN posted' = DOMAIN posted /\ \A m \in DOMAIN posted : posted'[m].stage = posted[m].stage
<1> DEFINE r == [posted[n] EXCEPT !.kept = FALSE]
<1>1. posted \in Seq(Posted) /\ posted[n] \in Posted
  BY ElementOfSeq, LenProperties DEF FormInv, FormTyped
<1>2. r \in Posted /\ r.chosen = posted[n].chosen /\ r.kept = FALSE /\ r.stage = posted[n].stage
  BY <1>1 DEF Posted
<1>3. posted' = [posted EXCEPT ![n] = r]
  OBVIOUS
<1> HIDE DEF r
<1>4. /\ posted' \in Seq(Posted) /\ DOMAIN posted' = DOMAIN posted
      /\ posted'[n] = r /\ \A m \in DOMAIN posted \ {n} : posted'[m] = posted[m]
  BY <1>1, <1>2, <1>3, PostChanged
<1>5. FormTyped' /\ DraftCoherent'
  BY <1>4 DEF FormInv, FormTyped, DraftCoherent
<1>6. PostsCoherent'
  BY <1>2, <1>4 DEF FormInv, PostsCoherent, Coherent
<1>7. \A m \in DOMAIN posted' : ~ posted'[m].kept
  BY <1>2, <1>4 DEF FormInv, OneKept
<1>8. AllListed'
  BY <1>2, <1>4 DEF FormInv, AllListed, Picks
<1> QED BY <1>2, <1>4, <1>5, <1>6, <1>7, <1>8 DEF FormInv, OneKept

\* An edit: the page waits for no answer.
LEMMA EditStep ==
  ASSUME FormInv, NEW new \in Draft, Edit(new), Picks(new) \subseteq lists.read,
         \A c \in new.classIds : DisciplineOf[c] \in new.modalityIds
  PROVE  FormInv' /\ UNCHANGED <<offered, posted>>
<1>1. /\ draft' = new /\ UNCHANGED <<offered, full, lists, submitting, notice, posted, people>>
      /\ lists.phase = "ready"
  BY DEF Edit, Editable
<1>2. FormTyped' /\ DraftCoherent' /\ PostsCoherent' /\ OneKept'
  BY <1>1 DEF FormInv, FormTyped, DraftCoherent, PostsCoherent, OneKept, Coherent
<1>3. AllListed'
  BY <1>1 DEF FormInv, AllListed, Picks
<1> QED BY <1>1, <1>2, <1>3 DEF FormInv

LEMMA FormEditsStep ==
  ASSUME FormInv, FormEdits
  PROVE  FormInv' /\ UNCHANGED <<offered, posted>>
<1> DEFINE Fine(new) == /\ new \in Draft /\ Picks(new) \subseteq lists.read
                        /\ \A c \in new.classIds : DisciplineOf[c] \in new.modalityIds
<1>1. draft \in Draft /\ DraftCoherent /\ Picks(draft) \subseteq lists.read
  BY DEF FormInv, FormTyped, AllListed
<1>2. ASSUME NEW person \in Person, EditPerson(person) PROVE \E new : Fine(new) /\ Edit(new)
  BY <1>1, <1>2 DEF EditPerson, Draft, DraftCoherent, Picks
<1>3. ASSUME NEW S \in SUBSET Sections PROVE Fine([draft EXCEPT !.wrong = S])
  BY <1>1 DEF Draft, DraftCoherent, Picks
<1>4. ASSUME NEW wrong \in SUBSET {"optional"}, EditOptional(wrong) PROVE \E new : Fine(new) /\ Edit(new)
  <2>1. (draft.wrong \ {"optional"}) \cup wrong \in SUBSET Sections
    BY <1>1 DEF Draft, Sections
  <2> QED BY <1>3, <1>4, <2>1 DEF EditOptional
<1>5. ASSUME NEW wrong \in SUBSET {"rest"}, EditRest(wrong) PROVE \E new : Fine(new) /\ Edit(new)
  <2>1. (draft.wrong \ {"rest"}) \cup wrong \in SUBSET Sections
    BY <1>1 DEF Draft, Sections
  <2> QED BY <1>3, <1>5, <2>1 DEF EditRest
<1>6. ASSUME NEW plan \in Plans, ChoosePlan(plan) PROVE \E new : Fine(new) /\ Edit(new)
  BY <1>1, <1>6 DEF ChoosePlan, Draft, DraftCoherent, Picks
<1>7. ASSUME NEW m \in Disciplines, ToggleModality(m) PROVE \E new : Fine(new) /\ Edit(new)
  <2> DEFINE M == Toggle(draft.modalityIds, m)
             C == {c \in draft.classIds : DisciplineOf[c] # m}
             new == [draft EXCEPT !.modalityIds = M, !.classIds = C]
  <2>1. draft.modalityIds \subseteq Disciplines /\ draft.classIds \subseteq Courses
    BY <1>1 DEF Draft
  <2>2. M \in SUBSET Disciplines /\ C \in SUBSET Courses
    BY <2>1 DEF Toggle
  <2>3. \A c \in C : DisciplineOf[c] \in M
    BY <1>1 DEF Toggle, DraftCoherent
  <2>4. Edit(new)
    BY <1>7 DEF ToggleModality
  <2>5. M \subseteq lists.read /\ C \subseteq lists.read
    BY <1>1, <1>7 DEF Toggle, ToggleModality, Picks
  <2> HIDE DEF M, C
  <2>6. Fine(new)
    BY <1>1, <2>2, <2>3, <2>5 DEF Draft, Picks
  <2> QED BY <2>4, <2>6
<1>8. ASSUME NEW c \in Courses, ToggleClass(c) PROVE \E new : Fine(new) /\ Edit(new)
  <2> DEFINE C == Toggle(draft.classIds, c)
             new == [draft EXCEPT !.classIds = C]
  <2>1. C \in SUBSET Courses /\ \A d \in C : DisciplineOf[d] \in draft.modalityIds
    BY <1>1, <1>8 DEF Toggle, DraftCoherent, ToggleClass, AvailableClasses, Draft
  <2>2. Edit(new)
    BY <1>8 DEF ToggleClass
  <2>3. C \subseteq lists.read
    BY <1>1, <1>8 DEF Toggle, ToggleClass, AvailableClasses, Picks
  <2> HIDE DEF C
  <2>4. Fine(new)
    BY <1>1, <2>1, <2>3 DEF Draft, Picks
  <2> QED BY <2>2, <2>4
<1>9. \E new : Fine(new) /\ Edit(new)
  <2> HIDE DEF Fine
  <2> QED BY <1>2, <1>4, <1>5, <1>6, <1>7, <1>8 DEF FormEdits
<1> QED BY <1>9, EditStep

\* A complete form is sent: a request like it, that is the only one waited for.
LEMMA SubmitStep ==
  ASSUME FormInv, Submit
  PROVE  FormInv' /\ UNCHANGED offered /\ \A n \in DOMAIN posted : posted'[n] = posted[n]
<1> DEFINE r == [person |-> draft.person, chosen |-> Chosen, kept |-> TRUE, stage |-> "sent"]
<1>1. /\ posted \in Seq(Posted) /\ draft \in Draft /\ DraftCoherent
      /\ DOMAIN posted = 1..Len(posted) /\ Len(posted) \in Nat
  BY LenProperties DEF FormInv, FormTyped
<1>2. draft.plan \in Plans /\ draft.plan # "none" /\ draft.person \in Person
      /\ draft.modalityIds \subseteq Disciplines /\ draft.classIds \subseteq Courses
  BY <1>1 DEF Submit, Complete, Draft
<1>3. r \in Posted /\ r.kept
  BY <1>2, FormAssumption DEF Chosen, Posted
<1>4. Coherent(r)
  <2> SUFFICES ASSUME NEW c \in Chosen \cap Courses PROVE DisciplineOf[c] \in Chosen
    BY DEF Coherent
  <2>1. c \in draft.classIds
    BY <1>2, FormAssumption DEF Chosen
  <2> QED BY <1>1, <2>1 DEF Chosen, DraftCoherent
<1>5. /\ posted' = Append(posted, r) /\ submitting' = TRUE /\ notice' = "none"
      /\ UNCHANGED <<offered, full, lists, draft, people>> /\ lists.phase = "ready"
  BY DEF Submit, Editable
<1>6. r.chosen \subseteq lists.read
  BY <1>2 DEF FormInv, AllListed, Picks, Chosen
<1> HIDE DEF r
<1>7. /\ posted' \in Seq(Posted) /\ DOMAIN posted' = DOMAIN posted \cup {Len(posted) + 1}
      /\ posted'[Len(posted) + 1] = r /\ \A n \in DOMAIN posted : posted'[n] = posted[n]
  <2>1. /\ posted' \in Seq(Posted) /\ Len(posted') = Len(posted) + 1 /\ posted'[Len(posted) + 1] = r
        /\ \A n \in DOMAIN posted : posted'[n] = posted[n]
    BY <1>1, <1>3, <1>5, AppendProperties
  <2>2. DOMAIN posted' = 1..(Len(posted) + 1)
    BY <2>1, LenProperties
  <2> QED BY <1>1, <2>1, <2>2
<1>8. FormTyped' /\ DraftCoherent'
  BY <1>5, <1>7 DEF FormInv, FormTyped, DraftCoherent
<1>9. PostsCoherent'
  BY <1>4, <1>7 DEF FormInv, PostsCoherent, Coherent
<1>10. \A n \in DOMAIN posted : ~ posted[n].kept
  BY DEF Submit, Editable, FormInv, OneKept
<1>11. OneKept'
  BY <1>5, <1>7, <1>10 DEF OneKept
<1>12. AllListed'
  BY <1>5, <1>7, <1>6 DEF FormInv, AllListed, Picks
<1> QED BY <1>5, <1>7, <1>8, <1>9, <1>11, <1>12 DEF FormInv

\* A request that is checked in this step fits together, and what it asks for and is
\* not offered was offered when the page read its lists.
Fitting(n) ==
  posted[n].stage = "sent" =>
    /\ posted'[n].stage # "incompatible"
    /\ posted'[n].stage = "unavailable" => (posted[n].chosen \cap lists.read) \ offered # {}

\* What a step does to the requests there are.
LEMMA FormStep ==
  ASSUME FormInv, [FormNext]_formVars
  PROVE  FormInv' /\ \A n \in DOMAIN posted : Fitting(n)
<1>1. CASE LoadLists
  <2>1. UNCHANGED <<full, draft, submitting, notice, posted, people>> /\ UNCHANGED offered
    BY <1>1 DEF LoadLists
  <2>2. lists' \in [phase : {"failed", "ready"}, read : SUBSET Offers] /\ Picks(draft) = {} /\ posted = <<>>
    BY <1>1 DEF LoadLists, FormInv, FormTyped, AllListed
  <2>3. FormTyped' /\ DraftCoherent' /\ PostsCoherent' /\ OneKept'
    BY <2>1, <2>2 DEF FormInv, FormTyped, DraftCoherent, PostsCoherent, Coherent, OneKept
  <2>4. AllListed'
    BY <2>1, <2>2 DEF AllListed, Picks
  <2> QED BY <2>1, <2>3, <2>4 DEF FormInv, Fitting
<1>2. CASE SubmitRefused \/ (\E o \in Offers : ChangeOffer(o)) \/ \E c \in Courses : ChangeRoom(c)
  <2>1. UNCHANGED <<lists, draft, submitting, posted, people>>
    BY <1>2 DEF SubmitRefused, ChangeOffer, ChangeRoom
  <2>2. /\ offered' \subseteq Offers /\ full' \subseteq Courses
        /\ notice' \in {notice, "review"} /\ (notice' # notice => ~ submitting)
    BY <1>2 DEF SubmitRefused, ChangeOffer, ChangeRoom, FormInv, FormTyped, Toggle, Editable
  <2>3. FormTyped'
    BY <2>1, <2>2 DEF FormInv, FormTyped
  <2>4. DraftCoherent' /\ PostsCoherent' /\ OneKept' /\ AllListed'
    BY <2>1, <2>2 DEF FormInv, DraftCoherent, PostsCoherent, Coherent, OneKept, AllListed, Picks
  <2> QED BY <2>1, <2>3, <2>4 DEF FormInv, Fitting
<1>3. CASE FormEdits
  BY <1>3, FormEditsStep DEF Fitting
<1>4. CASE Submit
  BY <1>4, SubmitStep DEF Fitting
<1>5. ASSUME NEW n \in DOMAIN posted, ReceiveEnrolment(n) \/ GiveUpEnrolment(n)
      PROVE  FormInv' /\ \A m \in DOMAIN posted : Fitting(m)
  <2>1. posted[n] \in Posted
    BY ElementOfSeq, LenProperties DEF FormInv, FormTyped
  <2>2. /\ submitting' \in BOOLEAN /\ notice' \in {"left"} \cup Refusals
        /\ posted[n].kept /\ posted' = [posted EXCEPT ![n].kept = FALSE]
        /\ UNCHANGED <<offered, full, lists, draft, people>>
    BY <1>5, <2>1 DEF ReceiveEnrolment, GiveUpEnrolment, Posted, FormInv, FormTyped, Refusals
  <2> QED BY <2>2, KeptStep DEF Fitting
<1>6. ASSUME NEW n \in DOMAIN posted, CheckEnrolment(n)
      PROVE  FormInv' /\ \A m \in DOMAIN posted : Fitting(m)
  <2> DEFINE r == posted[n]
             Mixed == \E c \in r.chosen \cap Courses : DisciplineOf[c] \notin r.chosen
             Withdrawn == ~ (r.chosen \subseteq offered)
  <2>1. PICK stage : /\ stage \in {"checked", "duplicate", "unavailable", "incompatible", "full"}
                     /\ stage = "unavailable" => Withdrawn
                     /\ stage = "incompatible" => Mixed
                     /\ Stage(n, stage) /\ UNCHANGED <<offered, full, lists, draft, submitting, notice, people>>
    BY <1>6 DEF CheckEnrolment
  <2>2. ~ Mixed
    BY DEF FormInv, PostsCoherent, Coherent
  <2>3. r.chosen \subseteq lists.read
    BY DEF FormInv, AllListed
  <2>4. FormInv' /\ posted'[n].stage = stage /\ \A m \in DOMAIN posted \ {n} : posted'[m] = posted[m]
    BY <2>1, StageStep DEF Refusals
  <2> QED BY <2>1, <2>2, <2>3, <2>4 DEF Fitting
<1>7. ASSUME NEW n \in DOMAIN posted, CommitEnrolment(n) \/ FailEnrolment(n)
      PROVE  FormInv' /\ \A m \in DOMAIN posted : Fitting(m)
  <2>1. PICK stage \in {"ok", "failed"} :
          /\ Stage(n, stage) /\ UNCHANGED <<offered, full, lists, draft, submitting, notice>>
          /\ \/ UNCHANGED people
             \/ people' = [m \in DOMAIN people \cup {n} |-> IF m = n THEN posted[n].person ELSE people[m]]
    BY <1>7 DEF CommitEnrolment, FailEnrolment
  <2>2. FormInv' /\ posted'[n].stage = stage /\ \A m \in DOMAIN posted \ {n} : posted'[m] = posted[m]
    BY <2>1, StageStep DEF Refusals
  <2> QED BY <2>2 DEF Fitting
<1>8. CASE UNCHANGED formVars
  BY <1>8 DEF formVars, FormInv, FormTyped, DraftCoherent, PostsCoherent, Coherent, AllListed, Picks, OneKept, Fitting
<1> QED BY <1>1, <1>2, <1>3, <1>4, <1>5, <1>6, <1>7, <1>8 DEF FormNext

LEMMA FormInitially ==
  ASSUME FormInit
  PROVE  FormInv
<1>1. /\ offered = Offers /\ full \subseteq Courses /\ lists = [phase |-> "loading", read |-> {}] /\ submitting = FALSE /\ notice = "none"
      /\ posted = <<>> /\ people = [n \in {} |-> <<>>]
  BY DEF FormInit
<1>2. draft \in Draft /\ draft.classIds = {} /\ Picks(draft) = {}
  BY DEF FormInit, Draft, Sections, Picks
<1>3. posted \in Seq(Posted) /\ DOMAIN posted = {} /\ DOMAIN people = {} /\ people \in [DOMAIN people -> Person]
  BY <1>1
<1> QED BY <1>1, <1>2, <1>3 DEF FormInv, FormTyped, DraftCoherent, PostsCoherent, AllListed, OneKept

\* One request is waited for at a time; of every class that is chosen the modality is
\* chosen too, and all of it is on the lists that were read.
THEOREM FormInvariant == FormSpec => []FormInv
  BY FormInitially, FormStep, PTL DEF FormSpec

\* The form and its requests have the types of the code.
THEOREM FormTypes == FormSpec => []FormTypeOK
<1>1. FormInv => FormTypeOK
  BY ElementOfSeq, LenProperties DEF FormInv, FormTyped, FormTypeOK
<1> QED BY <1>1, FormInvariant, PTL

\* Nobody is told of a duplicate that is the success of a request still to be answered.
THEOREM FormRefusesOnce == FormSpec => []DuplicateOnlyAfterAnswer
<1>1. FormInv => DuplicateOnlyAfterAnswer
  BY DEF FormInv, FormTyped, OneKept, DuplicateOnlyAfterAnswer
<1> QED BY <1>1, FormInvariant, PTL

\* No request is turned away for a class of a modality it does not choose, and none as
\* unavailable unless something the page had read on offer was withdrawn.
THEOREM FormFitsTogether == FormSpec => ChoicesFitTogether
<1> DEFINE Fit == \A n \in DOMAIN posted : Fitting(n)
<1>1. FormInv /\ [FormNext]_formVars => [Fit]_formVars
  BY FormStep
<1> HIDE DEF Fit
<1>2. FormSpec => [][Fit]_formVars
  BY <1>1, FormInvariant, PTL DEF FormSpec
<1> QED BY <1>2 DEF Fit, Fitting, ChoicesFitTogether

-----------------------------------------------------------------------------
(* The three together *)

\* A behaviour of the application runs each of them by its own specification.
THEOREM WebParts == Spec => WebSpec /\ ReportsSpec /\ FormSpec
<1>1. Init => WebInit /\ ReportsInit /\ FormInit
  BY DEF Init
<1>2. [Next]_vars => [WebNext]_sessionVars /\ [ReportsNext]_panelVars /\ [FormNext]_formVars
  BY DEF Next, vars
<1> QED BY <1>1, <1>2, PTL DEF Spec, WebSpec, ReportsSpec, FormSpec

\* Session, panel and form have the types of the code.
THEOREM WebTypes == Spec => []TypeOK
<1>1. WebTypeOK /\ ReportsTypeOK /\ FormTypeOK => TypeOK
  BY DEF TypeOK
<1> QED BY <1>1, WebParts, SessionTypes, ReportsTypes, FormTypes, PTL
=============================================================================
