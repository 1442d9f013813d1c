------------------------------- MODULE Routes -------------------------------
(***************************************************************************)
(* Who may call what: for every controller of the backend, the roles that  *)
(* the guards of its routes let through to each of its methods.  A handler *)
(* is written <<controller, method>>.                                      *)
(***************************************************************************)
Managers == {"OWNER", "ADMIN"}
Desk == Managers \cup {"RECEPTION"}
Internal == Desk \cup {"TEACHER"}
Students == {"ALUNO"}
AllRoles == Internal \cup Students

\* Handlers of one controller.
Of(controller, methods) == {<<controller, m>> : m \in methods}

\* The methods carry the decorator @Roles(...roles), or their class does.
Open(roles, methods) == roles \X methods

Reading == {"findAll", "findOne"}
Writing == {"create", "update", "remove"}

-----------------------------------------------------------------------------
(* The controllers *)

AddressRoutes == Open(Managers, Reading \cup Writing)
ResponsibleRoutes == Open(Managers, Reading \cup Writing)
PeopleRoutes == Open(Desk, Reading \cup {"create"}) \cup Open(Managers, {"update", "remove"})
StudentsRoutes ==
  Open(Internal, Reading \cup {"history"}) \cup Open(Desk, {"create"}) \cup Open(Managers, {"update", "remove"})

UsersRoutes == Open(Managers, Reading \cup Writing)
AuthRoutes == Open(AllRoles, {"profile"})

ModalityRoutes == Open(Internal, Reading) \cup Open(Managers, Writing)
ClassRoutes == Open(Internal, Reading \cup {"getStudentsByClassId"}) \cup Open(Managers, Writing)
PlansRoutes == Open(Desk, Reading) \cup Open(Managers, Writing)
AttendanceRoutes ==
  Open(Internal, Reading \cup {"create", "createBatch"}) \cup Open(Managers, {"update", "remove"})
EnrollmentRoutes == Open(Desk, {"create", "maintain"})
StudentClassRoutes == Open(Managers, Reading \cup {"create", "remove"})
StudentModalityRoutes == Open(Managers, Reading \cup Writing)
StudentPlanRoutes == Open(Managers, Reading \cup Writing)
GraduationRoutes ==
  Open(Internal, {"available", "findAll", "current"}) \cup Open(Managers \cup {"TEACHER"}, {"create"})
    \cup Open(Managers, {"update", "cancel"})

ChargeRoutes ==
  Open(Desk, Reading \cup {"findPayments", "registerPayment"})
    \cup Open(Managers, Writing \cup {"generateMonthlyCharges"})
PaymentRoutes == Open(Desk, {"refund"})

StoreRoutes ==
  Open(Desk, {"listProducts", "getImage", "findCustomer", "listOrders", "getOrder", "createOrder", "submitPayment"})
    \cup Open(Managers, {"createProduct", "updateProduct", "addVariant", "addStock", "uploadImage",
                         "reviews", "approve", "reject", "refund", "updateStatus", "cancel"})

DocumentRoutes == Open(Desk, Reading \cup Writing \cup {"getFile", "findByStudent", "upload"})

ReportRoutes == Open(Desk, {"students", "financial", "attendance", "graduations"})
DashboardRoutes == Open(Desk, {"summary"})
AuditRoutes == Open(Managers, {"findAll"})

\* Self-service: what a student of any status but INACTIVE may do, and what
\* needs the capability OPERATE.
MeReading ==
  {"getMe", "getProfile", "getGraduations", "getModalities", "getAttendance", "getFinance", "getNotices",
   "getNotice", "markNoticeRead", "getDocuments", "getDocument", "getDocumentFile", "getSchedule",
   "getStoreProducts", "getStoreProduct", "getStoreProductImage", "getCart", "getOrders", "getOrder"}
MeOperating == {"addCartItem", "updateCartItem", "removeCartItem", "createOrder"}
MeRoutes == Open(Students, MeReading \cup MeOperating)

\* The status of the student an account belongs to; an account may belong to none.
Standings == {"ACTIVE", "PAUSED", "INACTIVE", "UNLINKED"}

\* capabilitiesFor: the handlers of MeController open to a student's status.
MeOpenTo(standing) ==
  CASE standing = "ACTIVE" -> MeReading \cup MeOperating
    [] standing = "PAUSED" -> MeReading
    [] standing \in {"INACTIVE", "UNLINKED"} -> {}

\* The modules of AppModule, by their controllers.
Routes ==
  [address |-> AddressRoutes, responsible |-> ResponsibleRoutes, people |-> PeopleRoutes,
   students |-> StudentsRoutes, users |-> UsersRoutes, auth |-> AuthRoutes, modality |-> ModalityRoutes,
   class |-> ClassRoutes, plans |-> PlansRoutes, attendance |-> AttendanceRoutes,
   enrollments |-> EnrollmentRoutes, studentClasses |-> StudentClassRoutes,
   studentModality |-> StudentModalityRoutes, studentPlan |-> StudentPlanRoutes,
   graduations |-> GraduationRoutes, charges |-> ChargeRoutes, payments |-> PaymentRoutes,
   store |-> StoreRoutes, documents |-> DocumentRoutes, reports |-> ReportRoutes,
   dashboard |-> DashboardRoutes, audit |-> AuditRoutes, me |-> MeRoutes]

\* RolesGuard, for a session of the role.
GuardLetsThrough(role, handler) == <<role, handler[2]>> \in Routes[handler[1]]

-----------------------------------------------------------------------------
(* What is refused behind the guard *)

\* The handlers that refuse a teacher what belongs to the classes of others.
TeachersOwn ==
  Of("students", {"findOne", "history"}) \cup Of("class", {"findOne", "getStudentsByClassId"})
    \cup Of("attendance", {"findOne", "create", "createBatch"})
    \cup Of("graduations", {"findAll", "current", "create"})

\* The handlers that read the account of their caller again, after the guard did.
Rereading ==
  Of("attendance", {"create", "createBatch", "update"})
    \cup Of("graduations", {"findAll", "current", "create", "update", "cancel"})

\* StudentContextGuard and assertCapability, for a student of the standing.
MeAnswer(standing, method) ==
  CASE method \in MeOpenTo(standing) -> "ok"
    [] standing = "PAUSED" -> "403 operation"
    [] OTHER -> "403 student"

\* What a handler behind the guard may answer a caller of the role, whatever the classes
\* of a teacher and the standing of a student are by then.
Verdicts(role, handler) ==
  IF handler[1] = "me" THEN {MeAnswer(standing, handler[2]) : standing \in Standings}
  ELSE {"ok"} \cup {answer \in {"403 teacher"} : role = "TEACHER" /\ handler \in TeachersOwn}
=============================================================================
