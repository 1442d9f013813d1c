-------------------------------- MODULE Pages --------------------------------
(***************************************************************************)
(* The pages of the web application: who is shown them, and what they call *)
(* for the role they are shown to.                                         *)
(***************************************************************************)
EXTENDS Routes

\* The routes of App.tsx and the allowedRoles of their ProtectedRoute.
PageRoles ==
  (Students \X {"home", "selfGraduations", "selfModalities", "selfAttendance", "selfFinance", "selfProfile",
                "shop", "product", "cart", "selfOrders", "selfOrder", "notices", "notice", "selfDocuments",
                "selfDocument", "selfSchedule"})
    \cup (Desk \X {"dashboard", "reports", "storeOperations", "newStudent"})
    \cup (Managers \X {"adminPlans", "adminModalities", "adminClasses"})
    \cup (Internal \X {"students", "student", "attendance"})
Addresses == {allowed[2] : allowed \in PageRoles}

-----------------------------------------------------------------------------
(* What the pages call *)

HomeCalls == Of("me", {"getMe", "getNotices", "getGraduations", "getModalities", "getFinance", "getDocuments"})
SelfPageCalls ==
  [selfGraduations |-> Of("me", {"getGraduations"}), selfModalities |-> Of("me", {"getModalities"}),
   selfAttendance |-> Of("me", {"getAttendance"}), selfFinance |-> Of("me", {"getFinance"}),
   selfProfile |-> Of("me", {"getProfile"}), selfSchedule |-> Of("me", {"getSchedule"}),
   notices |-> Of("me", {"getNotices"}), notice |-> Of("me", {"getNotice", "markNoticeRead"}),
   selfDocuments |-> Of("me", {"getDocuments"}), selfDocument |-> Of("me", {"getDocument", "getDocumentFile"})]
ShopCalls ==
  [shop |-> Of("me", {"getMe", "getStoreProducts", "getStoreProductImage"}),
   product |-> Of("me", {"getMe", "getStoreProduct", "getStoreProductImage", "addCartItem"}),
   cart |-> Of("me", {"getMe", "getCart", "updateCartItem", "removeCartItem", "createOrder"}),
   selfOrders |-> Of("me", {"getOrders"}), selfOrder |-> Of("me", {"getOrder"})]

DashboardCalls == Of("dashboard", {"summary"})
ReportCalls ==
  Of("reports", {"students", "financial", "attendance", "graduations"})
    \cup {<<"modality", "findAll">>, <<"class", "findAll">>}
Catalog == {<<"plans", "findAll">>, <<"modality", "findAll">>, <<"class", "findAll">>}
NewStudentCalls == Catalog \cup {<<"enrollments", "create">>}
StudentListCalls == {<<"students", "findAll">>, <<"modality", "findAll">>}
RollCallCalls ==
  Of("class", {"findAll", "getStudentsByClassId"}) \cup Of("attendance", {"findAll", "createBatch"})
AdminCalls ==
  [adminPlans |-> Of("plans", {"findAll", "create", "update"}),
   adminModalities |-> Of("modality", {"findAll", "create", "update"}),
   adminClasses |-> Of("class", {"findAll", "create", "update"})
                      \cup {<<"modality", "findAll">>, <<"users", "findAll">>}]

\* The store asks for the reviews, and shows the tabs of the catalogue, to a manager only.
StoreCalls(role) ==
  Of("store", {"listProducts", "getImage", "listOrders", "findCustomer", "createOrder", "submitPayment"})
    \cup IF role \notin Managers THEN {}
         ELSE Of("store", {"reviews", "createProduct", "uploadImage", "addStock", "approve", "reject", "updateStatus"})

\* Mutant of StudentCalls: a teacher is shown every tab of the student.
EveryTabCalls(role) ==
  {<<"students", "findOne">>, <<"students", "history">>, <<"attendance", "findAll">>, <<"graduations", "findAll">>}
    \cup Of("documents", {"findByStudent", "upload", "getFile", "remove"})
    \cup Of("charges", {"findAll", "registerPayment"}) \cup {<<"payments", "refund">>}

\* The student's page: teachers are shown neither the documents and charges nor
\* the editor, and only managers the form for graduations.
StudentCalls(role) ==
  {<<"students", "findOne">>, <<"students", "history">>, <<"attendance", "findAll">>, <<"graduations", "findAll">>}
    \cup (IF role = "TEACHER" THEN {}
          ELSE Of("documents", {"findByStudent", "upload", "getFile", "remove"})
                 \cup Of("charges", {"findAll", "registerPayment"}) \cup {<<"payments", "refund">>}
                 \cup Catalog \cup {<<"enrollments", "maintain">>})
    \cup (IF role \in Managers THEN Of("graduations", {"create", "update"}) ELSE {})

\* What a page calls for the role it is shown to.
PageCalls(page, role) ==
  CASE page = "home" -> HomeCalls
    [] page \in DOMAIN SelfPageCalls -> SelfPageCalls[page]
    [] page \in DOMAIN ShopCalls -> ShopCalls[page]
    [] page \in DOMAIN AdminCalls -> AdminCalls[page]
    [] page = "dashboard" -> DashboardCalls
    [] page = "reports" -> ReportCalls
    [] page = "storeOperations" -> StoreCalls(role)
    [] page = "newStudent" -> NewStudentCalls
    [] page = "students" -> StudentListCalls
    [] page = "student" -> StudentCalls(role)
    [] page = "attendance" -> RollCallCalls

-----------------------------------------------------------------------------
(* Who is shown what *)

Loading == "loading"
LoginPage == "login"

\* ProtectedRoute: where a role that is not allowed on a page is sent.
Elsewhere(role) == IF role \in Students THEN "home" ELSE "students"

\* What a tab shows when it is at the page: role is that of its user, or "NONE".
Shown(page, initializing, role) ==
  IF initializing THEN Loading
  ELSE IF role = "NONE" THEN LoginPage
  ELSE IF <<role, page>> \in PageRoles THEN page
  ELSE Elsewhere(role)

\* The handlers that may be called from a tab with a user of the role.
CallsShownTo(role) == UNION {PageCalls(Shown(page, FALSE, role), role) : page \in Addresses}
=============================================================================
