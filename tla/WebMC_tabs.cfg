SPECIFICATION Spec
CONSTANTS
  AccountIds = {u1}
  Passwords = {pA}
  Roles = {"OWNER", "ADMIN", "RECEPTION", "TEACHER", "ALUNO"}
  Logins = {}
  Updates = {}
  Changes <- SingleChanges
  MaxVersion = 1
  MaxTokens = 2
  Tabs = {t1, t2}
  MaxRequests = 2
  MaxOpenings = 2
  Values <- FieldValues
  ReportRows <- Rows
  PageSize = 1
  MaxSearches = 2
  p1 = p1
  d1 = d1
  d2 = d2
  k1 = k1
  Offers = {p1, d1, d2, k1}
  Plans = {p1}
  Disciplines = {d1, d2}
  Courses = {k1}
  DisciplineOf <- ClassesModality
  Cpfs = {c1}
  Mails = {e1}
  MaxSubmits = 2
INVARIANTS TypeOK ForbiddenHasAReason NothingFoundMeansNothing DuplicateOnlyAfterAnswer
PROPERTIES OnlyDeadTokensForgotten TabsSettle SearchesAskForTheForm 
\* The bounds on openings, tokens, searches and submissions run out.
CHECK_DEADLOCK FALSE
