---------------------------- MODULE ReportsPanel ----------------------------
(***************************************************************************)
(* The reports: the panels of ReportsPage with their filters, searches and *)
(* pages, useApiRequest, and the queries of reports.service that answer.   *)
(*                                                                         *)
(* The form stays enabled while a search is under way, so that several may *)
(* be; whichever answer arrives last is shown.  Opening another panel      *)
(* unmounts this one, and its answers go nowhere.  The rows do not change  *)
(* while a panel is open.                                                  *)
(***************************************************************************)
EXTENDS Integers, SequencesExt

CONSTANTS
  Values,       \* what each of the form's fields may be set to, besides nothing
  ReportRows,   \* the rows there are, for each report
  PageSize,
  MaxSearches   \* bound: searches under way

VARIABLES
  report,       \* the panel that is open
  filters,      \* its form
  searches,     \* searches under way, in the order they were sent
  result        \* what the panel shows: the state of useApiRequest

panelVars == <<report, filters, searches, result>>

-----------------------------------------------------------------------------
(* The forms *)

StudentsFields == {"status", "modality", "from", "to"}
FinancialFields == {"status", "from", "to"}
AttendanceFields == {"name", "class", "status", "from", "to"}
GraduationsFields == {"modality", "belt", "from", "to"}

Fields ==
  [students |-> StudentsFields, financial |-> FinancialFields,
   attendance |-> AttendanceFields, graduations |-> GraduationsFields]
Reports == DOMAIN Fields

ASSUME ReportsAssumption ==
  /\ PageSize \in Nat \ {0} /\ MaxSearches \in Nat \ {0}
  /\ \A kind \in Reports : IsFiniteSet(ReportRows[kind])

\* A field that is not set; the dates are numbers, and 0 is no date.
Unset(field) == IF field \in {"from", "to"} THEN 0 ELSE ""
Initial(kind) == [field \in Fields[kind] |-> Unset(field)]

-----------------------------------------------------------------------------
(* The queries *)

Given(f, field) == f[field] # Unset(field)
Same(row, f, S) == \A field \in S : Given(f, field) => row[field] = f[field]

\* period: refused when it ends before it starts.
Reversed(f) == Given(f, "from") /\ Given(f, "to") /\ f.from > f.to
Within(row, f) == (Given(f, "from") => row.date >= f.from) /\ (Given(f, "to") => row.date <= f.to)

StudentsWhere(row, f) ==
  /\ Same(row, f, {"status"}) /\ Within(row, f)
  /\ Given(f, "modality") => f.modality \in row.modalities
FinancialWhere(row, f) == Same(row, f, {"status"}) /\ Within(row, f)
AttendanceWhere(row, f) == Same(row, f, {"name", "class", "status"}) /\ Within(row, f)
GraduationsWhere(row, f) == Same(row, f, {"modality", "belt"}) /\ Within(row, f)

Where(kind, row, f) ==
  CASE kind = "students" -> StudentsWhere(row, f)
    [] kind = "financial" -> FinancialWhere(row, f)
    [] kind = "attendance" -> AttendanceWhere(row, f)
    [] kind = "graduations" -> GraduationsWhere(row, f)

Total(kind, f) == Cardinality({row \in ReportRows[kind] : Where(kind, row, f)})

\* skip and take.
Taken(total, page) == Min({PageSize, Max({0, total - (page - 1) * PageSize})})

\* Mutant of TotalPages: a page too many when the last one is full.
TotalPagesPlusOne(total) == total \div PageSize + 1

TotalPages(total) == (total + PageSize - 1) \div PageSize

-----------------------------------------------------------------------------
(* The panel *)

Showing(phase) == [phase |-> phase]

\* A search and its answer remember the values that were searched for, and walk:
\* those of the answers whose pages were turned to come here.
Answer(search) ==
  IF Reversed(search.values) THEN Showing("error")
  ELSE LET total == Total(report, search.values) IN
       [phase |-> "data", search |-> search, count |-> Taken(total, search.page),
        totalPages |-> TotalPages(total)]

ReportsTypeOK ==
  /\ report \in Reports
  /\ \A field \in Fields[report] : filters[field] \in Values[field] \cup {Unset(field)}
  /\ DOMAIN filters = Fields[report]
  /\ result.phase \in {"loading", "error", "data"}
  /\ result.phase = "loading" => searches # <<>>

\* search: execute forgets what is shown, and asks.
Execute(values, page, walk) ==
  /\ Len(searches) < MaxSearches
  /\ searches' = Append(searches, [values |-> values, page |-> page, walk |-> walk])
  /\ result' = Showing("loading")
  /\ UNCHANGED report

\* Mutant of OpenReport: the form of the panel that was open is kept.
OpenReportInPlace(kind) ==
  /\ kind # report
  /\ report' = kind
  /\ searches' = <<[values |-> Initial(kind), page |-> 1, walk |-> {}]>>
  /\ result' = Showing("loading")
  /\ UNCHANGED filters

\* Another panel is mounted, and searches with an empty form.
OpenReport(kind) ==
  /\ kind # report
  /\ report' = kind
  /\ filters' = Initial(kind)
  /\ searches' = <<[values |-> Initial(kind), page |-> 1, walk |-> {}]>>
  /\ result' = Showing("loading")

EditFilter(field, value) ==
  /\ filters' = [filters EXCEPT ![field] = value]
  /\ UNCHANGED <<report, searches, result>>

\* Pesquisar.
SubmitSearch == Execute(filters, 1, {}) /\ UNCHANGED filters

\* Mutant of Clear: it searches for what the form held before.
ClearAndSearchAgain ==
  /\ filters' = Initial(report)
  /\ Execute(filters, 1, {})

\* Limpar: the new value of the form is not there yet, and is handed to search.
Clear ==
  /\ filters' = Initial(report)
  /\ Execute(Initial(report), 1, {})

\* Anterior and Próxima, under the rows or under "Nenhum registro encontrado".
TurnPage(page) ==
  /\ result.phase = "data" /\ result.totalPages > 1
  /\ \/ page = result.search.page - 1 /\ result.search.page > 1
     \/ page = result.search.page + 1 /\ result.search.page < result.totalPages
  /\ Execute(filters, page, result.search.walk \cup {result.search.values})
  /\ UNCHANGED filters

\* The answer to any of the searches arrives, or its failure.
ReceivePage(i) ==
  /\ result' = Answer(searches[i])
  /\ searches' = RemoveAt(searches, i)
  /\ UNCHANGED <<report, filters>>

LosePage(i) ==
  /\ result' = Showing("error")
  /\ searches' = RemoveAt(searches, i)
  /\ UNCHANGED <<report, filters>>

-----------------------------------------------------------------------------
\* The page opens on the students.
ReportsInit ==
  /\ report = "students"
  /\ filters = Initial("students")
  /\ searches = <<[values |-> Initial("students"), page |-> 1, walk |-> {}]>>
  /\ result = Showing("loading")

ReportsNext ==
  \/ \E kind \in Reports : OpenReport(kind)
  \/ \E field \in Fields[report] :
       \E value \in Values[field] \cup {Unset(field)} : EditFilter(field, value)
  \/ SubmitSearch
  \/ Clear
  \/ result.phase = "data" /\ \E page \in {result.search.page - 1, result.search.page + 1} : TurnPage(page)
  \/ \E i \in DOMAIN searches : ReceivePage(i) \/ LosePage(i)

ReportsSpec == ReportsInit /\ [][ReportsNext]_panelVars

-----------------------------------------------------------------------------
(* Properties *)

\* "Nenhum registro encontrado para os filtros informados" over rows that match
\* the search is only ever seen after turning the pages of other filters (an edit
\* that was not submitted, an answer that was overtaken): the pages that the
\* service counts are those that it serves.
NothingFoundMeansNothing ==
  result.phase = "data" /\ result.count = 0 =>
    \/ Total(report, result.search.values) = 0
    \/ ~ (result.search.walk \subseteq {result.search.values})

\* A search asks for what the form shows when it has been sent (the closures of a
\* React component see the state before the update).
SearchesAskForTheForm ==
  [][Len(searches') > Len(searches) => Last(searches').values = filters']_panelVars
=============================================================================
