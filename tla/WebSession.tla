----------------------------- MODULE WebSession -----------------------------
(***************************************************************************)
(* The session of the web application: AuthContext, the interceptors of    *)
(* its HTTP client and its auth.service, the login page and the pages      *)
(* behind it, in several tabs of one browser, against the accounts of the  *)
(* backend.                                                                *)
(*                                                                         *)
(* The tabs share one stored token and nothing else: each keeps the user   *)
(* it shows.  A request carries the token that is stored when it is sent;  *)
(* an answer 401 removes the token that is stored when it arrives.  Here a *)
(* change of an account is one step: Accounts has the interleavings of its *)
(* statements.                                                             *)
(***************************************************************************)
EXTENDS Accounts, Pages

CONSTANTS
  Tabs,
  MaxRequests,  \* bound: requests in flight
  MaxOpenings   \* bound: times a tab is opened or reloaded

VARIABLES
  stored,       \* the token in localStorage
  tab,          \* the tabs: the role of the user shown, and what the tab waits for
  request,      \* requests in flight, and their answers
  opened        \* how many times a tab has been opened

webVars == <<stored, tab, request, opened>>
sessionVars == <<accountVars, webVars>>

ASSUME SessionAssumption == Roles \subseteq AllRoles /\ MaxOpenings \in Nat

-----------------------------------------------------------------------------
NoToken == [role |-> "NONE"]
Closed == [user |-> "NONE", phase |-> "closed"]
Phases == {"closed", "initializing", "ready", "submitting"}

\* restore and me are GET /auth/me, on opening a tab and after a login; a page
\* request remembers the user shown when it was sent.
Kinds == {"restore", "login", "me", "page"}
\* "passed" is a request that the guards have let through.  A 403 is told apart by its
\* message: the role, the student's standing, the operation, the teacher, the account.
Forbidden == {"403 role", "403 student", "403 operation", "403 teacher", "403 actor"}
Pending == {"sent", "passed"}
Answers == Pending \cup Forbidden \cup {"ok", "401", "failed"}
WebTypeOK ==
  /\ stored \in token \cup {NoToken}
  /\ \A t \in Tabs : tab[t].user \in Roles \cup {"NONE"} /\ tab[t].phase \in Phases
  /\ \A r \in request : /\ r.tab \in Tabs /\ r.kind \in Kinds /\ r.answer \in Answers
                        /\ r.token \in token \cup {NoToken}
  /\ opened \in 0..MaxOpenings

-----------------------------------------------------------------------------
(* Requests *)

\* The request interceptor adds the token that is stored.
Sending(t, kind, carried) ==
  [tab |-> t, kind |-> kind, token |-> carried, user |-> tab[t].user, answer |-> "sent", body |-> NoToken]

Reply(r, answer, body) == (request \ {r}) \cup {[r EXCEPT !.answer = answer, !.body = body]}
Replies(r, answer, body) == request' = Reply(r, answer, body)

\* JwtAuthGuard.
Authenticated(r) == r.token # NoToken /\ Valid(r.token)

\* GET /auth/me, and a handler that the page calls.
ServeMe(r) ==
  /\ r \in request /\ r.answer = "sent" /\ r.kind \in {"restore", "me"}
  /\ IF Authenticated(r) THEN Replies(r, "ok", [role |-> user[r.token.sub].role]) ELSE Replies(r, "401", NoToken)
  /\ UNCHANGED <<accountVars, stored, tab, opened>>

ServePage(r) ==
  /\ r \in request /\ r.answer = "sent" /\ r.kind = "page"
  /\ \/ ~ Authenticated(r) /\ Replies(r, "401", NoToken)
     \/ /\ Authenticated(r)
        /\ \E handler \in CallsShownTo(r.user) :
             IF ~ GuardLetsThrough(r.token.role, handler) THEN Replies(r, "403 role", NoToken)
             ELSE IF handler \in Rereading THEN Replies(r, "passed", [call |-> handler])
             ELSE \E answer \in Verdicts(r.token.role, handler) : Replies(r, answer, NoToken)
  /\ UNCHANGED <<accountVars, stored, tab, opened>>

\* activeActor and actor: the account is read again; lists of graduations are filtered
\* for the role that the guards have read, the rest is done as the role read now.
AnswerPage(r) ==
  /\ r \in request /\ r.answer = "passed"
  /\ LET handler == r.body.call
         row == user[r.token.sub]
         known == /\ r.token.sub \in AccountRows /\ row.active
                  /\ handler[1] = "graduations" => GuardLetsThrough(row.role, handler)
     IN
     \/ ~ known /\ Replies(r, "403 actor", NoToken)
     \/ /\ known
        /\ LET role == IF handler[2] \in {"findAll", "current"} THEN r.token.role ELSE row.role IN
           \E answer \in Verdicts(role, handler) : Replies(r, answer, NoToken)
  /\ UNCHANGED <<accountVars, stored, tab, opened>>

\* POST /auth/login, with the password p.
ServeLogin(r, u, p) ==
  /\ r \in request /\ r.answer = "sent" /\ r.kind = "login"
  /\ IF u \in AccountRows /\ user[u].active /\ user[u].password = p
     THEN LET opening == [sub |-> u, role |-> user[u].role, version |-> user[u].version, password |-> p] IN
          /\ Cardinality(token \cup {opening}) <= MaxTokens
          /\ token' = token \cup {opening}
          /\ Replies(r, "ok", opening)
     ELSE Replies(r, "401", NoToken) /\ UNCHANGED token
  /\ UNCHANGED <<user, login, update, stored, tab, opened>>

\* The request does not get through, times out, or fails in the server (404, 409, 429, 500).
LoseRequest(r) ==
  /\ r \in request /\ r.answer \in Pending
  /\ Replies(r, "failed", NoToken)
  /\ UNCHANGED <<accountVars, stored, tab, opened>>

-----------------------------------------------------------------------------
(* The tabs *)

\* A tab is opened, or loaded again: restoreSession asks who is logged in.
OpenTab(t) ==
  /\ opened < MaxOpenings /\ opened' = opened + 1
  /\ tab' = [tab EXCEPT ![t] = [user |-> "NONE", phase |-> IF stored = NoToken THEN "ready" ELSE "initializing"]]
  /\ LET others == {r \in request : r.tab # t} IN
     request' = IF stored = NoToken THEN others
                ELSE others \cup {[Sending(t, "restore", stored) EXCEPT !.user = "NONE"]}
  /\ UNCHANGED <<accountVars, stored>>

\* handleSubmit of the login page, which is shown when nobody is logged in.
SubmitLogin(t) ==
  /\ tab[t] = [user |-> "NONE", phase |-> "ready"]
  /\ Cardinality(request) < MaxRequests
  /\ tab' = [tab EXCEPT ![t].phase = "submitting"]
  /\ request' = request \cup {Sending(t, "login", stored)}
  /\ UNCHANGED <<accountVars, stored, opened>>

\* A page that is shown calls a handler.
CallFromPage(t) ==
  /\ tab[t].phase = "ready" /\ tab[t].user # "NONE"
  /\ Cardinality(request) < MaxRequests
  /\ request' = request \cup {Sending(t, "page", stored)}
  /\ UNCHANGED <<accountVars, stored, tab, opened>>

Logout(t) ==
  /\ tab[t].phase = "ready" /\ tab[t].user # "NONE"
  /\ stored' = NoToken
  /\ tab' = [tab EXCEPT ![t].user = "NONE"]
  /\ UNCHANGED <<accountVars, request, opened>>

\* Mutant of AfterAnswer: a failed restore leaves the tab initializing.
AfterAnswerButRestore(t, r) ==
  CASE r.kind \in {"restore", "me"} /\ r.answer = "ok" -> [user |-> r.body.role, phase |-> "ready"]
    [] r.kind = "login" /\ r.answer = "ok" -> tab[t]
    [] r.kind = "restore" -> [user |-> "NONE", phase |-> "initializing"]
    [] r.kind \in {"login", "me"} -> [user |-> "NONE", phase |-> "ready"]
    [] r.kind = "page" /\ r.answer = "401" -> [tab[t] EXCEPT !.user = "NONE"]
    [] OTHER -> tab[t]

\* What the tab shows and waits for once the answer has arrived.
AfterAnswer(t, r) ==
  CASE r.kind \in {"restore", "me"} /\ r.answer = "ok" -> [user |-> r.body.role, phase |-> "ready"]
    [] r.kind = "login" /\ r.answer = "ok" -> tab[t]
    [] r.kind \in {"restore", "login", "me"} -> [user |-> "NONE", phase |-> "ready"]
    [] r.kind = "page" /\ r.answer = "401" -> [tab[t] EXCEPT !.user = "NONE"]
    [] OTHER -> tab[t]

\* The answers after which the stored token is removed: by the response
\* interceptor on 401, by login and restoreSession when /auth/me fails.
Forgets(r) == r.answer = "401" \/ (r.kind \in {"restore", "me"} /\ r.answer # "ok")

\* An answer arrives.  A login that succeeds stores its token and asks /auth/me.
ReceiveAnswer(r) ==
  /\ r \in request /\ r.answer \notin Pending
  /\ LET entered == r.kind = "login" /\ r.answer = "ok" IN
     /\ stored' = IF entered THEN r.body ELSE IF Forgets(r) THEN NoToken ELSE stored
     /\ request' = (request \ {r}) \cup IF entered THEN {Sending(r.tab, "me", r.body)} ELSE {}
  /\ tab' = [tab EXCEPT ![r.tab] = AfterAnswer(r.tab, r)]
  /\ UNCHANGED <<accountVars, opened>>

-----------------------------------------------------------------------------
(* The accounts, one step at a time *)

ChangeAccount(u, change) ==
  /\ u \in AccountRows
  /\ LET row == Written(user[u], change, Critical(user[u], change)) IN
     row.version <= MaxVersion /\ user' = [user EXCEPT ![u] = row]
  /\ UNCHANGED <<token, login, update, webVars>>

DeleteAccount(u) ==
  /\ u \in AccountRows
  /\ user' = [user EXCEPT ![u] = Removed]
  /\ UNCHANGED <<token, login, update, webVars>>

-----------------------------------------------------------------------------
WebInit ==
  /\ AccountsInit
  /\ stored = NoToken
  /\ tab = [t \in Tabs |-> Closed]
  /\ request = {}
  /\ opened = 0

Backend ==
  \E r \in request : \/ ServeMe(r) \/ ServePage(r) \/ AnswerPage(r) \/ LoseRequest(r)
                     \/ \E u \in AccountIds, p \in Passwords : ServeLogin(r, u, p)

WebNext ==
  \/ \E t \in Tabs : OpenTab(t) \/ SubmitLogin(t) \/ CallFromPage(t) \/ Logout(t)
  \/ \E r \in request : ReceiveAnswer(r)
  \/ Backend
  \/ \E u \in AccountIds : (\E change \in Changes : ChangeAccount(u, change)) \/ DeleteAccount(u)

WebSpec == WebInit /\ [][WebNext]_sessionVars

\* Every request is answered or given up (the client's timeout), and every
\* answer arrives.
WebFairness ==
  \A t \in Tabs : /\ WF_sessionVars(\E r \in request : r.tab = t /\ LoseRequest(r))
                  /\ WF_sessionVars(\E r \in request : r.tab = t /\ ReceiveAnswer(r))

-----------------------------------------------------------------------------
(* Properties *)

\* Why the user of a tab may be refused: another tab has logged in with another role; the
\* session ended while the request was under way; a teacher asks for what is in the
\* classes of others; a student is paused, inactive or gone.
Excused(r) ==
  \/ r.user # r.token.role
  \/ ~ Valid(r.token) /\ r.answer \in {"403 actor", "403 teacher"}
  \/ r.user = "TEACHER" /\ r.answer = "403 teacher"
  \/ r.user = "ALUNO" /\ r.answer \in {"403 student", "403 operation"}

\* The pages call nothing that the role they are shown to may not call, for all pages,
\* roles and handlers: nobody is refused with a 403 for any other reason, and the
\* managers and the reception for none while their session lasts.
ForbiddenHasAReason ==
  \A r \in request : r.answer \in Forbidden => Excused(r)

\* A session ends without its user only for a reason: when an answer removes the
\* token its request was sent with, that token is dead for good (the version,
\* the role and the state of the account), or nothing could be learnt of it.
OnlyDeadTokensForgotten ==
  [][\A r \in request :
       /\ r \notin request' /\ r.answer = "401" /\ r.kind # "login"
       /\ stored # NoToken /\ r.token = stored /\ stored' = NoToken
       => ~ Valid(stored)]_sessionVars

\* A tab that is being opened and a login that is being sent come to an end,
\* whatever is lost or refused on the way (the finally clauses).
TabsSettle ==
  \A t \in Tabs : (tab[t].phase \in {"initializing", "submitting"}) ~> (tab[t].phase = "ready")
=============================================================================
