---------------------------- MODULE AccessProofs ----------------------------
(***************************************************************************)
(* Theorems about Accounts and LoginAttempts for every value of their      *)
(* constants.                                                              *)
(***************************************************************************)
EXTENDS AccessMC, TLAPS

-----------------------------------------------------------------------------
(* The inductive invariant of Accounts *)

\* What a login and an update in flight remember.
LoginRequest == [op : {"verified", "upgraded"}, sub : AccountIds, seen : User]
UpdateRequest ==
  [op : {"update", "remove"}, sub : AccountIds, actor : UserManagers, change : Change,
   bump : BOOLEAN, seen : Seen]

AccountsTyped ==
  /\ user \in [AccountIds -> User \cup {Missing, Removed}]
  /\ token \subseteq Token
  /\ login \in [Logins -> {NoRequest} \cup LoginRequest]
  /\ update \in [Updates -> {NoRequest} \cup UpdateRequest]

\* No session, open or about to open, is ahead of its account.
NoneAhead ==
  \A t \in Sessions :
    /\ user[t.sub] # Missing
    /\ t.sub \in AccountRows => t.version <= user[t.sub].version

\* An update in flight was allowed on what it has read, and leaves the sessions open
\* only if it changes nothing of that.
Permitted(j) == j.seen.role = "OWNER" => j.actor = "OWNER"
Harmless(j) ==
  /\ j.change.role \subseteq {j.seen.role} /\ j.change.active \subseteq {j.seen.active}
  /\ j.change.password \subseteq {j.seen.password}
UpdatesDecided ==
  \A r \in Updates : update[r] # NoRequest =>
    Permitted(update[r]) /\ (~ update[r].bump => Harmless(update[r]))

AccountsInv == AccountsTyped /\ NoneAhead /\ UpdatesDecided

-----------------------------------------------------------------------------
(* Rows *)

LEMMA RowKinds ==
  /\ Missing \notin User /\ Removed \notin User /\ Missing # Removed
  /\ NoRequest \notin LoginRequest /\ NoRequest \notin UpdateRequest
  BY DEF Missing, Removed, User, NoRequest, LoginRequest, UpdateRequest

LEMMA RowsAreUsers ==
  ASSUME AccountsTyped, NEW u \in AccountIds
  PROVE  u \in AccountRows <=> user[u] \in User
  BY RowKinds DEF AccountsTyped, AccountRows

\* A field is written only if it is sent.
LEMMA SentValue ==
  ASSUME NEW S, NEW old \in S, NEW values \in Optional(S)
  PROVE  /\ Sent(values, old) \in S
         /\ values = {} => Sent(values, old) = old
         /\ values \subseteq {old} => Sent(values, old) = old
<1>1. CASE values = {}
  BY <1>1 DEF Sent
<1>2. CASE values # {}
  <2>1. PICK x \in S : values = {x}
    BY <1>2 DEF Optional
  <2>2. Sent(values, old) = x
    BY <1>2, <2>1 DEF Sent
  <2> QED BY <1>2, <2>1, <2>2
<1> QED BY <1>1, <1>2

LEMMA WrittenRow ==
  ASSUME NEW row \in User, NEW change \in Change, NEW bump \in BOOLEAN,
         Written(row, change, bump).version <= MaxVersion
  PROVE  /\ Written(row, change, bump) \in User
         /\ Written(row, change, bump).version = IF bump THEN row.version + 1 ELSE row.version
<1> DEFINE w == Written(row, change, bump)
<1>1. /\ row.role \in Roles /\ row.active \in BOOLEAN /\ row.password \in Passwords
      /\ row.hash \in {"current", "outdated"} /\ row.version \in Nat
      /\ change.role \in Optional(Roles) /\ change.active \in Optional(BOOLEAN)
      /\ change.password \in Optional(Passwords)
  BY DEF User, Change
<1>2. /\ Sent(change.role, row.role) \in Roles /\ Sent(change.active, row.active) \in BOOLEAN
      /\ Sent(change.password, row.password) \in Passwords
  BY <1>1, SentValue
<1>3. w.version = IF bump THEN row.version + 1 ELSE row.version
  BY DEF Written
<1>4. (IF bump THEN row.version + 1 ELSE row.version) \in 0..MaxVersion
  BY <1>1, <1>3, AccountsAssumption
<1>5. w \in User
  BY <1>1, <1>2, <1>4 DEF Written, User
<1> QED BY <1>3, <1>5

LEMMA HarmlessWrite ==
  ASSUME NEW row \in User, NEW change \in Change, NEW bump \in BOOLEAN,
         change.role \subseteq {row.role}, change.active \subseteq {row.active},
         change.password \subseteq {row.password}
  PROVE  LET w == Written(row, change, bump) IN
         w.role = row.role /\ w.active = row.active /\ w.password = row.password
<1>1. /\ row.role \in Roles /\ row.active \in BOOLEAN /\ row.password \in Passwords
      /\ change.role \in Optional(Roles) /\ change.active \in Optional(BOOLEAN)
      /\ change.password \in Optional(Passwords)
  BY DEF User, Change
<1>2. /\ Sent(change.role, row.role) = row.role /\ Sent(change.active, row.active) = row.active
      /\ Sent(change.password, row.password) = row.password
  BY <1>1, SentValue
<1> QED BY <1>2 DEF Written

\* A request that has not read stale fields has read the fields there are.
LEMMA NotStale ==
  ASSUME AccountsTyped, NEW r \in Updates, update[r] # NoRequest, update'[r] = NoRequest,
         update[r].sub \in AccountRows, ~ WritesStale(r)
  PROVE  LET row == user[update[r].sub] seen == update[r].seen IN
         seen.role = row.role /\ seen.active = row.active /\ seen.password = row.password
<1>1. update[r].seen \in Seen
  BY DEF AccountsTyped, UpdateRequest
<1>2. DOMAIN update[r].seen = {"role", "active", "password"}
  BY <1>1 DEF Seen
<1>3. user[update[r].sub] # Removed
  BY DEF AccountRows
<1>4. \A f \in DOMAIN update[r].seen : update[r].seen[f] = user[update[r].sub][f]
  BY <1>3 DEF WritesStale
<1> QED BY <1>2, <1>4

-----------------------------------------------------------------------------
(* Sessions *)

LEMMA SessionTypes ==
  ASSUME AccountsTyped, NEW t \in Sessions
  PROVE  t \in Token
<1>1. CASE t \in token
  BY <1>1 DEF AccountsTyped
<1>2. CASE t \notin token
  <2>1. PICK l \in Logins : login[l] # NoRequest /\ t = Signed(l)
    BY <1>2 DEF Sessions
  <2>2. login[l].sub \in AccountIds /\ login[l].seen \in User
    BY <2>1 DEF AccountsTyped, LoginRequest
  <2> QED BY <2>1, <2>2 DEF Signed, Token, User
<1> QED BY <1>1, <1>2

\* What each handler does to the rows, the logins and the sessions.
LEMMA LoginEffect ==
  ASSUME AccountsTyped, NEW l \in Logins, NEW u \in AccountIds, NEW p \in Passwords, Login(l, u, p)
  PROVE  /\ AccountsTyped' /\ user[u] \in User /\ UNCHANGED <<user, update>>
         /\ \A t \in Sessions' : \/ t \in Sessions
                                 \/ /\ t.sub = u /\ t.version = user[u].version
                                    /\ t.password = user[u].password
<1> DEFINE j == [op |-> "verified", sub |-> u, seen |-> user[u]]
<1>1. user[u] \in User
  BY RowsAreUsers DEF Login
<1>2. j \in LoginRequest /\ j.sub = u /\ j.seen = user[u]
  BY <1>1 DEF LoginRequest
<1>3. login' = [login EXCEPT ![l] = j] /\ UNCHANGED <<user, token, update>>
  BY DEF Login
<1> HIDE DEF j
<1>4. AccountsTyped' /\ login'[l] = j /\ \A k \in Logins \ {l} : login'[k] = login[k]
  BY <1>2, <1>3 DEF AccountsTyped
<1>5. ASSUME NEW t \in Sessions', t \notin Sessions
      PROVE  t.sub = u /\ t.version = user[u].version /\ t.password = user[u].password
  <2>1. PICK k \in Logins : login'[k] # NoRequest /\ t = Signed(k)'
    BY <1>3, <1>5 DEF Sessions
  <2>2. k = l
    BY <1>4, <1>5, <2>1 DEF Sessions, Signed
  <2> QED BY <1>2, <1>4, <2>1, <2>2 DEF Signed
<1> QED BY <1>1, <1>3, <1>4, <1>5

LEMMA UpgradeEffect ==
  ASSUME AccountsTyped, NEW l \in Logins, UpgradeHash(l)
  PROVE  /\ AccountsTyped' /\ Sessions' = Sessions /\ UNCHANGED update
         /\ \A u \in AccountIds :
              \/ user'[u] = user[u]
              \/ /\ user[u] \in User /\ user'[u] \in User
                 /\ user'[u] = [user[u] EXCEPT !.hash = "current"]
                 /\ user'[u].role = user[u].role /\ user'[u].active = user[u].active
                 /\ user'[u].password = user[u].password /\ user'[u].version = user[u].version
<1>1. login[l] \in LoginRequest /\ login[l] # NoRequest
  BY DEF AccountsTyped, UpgradeHash, NoRequest
<1> DEFINE j == [login[l] EXCEPT !.op = "upgraded"]
<1>2. j \in LoginRequest /\ j.sub = login[l].sub /\ j.seen = login[l].seen /\ j # NoRequest
  BY <1>1 DEF LoginRequest, NoRequest
<1>3. login' = [login EXCEPT ![l] = j] /\ UNCHANGED <<token, update>>
  BY DEF UpgradeHash
<1> HIDE DEF j
<1>4. /\ login' \in [Logins -> {NoRequest} \cup LoginRequest] /\ login'[l] = j
      /\ \A k \in Logins \ {l} : login'[k] = login[k]
  BY <1>2, <1>3 DEF AccountsTyped
<1>5. Sessions' = Sessions
  <2>1. \A k \in Logins : (login'[k] # NoRequest) = (login[k] # NoRequest)
    BY <1>1, <1>2, <1>4
  <2>2. \A k \in Logins : login[k] # NoRequest => Signed(k)' = Signed(k)
    BY <1>2, <1>4 DEF Signed
  <2> QED BY <1>3, <2>1, <2>2 DEF Sessions
<1> DEFINE u == login[l].sub  row == [user[u] EXCEPT !.hash = "current"]
<1>6. CASE user' = user
  BY <1>3, <1>4, <1>5, <1>6 DEF AccountsTyped
<1>7. CASE user' # user
  <2>1. u \in AccountRows /\ user' = [user EXCEPT ![u] = row]
    BY <1>7, Zenon DEF UpgradeHash
  <2>2. u \in AccountIds /\ user[u] \in User
    BY <1>1, <2>1, RowsAreUsers DEF LoginRequest
  <2>3. /\ row \in User /\ row.role = user[u].role /\ row.active = user[u].active
        /\ row.password = user[u].password /\ row.version = user[u].version
    BY <2>2 DEF User
  <2>4. row = [user[u] EXCEPT !.hash = "current"]
    OBVIOUS
  <2> HIDE DEF u, row
  <2>5. user'[u] = row /\ \A w \in AccountIds \ {u} : user'[w] = user[w]
    BY <2>1, <2>2 DEF AccountsTyped
  <2>6. AccountsTyped'
    BY <1>3, <1>4, <2>1, <2>3 DEF AccountsTyped
  <2> QED BY <1>3, <1>5, <2>2, <2>3, <2>4, <2>5, <2>6
<1> QED BY <1>6, <1>7

LEMMA SignEffect ==
  ASSUME AccountsTyped, NEW l \in Logins, Sign(l) \/ AbortLogin(l)
  PROVE  AccountsTyped' /\ Sessions' \subseteq Sessions /\ UNCHANGED <<user, update>>
<1>1. /\ login[l] # NoRequest /\ login' = [login EXCEPT ![l] = NoRequest]
      /\ UNCHANGED <<user, update>> /\ token' \subseteq token \cup {Signed(l)}
  BY DEF Sign, AbortLogin
<1>2. /\ login' \in [Logins -> {NoRequest} \cup LoginRequest] /\ login'[l] = NoRequest
      /\ \A k \in Logins \ {l} : login'[k] = login[k]
  BY <1>1 DEF AccountsTyped
<1>3. Signed(l) \in Sessions /\ token \subseteq Sessions
  BY <1>1 DEF Sessions
<1>4. Sessions' \subseteq Sessions
  <2>1. ASSUME NEW k \in Logins, login'[k] # NoRequest
        PROVE  Signed(k)' \in Sessions
    <3>1. login'[k] = login[k]
      BY <1>2, <2>1
    <3>2. Signed(k)' = Signed(k)
      BY <3>1 DEF Signed
    <3> QED BY <2>1, <3>1, <3>2 DEF Sessions
  <2> QED BY <1>1, <1>3, <2>1 DEF Sessions
<1>5. Signed(l) \in Token
  BY <1>3, SessionTypes
<1> QED BY <1>1, <1>2, <1>4, <1>5 DEF AccountsTyped

\* A step of the administration opens no session.
LEMMA SessionsSame ==
  ASSUME UNCHANGED <<token, login>>
  PROVE  Sessions' = Sessions
<1>1. \A l \in Logins : Signed(l)' = Signed(l)
  BY DEF Signed
<1> QED BY <1>1 DEF Sessions

-----------------------------------------------------------------------------
(* The administration *)

LEMMA CreateEffect ==
  ASSUME AccountsTyped, NEW u \in AccountIds, NEW row \in User, NEW actor, CreateAccount(u, row, actor)
  PROVE  /\ AccountsTyped' /\ UNCHANGED <<token, login, update>>
         /\ user[u] = Missing /\ \A w \in AccountIds \ {u} : user'[w] = user[w]
  BY DEF AccountsTyped, CreateAccount

LEMMA DecideEffect ==
  ASSUME AccountsTyped, UpdatesDecided,
         NEW r \in Updates, NEW u \in AccountIds, NEW actor \in UserManagers,
         NEW op \in {"update", "remove"}, NEW change \in Change, NEW bump \in BOOLEAN,
         MayManage(actor, user[u]), Decide(r, u, actor, op, change, bump),
         ~ bump => /\ change.role \subseteq {user[u].role}
                   /\ change.active \subseteq {user[u].active}
                   /\ change.password \subseteq {user[u].password}
  PROVE  AccountsTyped' /\ UpdatesDecided' /\ UNCHANGED <<user, token, login>>
<1> DEFINE j == [op |-> op, sub |-> u, actor |-> actor, change |-> change, bump |-> bump,
                 seen |-> SeenOf(user[u])]
<1>1. user[u] \in User
  BY RowsAreUsers DEF Decide
<1>2. SeenOf(user[u]) \in Seen
  BY <1>1 DEF SeenOf, Seen, User
<1>3. j \in UpdateRequest
  BY <1>2 DEF UpdateRequest
<1>4. Permitted(j)
  BY DEF Permitted, MayManage, SeenOf
<1>5. ~ j.bump => Harmless(j)
  BY DEF Harmless, SeenOf
<1>6. update' = [update EXCEPT ![r] = j] /\ UNCHANGED <<user, token, login>>
  BY DEF Decide
<1> HIDE DEF j
<1>7. AccountsTyped'
  BY <1>3, <1>6 DEF AccountsTyped
<1>8. UpdatesDecided'
  BY <1>4, <1>5, <1>6 DEF UpdatesDecided, AccountsTyped
<1> QED BY <1>6, <1>7, <1>8

LEMMA UpdateAccountEffect ==
  ASSUME AccountsTyped, UpdatesDecided,
         NEW r \in Updates, NEW u \in AccountIds, NEW actor \in UserManagers, NEW self \in BOOLEAN,
         NEW change \in Changes, UpdateAccount(r, u, actor, self, change)
  PROVE  AccountsTyped' /\ UpdatesDecided' /\ UNCHANGED <<user, token, login>>
<1> DEFINE bump == Critical(user[u], change)
<1>1. change \in Change /\ MayManage(actor, user[u]) /\ bump \in BOOLEAN
      /\ Decide(r, u, actor, "update", change, bump)
  BY AccountsAssumption DEF UpdateAccount, Critical
<1>2. ~ bump => /\ change.role \subseteq {user[u].role}
                /\ change.active \subseteq {user[u].active}
                /\ change.password \subseteq {user[u].password}
  BY DEF Critical
<1> HIDE DEF bump
<1> QED BY <1>1, <1>2, DecideEffect

LEMMA MakeOwnerEffect ==
  ASSUME AccountsTyped, UpdatesDecided,
         NEW r \in Updates, NEW u \in AccountIds, NEW p \in Passwords, MakeOwner(r, u, p)
  PROVE  AccountsTyped' /\ UpdatesDecided' /\ UNCHANGED <<user, token, login>>
<1> DEFINE same == user[u].password = p
           change == [role |-> {"OWNER"}, active |-> {TRUE},
                      password |-> IF same /\ user[u].hash = "current" THEN {} ELSE {p}]
           bump == ~ same \/ user[u].role # "OWNER" \/ ~ user[u].active
<1>1. Decide(r, u, "OWNER", "update", change, bump) /\ bump \in BOOLEAN
  BY DEF MakeOwner
<1>2. change \in Change
  BY AccountsAssumption DEF Change, Optional
<1>3. user[u] \in User
  BY RowsAreUsers DEF MakeOwner, Decide
<1>4. ~ bump => /\ change.role \subseteq {user[u].role}
                /\ change.active \subseteq {user[u].active}
                /\ change.password \subseteq {user[u].password}
  <2> SUFFICES ASSUME ~ bump
               PROVE  /\ change.role \subseteq {user[u].role}
                      /\ change.active \subseteq {user[u].active}
                      /\ change.password \subseteq {user[u].password}
    OBVIOUS
  <2>1. user[u].role = "OWNER" /\ user[u].password = p
    OBVIOUS
  <2>2. user[u].active = TRUE
    BY <1>3 DEF User
  <2> QED BY <2>1, <2>2
<1>5. MayManage("OWNER", user[u]) /\ "OWNER" \in UserManagers
  BY DEF MayManage, UserManagers
<1> HIDE DEF change, bump
<1> QED BY <1>1, <1>2, <1>4, <1>5, DecideEffect

LEMMA RemoveEffect ==
  ASSUME AccountsTyped, UpdatesDecided,
         NEW r \in Updates, NEW u \in AccountIds, NEW actor \in UserManagers, RemoveAccount(r, u, actor)
  PROVE  AccountsTyped' /\ UpdatesDecided' /\ UNCHANGED <<user, token, login>>
<1>1. /\ NoChange \in Change /\ NoChange.role = {} /\ NoChange.active = {} /\ NoChange.password = {}
  BY DEF NoChange, Change, Optional
<1> QED BY <1>1, DecideEffect DEF RemoveAccount

LEMMA UpdateEnds ==
  ASSUME AccountsTyped, UpdatesDecided, NEW r \in Updates, update' = [update EXCEPT ![r] = NoRequest]
  PROVE  /\ update' \in [Updates -> {NoRequest} \cup UpdateRequest] /\ update'[r] = NoRequest
         /\ UpdatesDecided'
  BY DEF AccountsTyped, UpdatesDecided

\* What an update writes on the account, and that it does so as it was decided.
LEMMA WriteEffect ==
  ASSUME AccountsTyped, UpdatesDecided, NEW r \in Updates, UpdateWrite(r)
  PROVE  LET u == update[r].sub IN
         /\ AccountsTyped' /\ UpdatesDecided' /\ UNCHANGED <<token, login>>
         /\ u \in AccountIds /\ user[u] \in User /\ user'[u] \in User
         /\ update[r] \in UpdateRequest /\ update[r] # NoRequest /\ update'[r] = NoRequest
         /\ Permitted(update[r])
         /\ user[u].version <= user'[u].version
         /\ \A w \in AccountIds \ {u} : user'[w] = user[w]
         /\ \/ WritesStale(r)
            \/ /\ update[r].seen.role = user[u].role
               /\ \/ user[u].version < user'[u].version
                  \/ /\ user'[u].role = user[u].role /\ user'[u].active = user[u].active
                     /\ user'[u].password = user[u].password /\ user'[u].version = user[u].version
<1> DEFINE u == update[r].sub
           j == update[r]
           w == Written(user[u], j.change, j.bump)
<1>1. /\ u \in AccountRows /\ w.version <= MaxVersion /\ user' = [user EXCEPT ![u] = w]
      /\ update' = [update EXCEPT ![r] = NoRequest] /\ UNCHANGED <<token, login>>
  BY DEF UpdateWrite
<1>2. j \in UpdateRequest /\ j # NoRequest
  BY DEF UpdateWrite, AccountsTyped, NoRequest
<1>3. /\ u \in AccountIds /\ j.change \in Change /\ j.bump \in BOOLEAN /\ user[u] \in User
  BY <1>1, <1>2, RowsAreUsers DEF UpdateRequest
<1>4. Permitted(j) /\ (~ j.bump => Harmless(j))
  BY <1>2 DEF UpdatesDecided
<1>5. w \in User /\ w.version = IF j.bump THEN user[u].version + 1 ELSE user[u].version
  BY <1>1, <1>3, WrittenRow
<1>6. user[u].version \in Nat
  BY <1>3 DEF User
<1>7. user'[u] = w /\ \A k \in AccountIds \ {u} : user'[k] = user[k]
  BY <1>1, <1>3 DEF AccountsTyped
<1>8. AccountsTyped' /\ UpdatesDecided' /\ update'[r] = NoRequest
  BY <1>1, <1>5, UpdateEnds DEF AccountsTyped
<1>9. ASSUME ~ WritesStale(r)
      PROVE  /\ j.seen.role = user[u].role
             /\ \/ user[u].version < w.version
                \/ /\ w.role = user[u].role /\ w.active = user[u].active
                   /\ w.password = user[u].password /\ w.version = user[u].version
  <2>1. /\ j.seen.role = user[u].role /\ j.seen.active = user[u].active
        /\ j.seen.password = user[u].password
    BY <1>1, <1>2, <1>8, <1>9, NotStale
  <2>2. CASE j.bump
    <3>1. w.version = user[u].version + 1
      BY <1>5, <2>2
    <3>2. user[u].version < w.version
      <4> DEFINE v == user[u].version
      <4>1. v \in Nat /\ w.version = v + 1
        BY <1>6, <3>1
      <4> HIDE DEF v, w
      <4>2. v < w.version
        BY <4>1
      <4> QED BY <4>2 DEF v
    <3> QED BY <2>1, <3>2
  <2>3. CASE ~ j.bump
    <3>1. /\ j.change.role \subseteq {user[u].role} /\ j.change.active \subseteq {user[u].active}
          /\ j.change.password \subseteq {user[u].password}
      BY <1>4, <2>1, <2>3 DEF Harmless
    <3>2. w.role = user[u].role /\ w.active = user[u].active /\ w.password = user[u].password
      BY <1>3, <3>1, HarmlessWrite
    <3> QED BY <1>5, <2>1, <2>3, <3>2
  <2> QED BY <2>2, <2>3
<1> HIDE DEF w
<1> QED BY <1>1, <1>2, <1>3, <1>4, <1>5, <1>6, <1>7, <1>8, <1>9

LEMMA RemoveWriteEffect ==
  ASSUME AccountsTyped, UpdatesDecided, NEW r \in Updates, RemoveAccountWrite(r)
  PROVE  LET u == update[r].sub IN
         /\ AccountsTyped' /\ UpdatesDecided' /\ UNCHANGED <<token, login>>
         /\ u \in AccountIds /\ user'[u] = Removed
         /\ update[r] # NoRequest /\ update'[r] = NoRequest
         /\ Permitted(update[r])
         /\ \A w \in AccountIds \ {u} : user'[w] = user[w]
         /\ WritesStale(r) \/ update[r].seen.role = user[u].role
<1> DEFINE u == update[r].sub
<1>1. /\ u \in AccountRows /\ user' = [user EXCEPT ![u] = Removed]
      /\ update' = [update EXCEPT ![r] = NoRequest] /\ UNCHANGED <<token, login>>
  BY DEF RemoveAccountWrite
<1>2. update[r] # NoRequest /\ Permitted(update[r])
  BY DEF RemoveAccountWrite, NoRequest, UpdatesDecided
<1>3. u \in AccountIds /\ user'[u] = Removed /\ \A k \in AccountIds \ {u} : user'[k] = user[k]
  BY <1>1 DEF AccountsTyped, AccountRows
<1>4. AccountsTyped' /\ UpdatesDecided' /\ update'[r] = NoRequest
  BY <1>1, UpdateEnds DEF AccountsTyped
<1>5. ~ WritesStale(r) => update[r].seen.role = user[u].role
  BY <1>1, <1>2, <1>4, NotStale
<1> QED BY <1>1, <1>2, <1>3, <1>4, <1>5

-----------------------------------------------------------------------------
(* Steps *)

\* Every step is one of six kinds.
Opens(l, u) ==
  /\ UNCHANGED <<user, update>> /\ u \in AccountIds /\ user[u] \in User
  /\ \A t \in Sessions' : \/ t \in Sessions
                          \/ /\ t.sub = u /\ t.version = user[u].version
                             /\ t.password = user[u].password
Upgrades ==
  /\ Sessions' = Sessions /\ UNCHANGED update
  /\ \A u \in AccountIds :
       \/ user'[u] = user[u]
       \/ /\ user[u] \in User /\ user'[u] \in User
          /\ user'[u] = [user[u] EXCEPT !.hash = "current"]
          /\ user'[u].role = user[u].role /\ user'[u].active = user[u].active
          /\ user'[u].password = user[u].password /\ user'[u].version = user[u].version
Rests == Sessions' \subseteq Sessions /\ UNCHANGED user
Creates(u) ==
  /\ Sessions' = Sessions /\ UNCHANGED update
  /\ user[u] = Missing /\ \A w \in AccountIds \ {u} : user'[w] = user[w]
Writes(r, u) ==
  /\ Sessions' = Sessions /\ u = update[r].sub
  /\ u \in AccountIds /\ user[u] \in User /\ user'[u] \in User
  /\ update[r] # NoRequest /\ update'[r] = NoRequest /\ Permitted(update[r])
  /\ user[u].version <= user'[u].version
  /\ \A w \in AccountIds \ {u} : user'[w] = user[w]
  /\ \/ WritesStale(r)
     \/ /\ update[r].seen.role = user[u].role
        /\ \/ user[u].version < user'[u].version
           \/ /\ user'[u].role = user[u].role /\ user'[u].active = user[u].active
              /\ user'[u].password = user[u].password /\ user'[u].version = user[u].version
Deletes(r, u) ==
  /\ Sessions' = Sessions /\ u = update[r].sub
  /\ u \in AccountIds /\ user'[u] = Removed
  /\ update[r] # NoRequest /\ update'[r] = NoRequest /\ Permitted(update[r])
  /\ \A w \in AccountIds \ {u} : user'[w] = user[w]
  /\ WritesStale(r) \/ update[r].seen.role = user[u].role

LEMMA StepKinds ==
  ASSUME AccountsTyped, UpdatesDecided, [AccountsNext]_accountVars
  PROVE  /\ AccountsTyped' /\ UpdatesDecided'
         /\ \/ \E l \in Logins, u \in AccountIds : Opens(l, u)
            \/ Upgrades \/ Rests
            \/ \E u \in AccountIds : Creates(u)
            \/ \E r \in Updates, u \in AccountIds : Writes(r, u) \/ Deletes(r, u)
<1> DEFINE Kinds == \/ \E l \in Logins, u \in AccountIds : Opens(l, u)
                    \/ Upgrades \/ Rests
                    \/ \E u \in AccountIds : Creates(u)
                    \/ \E r \in Updates, u \in AccountIds : Writes(r, u) \/ Deletes(r, u)
           Goal == AccountsTyped' /\ UpdatesDecided' /\ Kinds
<1>1. ASSUME NEW l \in Logins, NEW u \in AccountIds, NEW p \in Passwords, Login(l, u, p)
      PROVE  Goal
  <2>1. AccountsTyped' /\ Opens(l, u)
    BY <1>1, LoginEffect DEF Opens
  <2>2. UpdatesDecided'
    BY <2>1 DEF Opens, UpdatesDecided, Permitted, Harmless
  <2> QED BY <2>1, <2>2
<1>2. ASSUME NEW l \in Logins, UpgradeHash(l)
      PROVE  Goal
  <2>1. AccountsTyped' /\ Upgrades
    BY <1>2, UpgradeEffect DEF Upgrades
  <2>2. UpdatesDecided'
    BY <2>1 DEF Upgrades, UpdatesDecided, Permitted, Harmless
  <2> QED BY <2>1, <2>2
<1>3. ASSUME NEW l \in Logins, Sign(l) \/ AbortLogin(l)
      PROVE  Goal
  <2>1. AccountsTyped' /\ Rests /\ UNCHANGED update
    BY <1>3, SignEffect DEF Rests
  <2>2. UpdatesDecided'
    BY <2>1 DEF UpdatesDecided, Permitted, Harmless
  <2> QED BY <2>1, <2>2
<1>4. ASSUME NEW u \in AccountIds, NEW row \in User, NEW actor, CreateAccount(u, row, actor)
      PROVE  Goal
  <2>1. AccountsTyped' /\ Creates(u)
    BY <1>4, CreateEffect, SessionsSame DEF Creates
  <2>2. UpdatesDecided'
    BY <2>1 DEF Creates, UpdatesDecided, Permitted, Harmless
  <2> QED BY <2>1, <2>2
<1>5. ASSUME NEW r \in Updates, NEW u \in AccountIds, NEW actor \in UserManagers,
             \/ \E self \in BOOLEAN, change \in Changes : UpdateAccount(r, u, actor, self, change)
             \/ RemoveAccount(r, u, actor)
             \/ \E p \in Passwords : MakeOwner(r, u, p)
      PROVE  Goal
  <2>1. AccountsTyped' /\ UpdatesDecided' /\ UNCHANGED <<user, token, login>>
    BY <1>5, UpdateAccountEffect, RemoveEffect, MakeOwnerEffect
  <2>2. Rests
    BY <2>1, SessionsSame DEF Rests
  <2> QED BY <2>1, <2>2
<1>6. ASSUME NEW r \in Updates, UpdateWrite(r)
      PROVE  Goal
  <2> DEFINE u == update[r].sub
  <2>1. AccountsTyped' /\ UpdatesDecided' /\ UNCHANGED <<token, login>>
    BY <1>6, WriteEffect
  <2>2. Writes(r, u) /\ u \in AccountIds
    BY <1>6, <2>1, WriteEffect, SessionsSame DEF Writes
  <2> QED BY <2>1, <2>2
<1>7. ASSUME NEW r \in Updates, RemoveAccountWrite(r)
      PROVE  Goal
  <2> DEFINE u == update[r].sub
  <2>1. AccountsTyped' /\ UpdatesDecided' /\ UNCHANGED <<token, login>>
    BY <1>7, RemoveWriteEffect
  <2>2. Deletes(r, u) /\ u \in AccountIds
    BY <1>7, <2>1, RemoveWriteEffect, SessionsSame DEF Deletes
  <2> QED BY <2>1, <2>2
<1>8. ASSUME NEW r \in Updates, AbortUpdate(r)
      PROVE  Goal
  <2>1. UNCHANGED <<user, token, login>> /\ update' = [update EXCEPT ![r] = NoRequest]
    BY <1>8 DEF AbortUpdate
  <2>2. AccountsTyped' /\ UpdatesDecided'
    BY <2>1, UpdateEnds DEF AccountsTyped
  <2>3. Rests
    BY <2>1, SessionsSame DEF Rests
  <2> QED BY <2>2, <2>3
<1>9. ASSUME UNCHANGED accountVars PROVE Goal
  <2>1. AccountsTyped' /\ UpdatesDecided'
    BY <1>9 DEF accountVars, AccountsTyped, UpdatesDecided, Permitted, Harmless
  <2>2. Rests
    BY <1>9, SessionsSame DEF Rests, accountVars
  <2> QED BY <2>1, <2>2
<1>10. \A row \in NewAccount : row \in User
  BY DEF NewAccount
<1>11. ASSUME NEW r \in Updates, NEW u \in AccountIds, NEW p \in Passwords, CreateOwner(r, u, p)
       PROVE  Goal
  <2> DEFINE row == [role |-> "OWNER", active |-> TRUE, password |-> p,
                     hash |-> "current", version |-> 0]
  <2>1. CASE MakeOwner(r, u, p)
    BY <1>5, <2>1 DEF UserManagers
  <2>2. CASE CreateAccount(u, row, "OWNER")
    <3>1. row \in User
      BY AccountsAssumption DEF User
    <3> HIDE DEF row
    <3> QED BY <1>4, <2>2, <3>1
  <2> QED BY <1>11, <2>1, <2>2 DEF CreateOwner
<1> HIDE DEF Goal
<1>12. ASSUME Administer PROVE Goal
  BY <1>4, <1>5, <1>6, <1>7, <1>8, <1>10, <1>11, <1>12 DEF Administer
<1>13. ASSUME Enter PROVE Goal
  BY <1>1, <1>2, <1>3, <1>13 DEF Enter
<1>14. Goal
  BY <1>9, <1>12, <1>13 DEF AccountsNext
<1> QED BY <1>14 DEF Goal

\* No session of the account whose row this is can be ahead of it.
Fits(t, row) == row # Missing /\ (row \in User => t.version <= row.version)

AllFit == \A t \in Sessions : Fits(t, user[t.sub])

LEMMA NoneAheadRows == AccountsTyped => (NoneAhead <=> AllFit)
<1> SUFFICES ASSUME AccountsTyped PROVE NoneAhead <=> AllFit
  OBVIOUS
<1>1. \A t \in Sessions : t.sub \in AccountIds
  BY SessionTypes DEF Token
<1>2. \A t \in Sessions : t.sub \in AccountRows <=> user[t.sub] \in User
  BY <1>1, RowsAreUsers
<1> QED BY <1>2 DEF NoneAhead, Fits, AllFit

LEMMA VersionTypes ==
  ASSUME AccountsTyped
  PROVE  /\ \A t \in Sessions : t.sub \in AccountIds /\ t.version \in Nat
         /\ \A row \in User : row.version \in Nat
  BY SessionTypes DEF Token, User

LEMMA NoneAheadStep ==
  ASSUME AccountsTyped, UpdatesDecided, NoneAhead, [AccountsNext]_accountVars
  PROVE  NoneAhead'
<1>1. AccountsTyped'
  BY StepKinds
<1>2. /\ \A t \in Sessions : t.sub \in AccountIds /\ t.version \in Nat /\ Fits(t, user[t.sub])
      /\ \A row \in User : row.version \in Nat
  BY VersionTypes, NoneAheadRows DEF AllFit
<1> DEFINE Goal == \A t \in Sessions' : Fits(t, user'[t.sub])
<1>3. ASSUME NEW l \in Logins, NEW u \in AccountIds, Opens(l, u)
      PROVE  Goal
  <2>1. /\ user' = user /\ user[u] \in User /\ user[u] # Missing /\ user[u].version \in Nat
    BY <1>2, <1>3, RowKinds DEF Opens
  <2>2. user[u].version <= user[u].version
    BY <2>1
  <2>3. ASSUME NEW t \in Sessions' PROVE Fits(t, user'[t.sub])
    <3>1. CASE t \in Sessions
      BY <1>2, <2>1, <3>1
    <3>2. CASE t \notin Sessions
      BY <1>3, <2>1, <2>2, <2>3, <3>2 DEF Opens, Fits
    <3> QED BY <3>1, <3>2
  <2> QED BY <2>3
<1>4. ASSUME Upgrades PROVE Goal
  <2>1. ASSUME NEW t \in Sessions PROVE Fits(t, user'[t.sub])
    <3>1. user'[t.sub] = user[t.sub]
          \/ /\ user[t.sub] \in User /\ user'[t.sub] \in User
             /\ user'[t.sub].version = user[t.sub].version
      BY <1>2, <1>4 DEF Upgrades
    <3> QED BY <1>2, <3>1, RowKinds DEF Fits
  <2> QED BY <1>4, <2>1 DEF Upgrades
<1>5. ASSUME Rests PROVE Goal
  BY <1>2, <1>5 DEF Rests
<1>6. ASSUME NEW u \in AccountIds, Creates(u)
      PROVE  Goal
  <2>1. ASSUME NEW t \in Sessions PROVE Fits(t, user'[t.sub])
    <3>1. t.sub # u
      BY <1>2, <1>6 DEF Creates, Fits
    <3> QED BY <1>2, <1>6, <3>1 DEF Creates
  <2> QED BY <1>6, <2>1 DEF Creates
<1>7. ASSUME NEW r \in Updates, NEW u \in AccountIds, Writes(r, u)
      PROVE  Goal
  <2>1. /\ user[u] \in User /\ user'[u] \in User /\ user[u].version <= user'[u].version
        /\ user[u].version \in Nat /\ user'[u].version \in Nat
    BY <1>2, <1>7 DEF Writes
  <2>2. ASSUME NEW t \in Sessions PROVE Fits(t, user'[t.sub])
    <3>1. CASE t.sub = u
      <4>1. t.version <= user[u].version /\ t.version \in Nat
        BY <1>2, <2>1, <3>1 DEF Fits
      <4>2. t.version <= user'[u].version
        BY <2>1, <4>1
      <4> QED BY <2>1, <3>1, <4>2, RowKinds DEF Fits
    <3>2. CASE t.sub # u
      BY <1>2, <1>7, <3>2 DEF Writes
    <3> QED BY <3>1, <3>2
  <2> QED BY <1>7, <2>2 DEF Writes
<1>8. ASSUME NEW r \in Updates, NEW u \in AccountIds, Deletes(r, u)
      PROVE  Goal
  <2>1. ASSUME NEW t \in Sessions PROVE Fits(t, user'[t.sub])
    <3>1. CASE t.sub = u
      BY <1>8, <3>1, RowKinds DEF Deletes, Fits
    <3>2. CASE t.sub # u
      BY <1>2, <1>8, <3>2 DEF Deletes
    <3> QED BY <3>1, <3>2
  <2> QED BY <1>8, <2>1 DEF Deletes
<1>9. Goal
  <2> HIDE DEF Goal
  <2> QED BY <1>3, <1>4, <1>5, <1>6, <1>7, <1>8, StepKinds
<1>10. AllFit'
  BY <1>9 DEF AllFit
<1>11. (NoneAhead <=> AllFit)'
  BY <1>1, NoneAheadRows, PTL
<1> QED BY <1>10, <1>11

-----------------------------------------------------------------------------
(* The accounts *)

LEMMA AccountsInitially ==
  ASSUME AccountsInit
  PROVE  AccountsInv
<1>1. AccountsTyped
  BY DEF AccountsInit, AccountsTyped, OldAccount
<1>2. Sessions = {}
  BY DEF AccountsInit, Sessions
<1>3. NoneAhead /\ UpdatesDecided
  BY <1>2 DEF NoneAhead, UpdatesDecided, AccountsInit
<1> QED BY <1>1, <1>3 DEF AccountsInv

LEMMA AccountsStep ==
  ASSUME AccountsInv, [AccountsNext]_accountVars
  PROVE  AccountsInv'
  BY StepKinds, NoneAheadStep DEF AccountsInv

\* The accounts keep the inductive invariant.
THEOREM AccountsInvariant == AccountsSpec => []AccountsInv
  BY AccountsInitially, AccountsStep, PTL DEF AccountsSpec

\* The rows of User, the tokens and the requests in flight have the types of the code.
THEOREM AccountsTypes == AccountsSpec => []AccountsTypeOK
<1>1. AccountsInv => AccountsTypeOK
  BY DEF AccountsInv, AccountsTyped, AccountsTypeOK, LoginRequest, UpdateRequest
<1> QED BY <1>1, AccountsInvariant, PTL

\* A session that is good after a step was good before it and its password is as
\* well known as it was, unless an update has written over a change it has not seen.
LEMMA ValidStays ==
  ASSUME AccountsInv, [AccountsNext]_accountVars, NEW t \in Sessions, Valid(t)',
         ~ \E r \in Updates : WritesStale(r)
  PROVE  Valid(t) /\ (Knows(t)' <=> Knows(t))
<1> DEFINE u == t.sub
<1>1. AccountsTyped /\ UpdatesDecided /\ NoneAhead /\ AccountsTyped'
  BY AccountsStep DEF AccountsInv
<1>2. u \in AccountIds /\ t.version \in Nat /\ Fits(t, user[u]) /\ \A row \in User : row.version \in Nat
  BY <1>1, VersionTypes, NoneAheadRows DEF AllFit
<1>3. /\ u \in AccountRows <=> user[u] \in User
      /\ u \in AccountRows' <=> user'[u] \in User
  BY <1>1, <1>2, RowsAreUsers, RowKinds DEF AccountsTyped, AccountRows
<1>4. /\ user'[u] \in User /\ user'[u].active
      /\ t.version = user'[u].version /\ t.role = user'[u].role
  BY <1>3 DEF Valid
<1> DEFINE Same == \/ user'[u] = user[u]
                   \/ /\ user[u] \in User
                      /\ user'[u].role = user[u].role /\ user'[u].active = user[u].active
                      /\ user'[u].password = user[u].password
                      /\ user'[u].version = user[u].version
<1>5. Same
  <2>1. ASSUME NEW l \in Logins, NEW w \in AccountIds, Opens(l, w) PROVE Same
    BY <2>1 DEF Opens
  <2>2. CASE Upgrades
    BY <1>2, <2>2 DEF Upgrades
  <2>3. CASE Rests
    BY <2>3 DEF Rests
  <2>4. ASSUME NEW w \in AccountIds, Creates(w) PROVE Same
    BY <1>2, <2>4 DEF Creates, Fits
  <2>5. ASSUME NEW r \in Updates, NEW w \in AccountIds, Writes(r, w) PROVE Same
    <3>1. CASE w # u
      BY <1>2, <2>5, <3>1 DEF Writes
    <3>2. CASE w = u
      <4>1. t.version <= user[u].version /\ user[u].version \in Nat /\ user[u] \in User
        BY <1>2, <2>5, <3>2 DEF Writes, Fits
      <4>2. ~ user[u].version < user'[u].version
        BY <1>2, <1>4, <4>1
      <4> QED BY <2>5, <3>2, <4>2 DEF Writes
    <3> QED BY <3>1, <3>2
  <2>6. ASSUME NEW r \in Updates, NEW w \in AccountIds, Deletes(r, w) PROVE Same
    BY <1>2, <1>4, <2>6, RowKinds DEF Deletes
  <2> HIDE DEF Same
  <2> QED BY <1>1, <2>1, <2>2, <2>3, <2>4, <2>5, <2>6, StepKinds
<1>6. user[u] \in User
  BY <1>4, <1>5
<1>7. Valid(t)
  BY <1>3, <1>4, <1>5, <1>6 DEF Valid
<1>8. Knows(t)' <=> Knows(t)
  BY <1>5 DEF Knows
<1> QED BY <1>7, <1>8

\* Who holds a session knows the password of the account.
THEOREM AccountsKeepThePassword == AccountsSpec => SessionsKnowThePassword
<1> DEFINE P == \A t \in Sessions' :
                  Valid(t)' /\ ~ Knows(t)' => \/ t \in Sessions /\ Valid(t) /\ ~ Knows(t)
                                              \/ \E r \in Updates : WritesStale(r)
<1>1. ASSUME AccountsInv, [AccountsNext]_accountVars
      PROVE  P
  <2> SUFFICES ASSUME NEW t \in Sessions', Valid(t)', ~ Knows(t)',
                      ~ \E r \in Updates : WritesStale(r)
               PROVE  t \in Sessions /\ Valid(t) /\ ~ Knows(t)
    OBVIOUS
  <2>1. t \in Sessions
    <3> SUFFICES ASSUME t \notin Sessions PROVE FALSE
      OBVIOUS
    <3>1. PICK l \in Logins, u \in AccountIds : Opens(l, u)
      BY <1>1, StepKinds DEF AccountsInv, Upgrades, Rests, Creates, Writes, Deletes
    <3>2. t.sub = u /\ t.password = user'[u].password
      BY <3>1 DEF Opens
    <3> QED BY <3>2 DEF Knows
  <2> QED BY <1>1, <2>1, ValidStays
<1>2. ASSUME AccountsInv, [AccountsNext]_accountVars
      PROVE  [P]_accountVars
  BY <1>1, <1>2
<1> QED BY <1>2, AccountsInvariant, PTL DEF AccountsSpec, SessionsKnowThePassword

\* A session that has ended is never good again.
THEOREM AccountsEndForGood == AccountsSpec => EndedSessionsStayEnded
<1> DEFINE P == \A t \in Sessions : ~ Valid(t) /\ Valid(t)' => \E r \in Updates : WritesStale(r)
<1>1. ASSUME AccountsInv, [AccountsNext]_accountVars
      PROVE  [P]_accountVars
  BY <1>1, ValidStays
<1> QED BY <1>1, AccountsInvariant, PTL DEF AccountsSpec, EndedSessionsStayEnded

\* Only an owner, or the script, changes or removes an owner.
THEOREM AccountsGuardOwners == AccountsSpec => OwnersManagedByOwners
<1> DEFINE P == \A u \in AccountRows :
                  user[u].role = "OWNER" /\ user'[u] # user[u] =>
                    \/ \E r \in Updates : update'[r] # update[r]
                                            /\ (update[r].actor = "OWNER" \/ WritesStale(r))
                    \/ user'[u] = [user[u] EXCEPT !.hash = "current"]
<1>1. ASSUME AccountsInv, [AccountsNext]_accountVars
      PROVE  P
  <2> SUFFICES ASSUME NEW u \in AccountRows, user[u].role = "OWNER", user'[u] # user[u],
                      user'[u] # [user[u] EXCEPT !.hash = "current"]
               PROVE  \E r \in Updates : update'[r] # update[r]
                                           /\ (update[r].actor = "OWNER" \/ WritesStale(r))
    OBVIOUS
  <2>1. u \in AccountIds /\ user[u] # Missing
    BY DEF AccountRows
  <2>2. PICK r \in Updates, w \in AccountIds : Writes(r, w) \/ Deletes(r, w)
    <3>1. /\ \A l \in Logins, w \in AccountIds : ~ Opens(l, w)
          /\ ~ Upgrades /\ ~ Rests /\ \A w \in AccountIds : ~ Creates(w)
      BY <2>1 DEF Opens, Upgrades, Rests, Creates
    <3> QED BY <1>1, <3>1, StepKinds DEF AccountsInv
  <2>3. w = u /\ update[r] # NoRequest /\ update'[r] = NoRequest /\ Permitted(update[r])
    BY <2>1, <2>2 DEF Writes, Deletes
  <2>4. WritesStale(r) \/ update[r].seen.role = user[u].role
    BY <2>2, <2>3 DEF Writes, Deletes
  <2> QED BY <2>3, <2>4 DEF Permitted
<1>2. ASSUME AccountsInv, [AccountsNext]_accountVars
      PROVE  [P]_accountVars
  BY <1>1, <1>2
<1> QED BY <1>2, AccountsInvariant, PTL DEF AccountsSpec, OwnersManagedByOwners

-----------------------------------------------------------------------------
(* The inductive invariant of LoginAttempts *)

Entry == [at : 0..MaxTime, locks : BOOLEAN]

\* The attempts let through are in the order of their times.
Ordered(h, t) ==
  /\ \A i, j \in DOMAIN h : i <= j => h[i].at <= h[j].at
  /\ \A i \in DOMAIN h : h[i].at <= t

\* A bucket counts the last attempts of the history, and the last of them has locked
\* it if they are as many as the limit.
First(b, h) == Len(h) - b.attempts + 1
Counts(b, h, max) ==
  /\ b \in Bucket /\ b.attempts <= max /\ b.attempts <= Len(h)
  /\ h[Len(h)].at = b.updated /\ h[First(b, h)].at = b.started
  /\ b.updated < b.started + Window
  /\ \A i \in First(b, h)..(Len(h) - 1) : ~ h[i].locks
  /\ h[Len(h)].locks <=> b.attempts = max
  /\ b.lockedUntil = IF b.attempts = max THEN b.updated + Lockout ELSE Never

\* As many attempts as the limit right before its window, none of which locked the
\* key, have begun a window earlier.
Spread(b, h, max) ==
  LET i == First(b, h) - max IN
  i >= 1 /\ (\A k \in i..(First(b, h) - 1) : ~ h[k].locks) => h[i].at + Window <= b.started

\* Where no bucket is left, the attempts are long past.
Past(h, t) == \A i \in DOMAIN h : h[i].at + Longer(Window, Lockout) < t

\* The three properties, of one history that may have one entry more than is kept.
HeldOut(h) == \A i \in 1..(Len(h) - 1) : h[i].locks => h[i + 1].at >= h[i].at + Lockout
EarnedLocks(h, max) ==
  \A j \in DOMAIN h : h[j].locks =>
    /\ j >= max \/ Len(h) >= 2 * max
    /\ j >= max => /\ h[j].at - h[j - max + 1].at < Window
                   /\ \A k \in (j - max + 1)..(j - 1) : ~ h[k].locks
FewGuesses(h, max) ==
  \A i \in 1..(Len(h) - 2 * max + 2) :
    (\A k \in i..(i + 2 * max - 2) : ~ h[k].locks) => h[i + 2 * max - 2].at - h[i].at >= Window

Accounted(b, h, max, t) ==
  /\ h \in Seq(Entry) /\ Ordered(h, t)
  /\ IF b = NoBucket THEN Past(h, t) ELSE Counts(b, h, max) /\ Spread(b, h, max)
  /\ HeldOut(h) /\ EarnedLocks(h, max) /\ FewGuesses(h, max)

AttemptsInv ==
  /\ now \in 0..MaxTime
  /\ succeeded \in [LoginSlots -> Emails \cup {NoLogin}]
  /\ bucket \in [Keys -> {NoBucket} \cup Bucket]
  /\ admitted \in [Keys -> Seq(Entry)]
  /\ \A key \in Keys : /\ Len(admitted[key]) <= Remembered(key)
                       /\ Accounted(bucket[key], admitted[key], MaxAttempts(key), now)

-----------------------------------------------------------------------------
(* Histories *)

LEMMA Durations ==
  /\ Window \in Nat /\ Window >= 1 /\ Lockout \in Nat /\ Lockout >= 1 /\ MaxTime \in Nat
  /\ Longer(Window, Lockout) \in Nat
  /\ Longer(Window, Lockout) >= Window /\ Longer(Window, Lockout) >= Lockout
  /\ \A key \in Keys : MaxAttempts(key) \in Nat /\ MaxAttempts(key) >= 1
<1>1. /\ Window \in Nat /\ Window >= 1 /\ Lockout \in Nat /\ Lockout >= 1 /\ MaxTime \in Nat
      /\ AddressMax \in Nat /\ AddressMax >= 1 /\ EmailMax \in Nat /\ EmailMax >= 1
  BY LoginAttemptsAssumption
<1> QED BY <1>1 DEF Longer, MaxAttempts

LEMMA EntryTypes ==
  ASSUME NEW h \in Seq(Entry)
  PROVE  /\ Len(h) \in Nat /\ DOMAIN h = 1..Len(h)
         /\ \A i \in 1..Len(h) : h[i] \in Entry /\ h[i].at \in Nat /\ h[i].at <= MaxTime
                                   /\ h[i].locks \in BOOLEAN
<1>1. Len(h) \in Nat /\ DOMAIN h = 1..Len(h) /\ \A i \in 1..Len(h) : h[i] \in Entry
  OBVIOUS
<1>2. \A x \in Entry : x.at \in Nat /\ x.at <= MaxTime /\ x.locks \in BOOLEAN
  BY Durations DEF Entry
<1> QED BY <1>1, <1>2

\* An attempt is let through: g is h with one entry more.
Extends(g, h, x) ==
  /\ h \in Seq(Entry) /\ g \in Seq(Entry) /\ x \in Entry /\ Len(g) = Len(h) + 1
  /\ g[Len(h) + 1] = x /\ \A i \in 1..Len(h) : g[i] = h[i]

LEMMA Appended ==
  ASSUME NEW h \in Seq(Entry), NEW x \in Entry
  PROVE  Extends(Append(h, x), h, x)
  BY DEF Extends

LEMMA ExtensionTypes ==
  ASSUME NEW g, NEW h, NEW x, Extends(g, h, x)
  PROVE  /\ Len(h) \in Nat /\ Len(g) = Len(h) + 1 /\ g[Len(h) + 1] = x
         /\ DOMAIN h = 1..Len(h) /\ DOMAIN g = 1..(Len(h) + 1)
         /\ \A i \in 1..Len(h) : g[i].at = h[i].at /\ g[i].locks = h[i].locks
         /\ \A i \in 1..(Len(h) + 1) : i \in 1..Len(h) \/ i = Len(h) + 1
         /\ \A i \in 1..(Len(h) + 1) : g[i].at \in Nat
         /\ x.at \in Nat
<1>1. Len(h) \in Nat /\ Len(g) = Len(h) + 1 /\ g[Len(h) + 1] = x /\ \A i \in 1..Len(h) : g[i] = h[i]
  BY DEF Extends
<1>2. DOMAIN h = 1..Len(h) /\ DOMAIN g = 1..(Len(h) + 1)
  BY <1>1 DEF Extends
<1>3. \A i \in 1..(Len(h) + 1) : g[i].at \in Nat
  BY <1>1, EntryTypes DEF Extends
<1>4. \A i \in 1..(Len(h) + 1) : i \in 1..Len(h) \/ i = Len(h) + 1
  BY <1>1
<1>5. Len(h) + 1 \in 1..(Len(h) + 1)
  BY <1>1
<1>6. x.at \in Nat
  BY <1>1, <1>3, <1>5
<1> QED BY <1>1, <1>2, <1>3, <1>4, <1>6

LEMMA Apart ==
  ASSUME NEW a \in Nat, NEW b \in Nat, NEW c \in Nat, NEW d \in Nat, NEW w \in Nat,
         a <= b, b + w <= c, c <= d
  PROVE  d - a >= w
  OBVIOUS

LEMMA OrderedAppend ==
  ASSUME NEW g, NEW h, NEW x, Extends(g, h, x), Ordered(h, x.at)
  PROVE  Ordered(g, x.at)
<1> DEFINE n == Len(h)
<1>2. /\ n \in Nat /\ DOMAIN h = 1..n /\ DOMAIN g = 1..(n + 1) /\ g[n + 1] = x
      /\ \A i \in 1..n : g[i].at = h[i].at
      /\ \A i \in 1..(n + 1) : i \in 1..n \/ i = n + 1
      /\ x.at \in Nat
  BY ExtensionTypes
<1> HIDE DEF n
<1>3. \A i \in 1..(n + 1) : g[i].at <= x.at
  <2> SUFFICES ASSUME NEW i \in 1..(n + 1) PROVE g[i].at <= x.at
    OBVIOUS
  <2>1. CASE i = n + 1
    BY <1>2, <2>1
  <2>2. CASE i \in 1..n
    BY <1>2, <2>2 DEF Ordered
  <2> QED BY <1>2, <2>1, <2>2
<1>4. \A i, j \in 1..(n + 1) : i <= j => g[i].at <= g[j].at
  <2> SUFFICES ASSUME NEW i \in 1..(n + 1), NEW j \in 1..(n + 1), i <= j
               PROVE  g[i].at <= g[j].at
    OBVIOUS
  <2>1. CASE j = n + 1
    BY <1>2, <1>3, <2>1
  <2>2. CASE j \in 1..n
    <3>1. i \in 1..n
      BY <1>2, <2>2
    <3>2. h[i].at <= h[j].at
      BY <1>2, <2>2, <3>1 DEF Ordered
    <3> QED BY <1>2, <2>2, <3>1, <3>2
  <2> QED BY <1>2, <2>1, <2>2
<1> QED BY <1>2, <1>3, <1>4 DEF Ordered

LEMMA HeldOutAppend ==
  ASSUME NEW g, NEW h, NEW x, Extends(g, h, x), HeldOut(h),
         Len(h) >= 1 /\ h[Len(h)].locks => h[Len(h)].at + Lockout <= x.at
  PROVE  HeldOut(g)
<1> DEFINE n == Len(h)
<1>1. /\ n \in Nat /\ Len(g) = n + 1 /\ g[n + 1] = x /\ x.at \in Nat
      /\ \A i \in 1..n : g[i].at = h[i].at /\ g[i].locks = h[i].locks
      /\ \A i \in 1..(n + 1) : g[i].at \in Nat
  BY ExtensionTypes
<1>2. \A i \in 1..(n - 1) : h[i].locks => h[i + 1].at >= h[i].at + Lockout
  BY DEF HeldOut
<1>3. n >= 1 /\ h[n].locks => h[n].at + Lockout <= x.at
  OBVIOUS
<1> HIDE DEF n
<1>4. ASSUME NEW i \in 1..n, g[i].locks
      PROVE  g[i + 1].at >= g[i].at + Lockout
  <2>1. CASE i = n
    <3>1. n >= 1 /\ i \in 1..(n + 1)
      BY <1>1, <2>1
    <3>2. g[i].at + Lockout <= g[i + 1].at
      BY <1>1, <1>3, <1>4, <2>1, <3>1
    <3>3. g[i].at \in Nat /\ g[i + 1].at \in Nat /\ Lockout \in Nat
      BY <1>1, <2>1, <3>1, Durations
    <3> QED BY <3>2, <3>3
  <2>2. CASE i # n
    <3>1. i \in 1..(n - 1) /\ i + 1 \in 1..n
      BY <1>1, <2>2
    <3>2. h[i].locks
      BY <1>1, <1>4
    <3>3. h[i + 1].at >= h[i].at + Lockout
      BY <1>2, <3>1, <3>2
    <3> QED BY <1>1, <3>1, <3>3
  <2> QED BY <2>1, <2>2
<1>5. Len(g) - 1 = n
  BY <1>1
<1> QED BY <1>4, <1>5 DEF HeldOut

LEMMA EarnedAppend ==
  ASSUME NEW g, NEW h, NEW x, NEW max \in Nat, max >= 1,
         Extends(g, h, x), EarnedLocks(h, max), NEW first \in 1..Len(g),
         x.locks => Len(g) - first + 1 = max,
         \A i \in first..Len(h) : ~ h[i].locks, x.at < g[first].at + Window
  PROVE  EarnedLocks(g, max)
<1> DEFINE n == Len(h)
<1>1. /\ n \in Nat /\ Len(g) = n + 1 /\ g[n + 1] = x /\ x.at \in Nat
      /\ DOMAIN h = 1..n /\ DOMAIN g = 1..(n + 1)
      /\ \A i \in 1..n : g[i].at = h[i].at /\ g[i].locks = h[i].locks
      /\ \A i \in 1..(n + 1) : i \in 1..n \/ i = n + 1
      /\ \A i \in 1..(n + 1) : g[i].at \in Nat
  BY ExtensionTypes
<1>2. first \in 1..(n + 1) /\ (x.locks => (n + 1) - first + 1 = max)
  BY <1>1
<1>3. /\ \A i \in first..n : ~ h[i].locks
      /\ x.at < g[first].at + Window
  OBVIOUS
<1>4. \A j \in 1..n : h[j].locks =>
        /\ j >= max \/ n >= 2 * max
        /\ j >= max => /\ h[j].at - h[j - max + 1].at < Window
                       /\ \A k \in (j - max + 1)..(j - 1) : ~ h[k].locks
  BY <1>1 DEF EarnedLocks
<1> HIDE DEF n
<1>5. ASSUME NEW j \in 1..(n + 1), g[j].locks
      PROVE  /\ j >= max \/ n + 1 >= 2 * max
             /\ j >= max => /\ g[j].at - g[j - max + 1].at < Window
                            /\ \A k \in (j - max + 1)..(j - 1) : ~ g[k].locks
  <2>1. CASE j = n + 1
    <3>1. (n + 1) - first + 1 = max
      BY <1>1, <1>2, <1>5, <2>1
    <3>2. first = j - max + 1 /\ j >= max /\ j - 1 = n
      BY <1>1, <1>2, <2>1, <3>1
    <3>3. g[j].at < g[first].at + Window /\ g[j].at \in Nat /\ g[first].at \in Nat /\ Window \in Nat
      BY <1>1, <1>2, <1>3, <2>1, Durations
    <3>4. g[j].at - g[first].at < Window
      BY <3>3
    <3>5. \A k \in first..n : ~ g[k].locks
      BY <1>1, <1>2, <1>3
    <3> QED BY <3>2, <3>4, <3>5
  <2>2. CASE j \in 1..n
    <3>1. h[j].locks
      BY <1>1, <1>5, <2>2
    <3>2. /\ j >= max \/ n >= 2 * max
          /\ j >= max => /\ h[j].at - h[j - max + 1].at < Window
                         /\ \A k \in (j - max + 1)..(j - 1) : ~ h[k].locks
      BY <1>4, <2>2, <3>1
    <3>3. j >= max => j - max + 1 \in 1..n /\ \A k \in (j - max + 1)..(j - 1) : k \in 1..n
      BY <1>1, <2>2
    <3>4. j >= max \/ n + 1 >= 2 * max
      BY <1>1, <3>2
    <3> QED BY <1>1, <2>2, <3>2, <3>3, <3>4
  <2> QED BY <1>1, <2>1, <2>2
<1> QED BY <1>1, <1>5 DEF EarnedLocks

LEMMA GuessesAppend ==
  ASSUME NEW g, NEW h, NEW x, NEW max \in Nat, max >= 1,
         Extends(g, h, x), FewGuesses(h, max), Ordered(g, x.at), NEW first \in 1..Len(g),
         Len(g) - first + 1 < max \/ x.locks,
         first - max >= 1 /\ (\A k \in (first - max)..(first - 1) : ~ g[k].locks)
           => g[first - max].at + Window <= g[first].at
  PROVE  FewGuesses(g, max)
<1> DEFINE n == Len(h)
<1>1. /\ n \in Nat /\ Len(g) = n + 1 /\ g[n + 1] = x
      /\ DOMAIN h = 1..n /\ DOMAIN g = 1..(n + 1)
      /\ \A i \in 1..n : g[i].at = h[i].at /\ g[i].locks = h[i].locks
      /\ \A i \in 1..(n + 1) : i \in 1..n \/ i = n + 1
      /\ \A i \in 1..(n + 1) : g[i].at \in Nat
  BY ExtensionTypes
<1>2. first \in 1..(n + 1) /\ ((n + 1) - first + 1 < max \/ x.locks)
  BY <1>1
<1>3. first - max >= 1 /\ (\A k \in (first - max)..(first - 1) : ~ g[k].locks)
           => g[first - max].at + Window <= g[first].at
  OBVIOUS
<1>4. \A i \in 1..(n - 2 * max + 2) :
        (\A k \in i..(i + 2 * max - 2) : ~ h[k].locks) => h[i + 2 * max - 2].at - h[i].at >= Window
  BY DEF FewGuesses
<1>5. \A i, j \in 1..(n + 1) : i <= j => g[i].at <= g[j].at
  BY <1>1 DEF Ordered
<1> HIDE DEF n
<1>6. ASSUME NEW i \in 1..((n + 1) - 2 * max + 2),
             \A k \in i..(i + 2 * max - 2) : ~ g[k].locks
      PROVE  g[i + 2 * max - 2].at - g[i].at >= Window
  <2> DEFINE last == i + 2 * max - 2
  <2>1. i \in 1..(n + 1) /\ last \in 1..(n + 1) /\ i <= last /\ last \in i..(i + 2 * max - 2)
    BY <1>1
  <2>2. CASE last = n + 1
    <3>1. ~ x.locks
      BY <1>1, <1>6, <2>1, <2>2
    <3>2. (n + 1) - first + 1 < max
      BY <1>2, <3>1
    <3>3. first - max >= i /\ first - 1 <= last /\ first - max >= 1 /\ first <= last
      BY <1>1, <1>2, <2>2, <3>2
    <3>4. \A k \in (first - max)..(first - 1) : k \in i..(i + 2 * max - 2)
      BY <1>1, <1>2, <3>3
    <3>5. g[first - max].at + Window <= g[first].at
      BY <1>3, <1>6, <3>3, <3>4
    <3>6. first - max \in 1..(n + 1)
      BY <1>1, <1>2, <3>3
    <3>7. g[i].at <= g[first - max].at /\ g[first].at <= g[last].at
      BY <1>2, <1>5, <2>1, <3>3, <3>6
    <3>8. /\ g[i].at \in Nat /\ g[first - max].at \in Nat /\ g[first].at \in Nat
          /\ g[last].at \in Nat /\ Window \in Nat
      BY <1>1, <1>2, <2>1, <3>6, Durations
    <3> HIDE DEF last
    <3>9. g[last].at - g[i].at >= Window
      BY <3>5, <3>7, <3>8, Apart
    <3> QED BY <3>9 DEF last
  <2>3. CASE last \in 1..n
    <3>1. i \in 1..(n - 2 * max + 2) /\ i \in 1..n
      BY <1>1, <2>1, <2>3
    <3>2. \A k \in i..(i + 2 * max - 2) : k \in 1..n
      BY <1>1, <2>3, <3>1
    <3>3. \A k \in i..(i + 2 * max - 2) : ~ h[k].locks
      BY <1>1, <1>6, <3>2
    <3>4. h[i + 2 * max - 2].at - h[i].at >= Window
      BY <1>4, <3>1, <3>3
    <3> QED BY <1>1, <2>3, <3>1, <3>4
  <2> QED BY <1>1, <2>1, <2>2, <2>3
<1> QED BY <1>1, <1>6 DEF FewGuesses

\* The first attempt of a history that is longer than needed is forgotten.
LEMMA TailTypes ==
  ASSUME NEW h \in Seq(Entry), Len(h) >= 1
  PROVE  /\ Tail(h) \in Seq(Entry) /\ Len(Tail(h)) = Len(h) - 1
         /\ DOMAIN h = 1..Len(h) /\ DOMAIN Tail(h) = 1..(Len(h) - 1)
         /\ \A i \in 1..(Len(h) - 1) : Tail(h)[i] = h[i + 1]
<1>1. Len(h) \in Nat /\ DOMAIN h = 1..Len(h) /\ h # <<>>
  OBVIOUS
<1>2. Tail(h) \in Seq(Entry) /\ Len(Tail(h)) = Len(h) - 1
  BY <1>1
<1>3. \A i \in 1..(Len(h) - 1) : Tail(h)[i] = h[i + 1]
  BY <1>1
<1> QED BY <1>1, <1>2, <1>3

LEMMA TailOrdered ==
  ASSUME NEW h \in Seq(Entry), Len(h) >= 1, NEW t, Ordered(h, t)
  PROVE  Ordered(Tail(h), t)
<1>1. \A i \in 1..(Len(h) - 1) : i + 1 \in 1..Len(h)
  BY EntryTypes
<1>2. \A i, j \in 1..(Len(h) - 1) : i <= j => i + 1 <= j + 1
  BY EntryTypes
<1> QED BY <1>1, <1>2, TailTypes DEF Ordered

LEMMA TailHeldOut ==
  ASSUME NEW h \in Seq(Entry), Len(h) >= 1, HeldOut(h)
  PROVE  HeldOut(Tail(h))
<1> DEFINE n == Len(h)
           g == Tail(h)
<1>1. /\ n \in Nat /\ Len(g) = n - 1 /\ \A i \in 1..(n - 1) : g[i] = h[i + 1]
  BY TailTypes, EntryTypes
<1>2. \A i \in 1..(n - 1) : h[i].locks => h[i + 1].at >= h[i].at + Lockout
  BY DEF HeldOut
<1> HIDE DEF n, g
<1>3. ASSUME NEW i \in 1..((n - 1) - 1), g[i].locks
      PROVE  g[i + 1].at >= g[i].at + Lockout
  <2>1. i \in 1..(n - 1) /\ i + 1 \in 1..(n - 1)
    BY <1>1
  <2> QED BY <1>1, <1>2, <1>3, <2>1
<1>4. HeldOut(g)
  BY <1>1, <1>3 DEF HeldOut
<1> QED BY <1>4 DEF g

LEMMA TailEarned ==
  ASSUME NEW h \in Seq(Entry), NEW max \in Nat, max >= 1, Len(h) > 2 * max, EarnedLocks(h, max)
  PROVE  EarnedLocks(Tail(h), max)
<1> DEFINE n == Len(h)
           g == Tail(h)
<1>1. /\ n \in Nat /\ Len(g) = n - 1 /\ \A i \in 1..(n - 1) : g[i] = h[i + 1]
      /\ DOMAIN h = 1..n /\ DOMAIN g = 1..(n - 1) /\ n > 2 * max
  BY TailTypes, EntryTypes
<1>2. \A j \in 1..n : h[j].locks /\ j >= max =>
        /\ h[j].at - h[j - max + 1].at < Window
        /\ \A k \in (j - max + 1)..(j - 1) : ~ h[k].locks
  BY <1>1 DEF EarnedLocks
<1> HIDE DEF n, g
<1>3. ASSUME NEW j \in 1..(n - 1), g[j].locks, j >= max
      PROVE  /\ g[j].at - g[j - max + 1].at < Window
             /\ \A k \in (j - max + 1)..(j - 1) : ~ g[k].locks
  <2>1. j + 1 \in 1..n /\ j + 1 >= max /\ h[j + 1].locks
    BY <1>1, <1>3
  <2>2. /\ h[j + 1].at - h[(j + 1) - max + 1].at < Window
        /\ \A k \in ((j + 1) - max + 1)..((j + 1) - 1) : ~ h[k].locks
    BY <1>2, <2>1
  <2>3. j - max + 1 \in 1..(n - 1) /\ (j - max + 1) + 1 = (j + 1) - max + 1
    BY <1>1, <1>3
  <2>4. g[j].at - g[j - max + 1].at < Window
    BY <1>1, <2>2, <2>3
  <2>5. \A k \in (j - max + 1)..(j - 1) : /\ k \in 1..(n - 1)
                                          /\ k + 1 \in ((j + 1) - max + 1)..((j + 1) - 1)
    BY <1>1, <1>3
  <2> QED BY <1>1, <2>2, <2>4, <2>5
<1>4. n - 1 >= 2 * max
  BY <1>1
<1>5. EarnedLocks(g, max)
  BY <1>1, <1>3, <1>4 DEF EarnedLocks
<1> QED BY <1>5 DEF g

LEMMA TailGuesses ==
  ASSUME NEW h \in Seq(Entry), NEW max \in Nat, max >= 1, Len(h) >= 1, FewGuesses(h, max)
  PROVE  FewGuesses(Tail(h), max)
<1> DEFINE n == Len(h)
           g == Tail(h)
<1>1. /\ n \in Nat /\ Len(g) = n - 1 /\ \A i \in 1..(n - 1) : g[i] = h[i + 1]
  BY TailTypes, EntryTypes
<1>2. \A i \in 1..(n - 2 * max + 2) :
        (\A k \in i..(i + 2 * max - 2) : ~ h[k].locks) => h[i + 2 * max - 2].at - h[i].at >= Window
  BY DEF FewGuesses
<1> HIDE DEF n, g
<1>3. ASSUME NEW i \in 1..((n - 1) - 2 * max + 2), \A k \in i..(i + 2 * max - 2) : ~ g[k].locks
      PROVE  g[i + 2 * max - 2].at - g[i].at >= Window
  <2>1. /\ i + 1 \in 1..(n - 2 * max + 2) /\ i \in 1..(n - 1) /\ i + 2 * max - 2 \in 1..(n - 1)
        /\ (i + 2 * max - 2) + 1 = (i + 1) + 2 * max - 2
    BY <1>1
  <2>2. ASSUME NEW k \in (i + 1)..((i + 1) + 2 * max - 2)
        PROVE  ~ h[k].locks
    <3>1. k - 1 \in i..(i + 2 * max - 2) /\ k - 1 \in 1..(n - 1) /\ (k - 1) + 1 = k
      BY <1>1, <2>1
    <3> QED BY <1>1, <1>3, <3>1
  <2>3. h[(i + 1) + 2 * max - 2].at - h[i + 1].at >= Window
    BY <1>2, <2>1, <2>2
  <2> QED BY <1>1, <2>1, <2>3
<1>4. FewGuesses(g, max)
  BY <1>1, <1>3 DEF FewGuesses
<1> QED BY <1>4 DEF g

\* The bucket counts the same attempts when an earlier one is forgotten.
LEMMA TailCounts ==
  ASSUME NEW h \in Seq(Entry), NEW max \in Nat, max >= 1, NEW b, Len(h) > max, Counts(b, h, max),
         Spread(b, h, max)
  PROVE  Counts(b, Tail(h), max) /\ Spread(b, Tail(h), max)
<1> DEFINE n == Len(h)
           g == Tail(h)
           f == First(b, h)
           a == b.attempts
<1>1. /\ n \in Nat /\ Len(g) = n - 1 /\ \A i \in 1..(n - 1) : g[i] = h[i + 1]
  BY TailTypes, EntryTypes
<1>2. /\ a \in Nat \ {0} /\ a <= max /\ n > max /\ f = n - a + 1 /\ First(b, g) = (n - 1) - a + 1
  BY <1>1 DEF Counts, Bucket, First
<1>3. /\ h[n].at = b.updated /\ h[f].at = b.started
      /\ \A i \in f..(n - 1) : ~ h[i].locks
      /\ h[n].locks <=> a = max
  BY DEF Counts
<1>4. f - max >= 1 /\ (\A k \in (f - max)..(f - 1) : ~ h[k].locks) => h[f - max].at + Window <= b.started
  BY DEF Spread
<1>5. b \in Bucket /\ b.updated < b.started + Window
      /\ b.lockedUntil = IF a = max THEN b.updated + Lockout ELSE Never
  BY DEF Counts
<1> HIDE DEF n, g, f, a
<1>6. /\ First(b, g) = f - 1 /\ f - 1 \in 1..(n - 1) /\ (f - 1) + 1 = f /\ n - 1 \in 1..(n - 1)
      /\ (n - 1) + 1 = n
  BY <1>1, <1>2
<1>7. g[n - 1] = h[n] /\ g[f - 1] = h[f]
  BY <1>1, <1>6
<1>8. \A i \in (f - 1)..((n - 1) - 1) : ~ g[i].locks
  <2>1. \A i \in (f - 1)..((n - 1) - 1) : i \in 1..(n - 1) /\ i + 1 \in f..(n - 1)
    BY <1>1, <1>2, <1>6
  <2> QED BY <1>1, <1>3, <2>1
<1>9. a <= n - 1
  BY <1>1, <1>2
<1>10. Counts(b, g, max)
  BY <1>1, <1>2, <1>3, <1>5, <1>6, <1>7, <1>8, <1>9 DEF Counts, a
<1>11. ASSUME (f - 1) - max >= 1, \A k \in ((f - 1) - max)..((f - 1) - 1) : ~ g[k].locks
       PROVE  g[(f - 1) - max].at + Window <= b.started
  <2>1. /\ f - max >= 1 /\ (f - 1) - max \in 1..(n - 1) /\ ((f - 1) - max) + 1 = f - max
    BY <1>1, <1>2, <1>6, <1>11
  <2>2. ASSUME NEW k \in (f - max)..(f - 1) PROVE ~ h[k].locks
    <3>1. k - 1 \in ((f - 1) - max)..((f - 1) - 1) /\ k - 1 \in 1..(n - 1) /\ (k - 1) + 1 = k
      BY <1>1, <1>2, <1>6, <2>1
    <3> QED BY <1>1, <1>11, <3>1
  <2> QED BY <1>1, <1>4, <2>1, <2>2
<1>12. Spread(b, g, max)
  BY <1>6, <1>11 DEF Spread
<1> QED BY <1>10, <1>12 DEF g

-----------------------------------------------------------------------------
(* The buckets *)

LEMMA BucketTypes ==
  /\ NoBucket \notin Bucket
  /\ \A b \in Bucket :
       /\ b.attempts \in Nat \ {0} /\ b.started \in Nat /\ b.updated \in Nat
       /\ b.started <= MaxTime /\ b.updated <= MaxTime
<1>1. NoBucket \notin Bucket
  BY DEF NoBucket, Bucket
<1> QED BY <1>1, Durations DEF Bucket

\* The position in the history at which the window of the next attempt begins, and the
\* time of that attempt.
WindowStart(key) ==
  LET b == bucket[key] h == admitted[key] IN
  IF Kept(b) /\ ~ Expired(b) THEN First(b, h) ELSE Len(h) + 1

\* What is known of the attempts before the next one.
WindowFacts(key) ==
  LET b == bucket[key] h == admitted[key] max == MaxAttempts(key) first == WindowStart(key) IN
  /\ first \in 1..(Len(h) + 1)
  /\ Started(b) = IF first = Len(h) + 1 THEN now ELSE h[first].at
  /\ Started(b) \in Nat /\ Started(b) <= now /\ now < Started(b) + Window
  /\ Counted(b) = Len(h) + 2 - first /\ Counted(b) <= max
  /\ \A i \in first..Len(h) : ~ h[i].locks
  /\ Len(h) >= 1 /\ h[Len(h)].locks => h[Len(h)].at + Lockout <= now
  /\ first - max >= 1 /\ (\A k \in (first - max)..(first - 1) : ~ h[k].locks)
       => h[first - max].at + Window <= Started(b)

LEMMA NextInWindow ==
  ASSUME NEW key \in Keys, admitted[key] \in Seq(Entry), now \in Nat,
         Counts(bucket[key], admitted[key], MaxAttempts(key)),
         Spread(bucket[key], admitted[key], MaxAttempts(key)),
         Ordered(admitted[key], now),
         Kept(bucket[key]), ~ Expired(bucket[key]), ~ Locked(bucket[key])
  PROVE  WindowFacts(key)
<1> DEFINE b == bucket[key]
           h == admitted[key]
           max == MaxAttempts(key)
           n == Len(h)
           f == First(b, h)
           a == b.attempts
<1>1. /\ n \in Nat /\ a \in Nat \ {0} /\ a <= max /\ a <= n /\ f = n - a + 1 /\ max \in Nat
      /\ b.started \in Nat /\ b.updated \in Nat /\ Window \in Nat /\ Lockout \in Nat /\ now \in Nat
  BY BucketTypes, EntryTypes, Durations DEF Counts, First
<1>2. /\ h[n].at = b.updated /\ h[f].at = b.started
      /\ \A i \in f..(n - 1) : ~ h[i].locks
      /\ h[n].locks <=> a = max
      /\ b.lockedUntil = IF a = max THEN b.updated + Lockout ELSE Never
  BY DEF Counts
<1>3. f - max >= 1 /\ (\A k \in (f - max)..(f - 1) : ~ h[k].locks) => h[f - max].at + Window <= b.started
  BY DEF Spread
<1>4. /\ ~ b.started + Window <= now /\ ~ (b.lockedUntil # Never /\ b.lockedUntil <= now)
      /\ ~ b.lockedUntil > now
  BY DEF Expired, Locked
<1>5. WindowStart(key) = f /\ Started(b) = b.started /\ Counted(b) = a + 1
  BY DEF WindowStart, Started, Counted
<1>6. DOMAIN h = 1..n /\ \A i \in 1..n : h[i].at <= now
  BY EntryTypes DEF Ordered
<1>7. SUFFICES
        /\ f \in 1..(n + 1)
        /\ b.started = IF f = n + 1 THEN now ELSE h[f].at
        /\ b.started \in Nat /\ b.started <= now /\ now < b.started + Window
        /\ a + 1 = n + 2 - f /\ a + 1 <= max
        /\ \A i \in f..n : ~ h[i].locks
        /\ n >= 1 /\ h[n].locks => h[n].at + Lockout <= now
        /\ f - max >= 1 /\ (\A k \in (f - max)..(f - 1) : ~ h[k].locks)
             => h[f - max].at + Window <= b.started
  BY <1>5 DEF WindowFacts
<1> HIDE DEF n, f, a, b, h, max
<1>8. a # max
  <2> SUFFICES ASSUME a = max PROVE FALSE
    OBVIOUS
  <2>1. b.lockedUntil = b.updated + Lockout
    BY <1>2
  <2>2. b.lockedUntil \in Nat /\ b.lockedUntil # Never
    BY <1>1, <2>1 DEF Never
  <2> QED BY <1>1, <1>4, <2>2
<1>9. f \in 1..n /\ f # n + 1 /\ a + 1 = n + 2 - f /\ a + 1 <= max
  BY <1>1, <1>8
<1>10. ~ h[n].locks
  BY <1>2, <1>8
<1>11. \A i \in f..n : ~ h[i].locks
  <2>1. \A i \in f..n : i = n \/ i \in f..(n - 1)
    BY <1>1, <1>9
  <2> QED BY <1>2, <1>10, <2>1
<1>12. b.started <= now /\ now < b.started + Window
  BY <1>1, <1>2, <1>4, <1>6, <1>9
<1>13. f \in 1..(n + 1)
  BY <1>1, <1>9
<1> QED BY <1>1, <1>2, <1>3, <1>9, <1>10, <1>11, <1>12, <1>13

LEMMA NextInNewWindow ==
  ASSUME NEW key \in Keys, admitted[key] \in Seq(Entry), now \in Nat,
         IF bucket[key] = NoBucket
         THEN Past(admitted[key], now)
         ELSE /\ Counts(bucket[key], admitted[key], MaxAttempts(key))
              /\ Spread(bucket[key], admitted[key], MaxAttempts(key)),
         Ordered(admitted[key], now),
         ~ Kept(bucket[key]) \/ Expired(bucket[key]),
         Kept(bucket[key]) => ~ Locked(bucket[key])
  PROVE  WindowFacts(key)
<1> DEFINE b == bucket[key]
           h == admitted[key]
           max == MaxAttempts(key)
           n == Len(h)
           longer == Longer(Window, Lockout)
<1>1. /\ n \in Nat /\ max \in Nat /\ max >= 1 /\ now \in Nat
      /\ Window \in Nat /\ Window >= 1 /\ Lockout \in Nat
      /\ longer \in Nat /\ longer >= Window /\ longer >= Lockout
      /\ DOMAIN h = 1..n /\ \A i \in 1..n : h[i].at \in Nat
  BY EntryTypes, Durations
<1>2. WindowStart(key) = n + 1 /\ Started(b) = now /\ Counted(b) = 1
  BY DEF WindowStart, Started, Counted
<1>3. ASSUME n >= 1, h[n].locks
      PROVE  h[n].at + Lockout <= now
  <2>1. CASE b = NoBucket
    <3>1. h[n].at + longer < now /\ h[n].at \in Nat
      BY <1>1, <1>3, <2>1 DEF Past
    <3> HIDE DEF longer, n, h
    <3> QED BY <1>1, <3>1
  <2>2. CASE b # NoBucket
    <3>1. /\ h[n].at = b.updated /\ b.lockedUntil = b.updated + Lockout /\ b.updated \in Nat
      BY <1>3, <2>2, BucketTypes DEF Counts
    <3>2. CASE Kept(b)
      <4>1. ~ b.lockedUntil > now
        BY <3>2 DEF Locked
      <4> HIDE DEF n, h, b
      <4> QED BY <1>1, <3>1, <4>1
    <3>3. CASE ~ Kept(b)
      <4>1. ~ b.updated >= now - longer
        BY <2>2, <3>3 DEF Kept
      <4> HIDE DEF n, h, b, longer
      <4> QED BY <1>1, <3>1, <4>1
    <3> QED BY <3>2, <3>3
  <2> QED BY <2>1, <2>2
<1>4. ASSUME (n + 1) - max >= 1, \A k \in ((n + 1) - max)..n : ~ h[k].locks
      PROVE  h[(n + 1) - max].at + Window <= now
  <2> DEFINE i == (n + 1) - max
  <2>1. i \in 1..n /\ n \in 1..n /\ n \in i..n /\ h[i].at \in Nat
    BY <1>1, <1>4
  <2>2. CASE b = NoBucket
    <3>1. h[i].at + longer < now
      BY <1>1, <2>1, <2>2 DEF Past
    <3> HIDE DEF longer, i, n, h
    <3>2. h[i].at + Window <= now
      BY <1>1, <2>1, <3>1
    <3> QED BY <3>2 DEF i
  <2>3. CASE b # NoBucket
    <3> DEFINE f == First(b, h)
               a == b.attempts
    <3>1. /\ a \in Nat \ {0} /\ a <= max /\ a <= n /\ f = n - a + 1
          /\ b.started \in Nat /\ b.updated \in Nat
          /\ h[n].at = b.updated /\ h[f].at = b.started
          /\ h[n].locks <=> a = max
          /\ b.lockedUntil = IF a = max THEN b.updated + Lockout ELSE Never
      BY <2>3, BucketTypes DEF Counts, First
    <3>2. ~ h[n].locks
      BY <1>4, <2>1
    <3>3. a # max /\ b.lockedUntil = Never
      BY <3>1, <3>2
    <3>4. ~ b.updated >= now - longer \/ b.started + Window <= now
      BY <2>3, <3>3 DEF Kept, Expired
    <3>5. \A j, k \in 1..n : j <= k => h[j].at <= h[k].at
      BY <1>1 DEF Ordered
    <3> HIDE DEF a, f, i, longer, n, h, b, max
    <3>6. i = (n + 1) - max
      BY DEF i
    <3>7. f \in 1..n /\ i <= f
      BY <1>1, <3>1, <3>3, <3>6
    <3>8. h[i].at <= b.started /\ b.started <= b.updated
      <4>1. h[i].at <= h[f].at /\ h[f].at <= h[n].at
        BY <1>1, <2>1, <3>5, <3>7
      <4> QED BY <3>1, <4>1
    <3>9. h[i].at + Window <= now
      BY <1>1, <2>1, <3>1, <3>4, <3>8
    <3> QED BY <3>9 DEF i, n, max
  <2> QED BY <2>2, <2>3
<1>5. /\ n + 1 \in 1..(n + 1) /\ now < now + Window /\ now <= now
      /\ 1 = n + 2 - (n + 1) /\ 1 <= max /\ (n + 1) - 1 = n
      /\ \A i \in (n + 1)..n : ~ h[i].locks
  BY <1>1
<1> HIDE DEF n
<1>6. /\ n + 1 \in 1..(n + 1)
      /\ now = IF n + 1 = n + 1 THEN now ELSE h[n + 1].at
      /\ now \in Nat /\ now <= now /\ now < now + Window
      /\ 1 = n + 2 - (n + 1) /\ 1 <= max
      /\ \A i \in (n + 1)..n : ~ h[i].locks
      /\ n >= 1 /\ h[n].locks => h[n].at + Lockout <= now
      /\ (n + 1) - max >= 1 /\ (\A k \in ((n + 1) - max)..((n + 1) - 1) : ~ h[k].locks)
           => h[(n + 1) - max].at + Window <= now
  BY <1>1, <1>3, <1>4, <1>5
<1> QED BY <1>2, <1>6 DEF WindowFacts, n

LEMMA NextAttempt ==
  ASSUME NEW key \in Keys, now \in 0..MaxTime,
         Accounted(bucket[key], admitted[key], MaxAttempts(key), now),
         Kept(bucket[key]) => ~ Locked(bucket[key])
  PROVE  WindowFacts(key)
<1>1. now \in Nat
  BY Durations
<1>2. Kept(bucket[key]) => bucket[key] # NoBucket
  BY DEF Kept
<1> QED BY <1>1, <1>2, NextInWindow, NextInNewWindow DEF Accounted

\* The row that is written, and the history with the attempt it counts.
LEMMA ConsumedRow ==
  ASSUME NEW key \in Keys, now \in 0..MaxTime, admitted[key] \in Seq(Entry), WindowFacts(key)
  PROVE  LET c == Consumed(key) max == MaxAttempts(key) IN
         /\ c \in Bucket /\ c.attempts = Counted(bucket[key]) /\ c.attempts <= max
         /\ c.started = Started(bucket[key]) /\ c.updated = now
         /\ c.lockedUntil = IF c.attempts = max THEN now + Lockout ELSE Never
         /\ c.lockedUntil # Never <=> c.attempts = max
<1> DEFINE n == Len(admitted[key])
           first == WindowStart(key)
           count == Counted(bucket[key])
           max == MaxAttempts(key)
           start == Started(bucket[key])
<1>1. /\ n \in Nat /\ max \in Nat /\ now \in Nat /\ now <= MaxTime /\ MaxTime \in Nat
      /\ Lockout \in Nat
  BY EntryTypes, Durations
<1>2. /\ first \in 1..(n + 1) /\ count = n + 2 - first /\ count <= max
      /\ start \in Nat /\ start <= now
  BY DEF WindowFacts
<1> DEFINE until == IF count >= max THEN now + Lockout ELSE Never
<1>3. Consumed(key) = [attempts |-> count, started |-> start, updated |-> now, lockedUntil |-> until]
  BY DEF Consumed
<1> HIDE DEF n, first, count, max, start
<1>4. count \in Nat \ {0} /\ (count >= max <=> count = max)
  BY <1>1, <1>2
<1>5. until = (IF count = max THEN now + Lockout ELSE Never) /\ (until # Never <=> count = max)
  BY <1>1, <1>4 DEF Never
<1>6. until \in {Never} \cup Nat /\ start \in 0..MaxTime
  BY <1>1, <1>2
<1> HIDE DEF until
<1>7. Consumed(key) \in Bucket
  BY <1>3, <1>4, <1>6 DEF Bucket
<1> QED BY <1>2, <1>3, <1>4, <1>5, <1>7 DEF count, max, start

LEMMA ConsumedAccounted ==
  ASSUME NEW key \in Keys, now \in 0..MaxTime,
         Accounted(bucket[key], admitted[key], MaxAttempts(key), now),
         Kept(bucket[key]) => ~ Locked(bucket[key])
  PROVE  LET c == Consumed(key)
             g == Append(admitted[key], [at |-> now, locks |-> c.lockedUntil # Never])
         IN c \in Bucket /\ g \in Seq(Entry) /\ Len(g) = Len(admitted[key]) + 1
            /\ Accounted(c, g, MaxAttempts(key), now)
<1> DEFINE b == bucket[key]
           h == admitted[key]
           max == MaxAttempts(key)
           n == Len(h)
           first == WindowStart(key)
           c == Consumed(key)
           x == [at |-> now, locks |-> c.lockedUntil # Never]
           g == Append(h, x)
<1>1. h \in Seq(Entry) /\ Ordered(h, now) /\ HeldOut(h) /\ EarnedLocks(h, max) /\ FewGuesses(h, max)
  BY DEF Accounted
<1>2. WindowFacts(key)
  BY NextAttempt
<1>3. /\ c \in Bucket /\ c.attempts = Counted(b) /\ c.attempts <= max
      /\ c.started = Started(b) /\ c.updated = now
      /\ c.lockedUntil = IF c.attempts = max THEN now + Lockout ELSE Never
      /\ c.lockedUntil # Never <=> c.attempts = max
  BY <1>1, <1>2, ConsumedRow
<1>4. x \in Entry /\ x.at = now /\ (x.locks <=> c.attempts = max)
  BY <1>3 DEF Entry
<1> HIDE DEF c, x
<1>5. Extends(g, h, x)
  BY <1>1, <1>4, Appended
<1> HIDE DEF g
<1>6. /\ n \in Nat /\ Len(g) = n + 1 /\ g[n + 1] = x /\ now \in Nat
      /\ DOMAIN g = 1..(n + 1)
      /\ \A i \in 1..n : g[i].at = h[i].at /\ g[i].locks = h[i].locks
      /\ \A i \in 1..(n + 1) : i \in 1..n \/ i = n + 1
      /\ max \in Nat /\ max >= 1
  BY <1>5, ExtensionTypes, Durations
<1>7. /\ first \in 1..(n + 1)
      /\ c.started = IF first = n + 1 THEN now ELSE h[first].at
      /\ c.started \in Nat /\ now < c.started + Window
      /\ c.attempts = n + 2 - first
      /\ \A i \in first..n : ~ h[i].locks
      /\ n >= 1 /\ h[n].locks => h[n].at + Lockout <= now
      /\ first - max >= 1 /\ (\A k \in (first - max)..(first - 1) : ~ h[k].locks)
           => h[first - max].at + Window <= c.started
  BY <1>2, <1>3 DEF WindowFacts
<1>8. Ordered(g, now)
  BY <1>1, <1>4, <1>5, OrderedAppend
<1>9. HeldOut(g)
  BY <1>1, <1>4, <1>5, <1>7, HeldOutAppend
<1> HIDE DEF b, h, max, n, first
<1>10. g[first].at = c.started
  BY <1>4, <1>6, <1>7
<1>11. /\ first \in 1..Len(g) /\ c.attempts = Len(g) - first + 1
       /\ x.locks => Len(g) - first + 1 = max
       /\ Len(g) - first + 1 < max \/ x.locks
  <2>1. c.attempts = (n + 1) - first + 1 /\ (c.attempts < max \/ c.attempts = max)
    BY <1>3, <1>6, <1>7
  <2> QED BY <1>4, <1>6, <1>7, <2>1
<1>12. EarnedLocks(g, max)
  BY <1>1, <1>4, <1>5, <1>6, <1>7, <1>10, <1>11, EarnedAppend DEF n
<1>13. \A k \in (first - max)..(first - 1) : first - max >= 1 => k \in 1..n
  BY <1>6, <1>7
<1>14. first - max >= 1 /\ (\A k \in (first - max)..(first - 1) : ~ g[k].locks)
         => g[first - max].at + Window <= g[first].at
  <2> SUFFICES ASSUME first - max >= 1, \A k \in (first - max)..(first - 1) : ~ g[k].locks
               PROVE  g[first - max].at + Window <= g[first].at
    OBVIOUS
  <2>1. first - max \in 1..n
    BY <1>6, <1>7
  <2>2. \A k \in (first - max)..(first - 1) : ~ h[k].locks
    BY <1>6, <1>13
  <2> QED BY <1>6, <1>7, <1>10, <2>1, <2>2
<1>15. FewGuesses(g, max)
  BY <1>1, <1>4, <1>5, <1>6, <1>8, <1>11, <1>14, GuessesAppend
<1>16. First(c, g) = first
  BY <1>6, <1>7, <1>11 DEF First
<1>17. Counts(c, g, max)
  <2>1. \A i \in first..((n + 1) - 1) : ~ g[i].locks
    BY <1>6, <1>7
  <2>2. g[Len(g)].at = c.updated /\ (g[Len(g)].locks <=> c.attempts = max)
    BY <1>3, <1>4, <1>6
  <2>3. c.attempts <= Len(g)
    BY <1>6, <1>7, <1>11
  <2> QED BY <1>3, <1>6, <1>7, <1>10, <1>16, <2>1, <2>2, <2>3 DEF Counts
<1>18. Spread(c, g, max)
  BY <1>10, <1>14, <1>16 DEF Spread
<1>19. Accounted(c, g, max, now)
  BY <1>3, <1>5, <1>8, <1>9, <1>12, <1>15, <1>17, <1>18, BucketTypes DEF Accounted, Extends
<1> QED BY <1>3, <1>5, <1>6, <1>19 DEF Extends, g, h, max, n, c, x

LEMMA LatestAccounted ==
  ASSUME NEW h \in Seq(Entry), NEW max \in Nat, max >= 1, NEW b \in Bucket, NEW t,
         Len(h) <= 2 * max + 1, Accounted(b, h, max, t)
  PROVE  LET g == Latest(h, 2 * max) IN
         g \in Seq(Entry) /\ Len(g) <= 2 * max /\ Accounted(b, g, max, t)
<1>1. Len(h) \in Nat
  BY EntryTypes
<1>2. CASE Len(h) > 2 * max
  <2>1. Len(h) >= 1 /\ Len(h) > max
    BY <1>1, <1>2
  <2>2. Latest(h, 2 * max) = Tail(h)
    BY <1>2 DEF Latest
  <2>3. Tail(h) \in Seq(Entry) /\ Len(Tail(h)) = Len(h) - 1
    BY <2>1, TailTypes
  <2>4. Len(Tail(h)) <= 2 * max
    BY <1>1, <2>3
  <2>5. /\ Ordered(h, t) /\ Counts(b, h, max) /\ Spread(b, h, max) /\ HeldOut(h)
        /\ EarnedLocks(h, max) /\ FewGuesses(h, max)
    BY BucketTypes DEF Accounted
  <2>6. /\ Ordered(Tail(h), t) /\ Counts(b, Tail(h), max) /\ Spread(b, Tail(h), max)
    BY <2>1, <2>5, TailOrdered, TailCounts
  <2>7. HeldOut(Tail(h)) /\ EarnedLocks(Tail(h), max) /\ FewGuesses(Tail(h), max)
    BY <1>2, <2>1, <2>5, TailHeldOut, TailEarned, TailGuesses
  <2> QED BY <2>2, <2>3, <2>4, <2>6, <2>7, BucketTypes DEF Accounted
<1>3. CASE ~ Len(h) > 2 * max
  BY <1>1, <1>3 DEF Latest
<1> QED BY <1>2, <1>3

\* A bucket that is deleted was long past.
LEMMA DeletedAccounted ==
  ASSUME NEW h \in Seq(Entry), NEW max \in Nat, NEW b, NEW t, t = now, now \in Nat,
         Accounted(b, h, max, t), ~ Kept(b)
  PROVE  Accounted(NoBucket, h, max, t)
<1> DEFINE n == Len(h)
           longer == Longer(Window, Lockout)
<1>1. CASE b = NoBucket
  BY <1>1
<1>2. CASE b # NoBucket
  <2>1. /\ Counts(b, h, max) /\ ~ b.updated >= now - longer
    BY <1>2 DEF Accounted, Kept
  <2>2. /\ n \in Nat /\ DOMAIN h = 1..n /\ \A i \in 1..n : h[i].at \in Nat
        /\ longer \in Nat /\ b.updated \in Nat /\ h[n].at = b.updated
    BY <2>1, EntryTypes, Durations, BucketTypes DEF Counts
  <2>3. \A i, j \in 1..n : i <= j => h[i].at <= h[j].at
    BY <2>2 DEF Accounted, Ordered
  <2> HIDE DEF n, longer
  <2>4. ASSUME NEW i \in 1..n PROVE h[i].at + longer < t
    <3>1. n \in 1..n /\ i <= n
      BY <2>2
    <3>2. h[i].at <= b.updated
      BY <2>2, <2>3, <3>1
    <3>3. ~ b.updated >= t - longer /\ t \in Nat /\ h[i].at \in Nat
      BY <2>1, <2>2
    <3> QED BY <2>2, <3>2, <3>3
  <2>5. Past(h, t)
    BY <2>2, <2>4 DEF Past, longer
  <2> QED BY <2>5 DEF Accounted
<1> QED BY <1>1, <1>2

LEMMA EmptyAccounted ==
  ASSUME NEW max \in Nat, max >= 1, NEW t
  PROVE  /\ <<>> \in Seq(Entry) /\ Len(<<>>) = 0 /\ Len(<<>>) <= 2 * max
         /\ Accounted(NoBucket, <<>>, max, t)
<1>1. <<>> \in Seq(Entry) /\ Len(<<>>) = 0 /\ DOMAIN <<>> = {}
  BY EntryTypes
<1>2. Ordered(<<>>, t) /\ Past(<<>>, t) /\ EarnedLocks(<<>>, max)
  BY <1>1 DEF Ordered, Past, EarnedLocks
<1>3. HeldOut(<<>>)
  BY <1>1 DEF HeldOut
<1>4. 1..(0 - 2 * max + 2) = {}
  BY DEF FewGuesses
<1>5. FewGuesses(<<>>, max)
  BY <1>1, <1>4 DEF FewGuesses
<1> QED BY <1>1, <1>2, <1>3, <1>5 DEF Accounted

LEMMA LaterAccounted ==
  ASSUME NEW h \in Seq(Entry), NEW max \in Nat, NEW b, NEW t \in Nat, Accounted(b, h, max, t)
  PROVE  Accounted(b, h, max, t + 1)
<1>1. /\ DOMAIN h = 1..Len(h) /\ \A i \in 1..Len(h) : h[i].at \in Nat
      /\ Longer(Window, Lockout) \in Nat
  BY EntryTypes, Durations
<1>2. Ordered(h, t) => Ordered(h, t + 1)
  BY <1>1 DEF Ordered
<1>3. Past(h, t) => Past(h, t + 1)
  BY <1>1 DEF Past
<1> QED BY <1>2, <1>3 DEF Accounted

-----------------------------------------------------------------------------
(* The limit on login attempts *)

LEMMA KeyTypes ==
  /\ \A key \in Keys : MaxAttempts(key) \in Nat /\ MaxAttempts(key) >= 1
  /\ \A key \in Keys : Remembered(key) = 2 * MaxAttempts(key)
  BY Durations DEF Remembered

LEMMA ConsumeStep ==
  ASSUME AttemptsInv, NEW address \in Addresses, NEW email \in Emails, Consume(address, email)
  PROVE  /\ bucket' \in [Keys -> {NoBucket} \cup Bucket]
         /\ admitted' \in [Keys -> Seq(Entry)]
         /\ \A key \in Keys : /\ Len(admitted'[key]) <= Remembered(key)
                              /\ Accounted(bucket'[key], admitted'[key], MaxAttempts(key), now)
<1> DEFINE Added(key) == Append(admitted[key], [at |-> now, locks |-> Consumed(key).lockedUntil # Never])
           Good(key) == /\ bucket'[key] \in {NoBucket} \cup Bucket
                        /\ admitted'[key] \in Seq(Entry)
                        /\ Len(admitted'[key]) <= Remembered(key)
                        /\ Accounted(bucket'[key], admitted'[key], MaxAttempts(key), now)
<1>1. /\ now \in 0..MaxTime /\ now \in Nat
      /\ \A key \in Keys : /\ bucket[key] \in {NoBucket} \cup Bucket /\ admitted[key] \in Seq(Entry)
                           /\ Len(admitted[key]) <= Remembered(key)
                           /\ Accounted(bucket[key], admitted[key], MaxAttempts(key), now)
  BY Durations DEF AttemptsInv
<1>2. ASSUME NEW key \in Keys, key \in {address, email} PROVE Good(key)
  <2>1. Kept(bucket[key]) => ~ Locked(bucket[key])
    BY <1>2 DEF Consume
  <2>2. /\ Consumed(key) \in Bucket /\ Added(key) \in Seq(Entry)
        /\ Len(Added(key)) = Len(admitted[key]) + 1
        /\ Accounted(Consumed(key), Added(key), MaxAttempts(key), now)
    BY <1>1, <2>1, ConsumedAccounted
  <2>3. bucket'[key] = Consumed(key) /\ admitted'[key] = Latest(Added(key), Remembered(key))
    BY <1>2 DEF Consume
  <2> HIDE DEF Added
  <2>4. Len(Added(key)) <= 2 * MaxAttempts(key) + 1
    BY <1>1, <2>2, KeyTypes, EntryTypes
  <2>5. LET g == Latest(Added(key), 2 * MaxAttempts(key)) IN
        /\ g \in Seq(Entry) /\ Len(g) <= 2 * MaxAttempts(key)
        /\ Accounted(Consumed(key), g, MaxAttempts(key), now)
    BY <2>2, <2>4, KeyTypes, LatestAccounted
  <2> QED BY <2>2, <2>3, <2>5, KeyTypes
<1>3. ASSUME NEW key \in Keys, key \notin {address, email} PROVE Good(key)
  <2>1. /\ bucket'[key] = IF Kept(bucket[key]) THEN bucket[key] ELSE NoBucket
        /\ admitted'[key] = admitted[key]
    BY <1>3 DEF Consume
  <2>2. CASE Kept(bucket[key])
    BY <1>1, <2>1, <2>2
  <2>3. CASE ~ Kept(bucket[key])
    <3>1. Accounted(NoBucket, admitted[key], MaxAttempts(key), now)
      BY <1>1, <2>3, KeyTypes, DeletedAccounted
    <3> QED BY <1>1, <2>1, <2>3, <3>1
  <2> QED BY <2>2, <2>3
<1>4. \A key \in Keys : Good(key)
  BY <1>2, <1>3
<1>5. /\ bucket' = [key \in Keys |-> bucket'[key]]
      /\ admitted' = [key \in Keys |-> admitted'[key]]
  BY DEF Consume
<1> QED BY <1>4, <1>5

LEMMA AttemptsInitially ==
  ASSUME AttemptsInit
  PROVE  AttemptsInv
<1>1. ASSUME NEW key \in Keys
      PROVE  /\ bucket[key] = NoBucket /\ admitted[key] = <<>>
             /\ <<>> \in Seq(Entry) /\ Len(<<>>) <= 2 * MaxAttempts(key)
             /\ Accounted(NoBucket, <<>>, MaxAttempts(key), now)
  BY KeyTypes, EmptyAccounted DEF AttemptsInit
<1>2. now \in 0..MaxTime /\ succeeded \in [LoginSlots -> Emails \cup {NoLogin}]
  BY Durations DEF AttemptsInit
<1>3. bucket \in [Keys -> {NoBucket} \cup Bucket] /\ admitted \in [Keys -> Seq(Entry)]
  BY <1>1 DEF AttemptsInit
<1> QED BY <1>1, <1>2, <1>3, KeyTypes DEF AttemptsInv

LEMMA AttemptsStep ==
  ASSUME AttemptsInv, [AttemptsNext]_attemptVars
  PROVE  AttemptsInv'
<1>1. /\ now \in 0..MaxTime /\ now \in Nat /\ MaxTime \in Nat
      /\ succeeded \in [LoginSlots -> Emails \cup {NoLogin}]
      /\ bucket \in [Keys -> {NoBucket} \cup Bucket] /\ admitted \in [Keys -> Seq(Entry)]
      /\ \A key \in Keys : /\ Len(admitted[key]) <= Remembered(key)
                           /\ Accounted(bucket[key], admitted[key], MaxAttempts(key), now)
  BY Durations DEF AttemptsInv
<1>2. ASSUME NEW address \in Addresses, NEW email \in Emails, FailedAttempt(address, email)
      PROVE  AttemptsInv'
  BY <1>1, <1>2, ConsumeStep DEF FailedAttempt, AttemptsInv
<1>3. ASSUME NEW address \in Addresses, NEW email \in Emails, NEW l \in LoginSlots,
             GoodAttempt(l, address, email)
      PROVE  AttemptsInv'
  <2>1. succeeded' \in [LoginSlots -> Emails \cup {NoLogin}] /\ now' = now
    BY <1>1, <1>3 DEF GoodAttempt
  <2> QED BY <1>1, <1>3, <2>1, ConsumeStep DEF GoodAttempt, AttemptsInv
<1>4. ASSUME NEW l \in LoginSlots, ResetAccount(l)
      PROVE  AttemptsInv'
  <2> DEFINE email == succeeded[l]
  <2>1. email \in Keys
    BY <1>1, <1>4 DEF ResetAccount, Keys
  <2>2. /\ succeeded' \in [LoginSlots -> Emails \cup {NoLogin}] /\ now' = now
        /\ bucket' = [bucket EXCEPT ![email] = NoBucket]
        /\ admitted' = [admitted EXCEPT ![email] = <<>>]
    BY <1>1, <1>4 DEF ResetAccount
  <2>3. /\ <<>> \in Seq(Entry) /\ Len(<<>>) <= Remembered(email)
        /\ Accounted(NoBucket, <<>>, MaxAttempts(email), now)
    BY <2>1, KeyTypes, EmptyAccounted
  <2> HIDE DEF email
  <2>4. bucket' \in [Keys -> {NoBucket} \cup Bucket] /\ admitted' \in [Keys -> Seq(Entry)]
    BY <1>1, <2>2, <2>3
  <2>5. \A key \in Keys : /\ Len(admitted'[key]) <= Remembered(key)
                          /\ Accounted(bucket'[key], admitted'[key], MaxAttempts(key), now)
    BY <1>1, <2>1, <2>2, <2>3
  <2> QED BY <1>1, <2>2, <2>4, <2>5 DEF AttemptsInv
<1>5. ASSUME NEW l \in LoginSlots, ResetFails(l)
      PROVE  AttemptsInv'
  BY <1>1, <1>5 DEF ResetFails, AttemptsInv
<1>6. ASSUME Tick PROVE AttemptsInv'
  <2>1. now' = now + 1 /\ now' \in 0..MaxTime /\ UNCHANGED <<bucket, succeeded, admitted>>
    BY <1>1, <1>6 DEF Tick
  <2>2. \A key \in Keys : Accounted(bucket[key], admitted[key], MaxAttempts(key), now + 1)
    BY <1>1, KeyTypes, LaterAccounted
  <2> QED BY <1>1, <2>1, <2>2 DEF AttemptsInv
<1>7. ASSUME UNCHANGED attemptVars PROVE AttemptsInv'
  BY <1>7 DEF attemptVars, AttemptsInv
<1> QED BY <1>2, <1>3, <1>4, <1>5, <1>6, <1>7 DEF AttemptsNext

\* The buckets account for the attempts let through.
THEOREM AttemptsInvariant == AttemptsSpec => []AttemptsInv
  BY AttemptsInitially, AttemptsStep, PTL DEF AttemptsSpec

\* The rows of AuthRateLimitBucket have the types of the schema.
THEOREM AttemptsTypes == AttemptsSpec => []AttemptsTypeOK
<1>1. AttemptsInv => AttemptsTypeOK
  BY DEF AttemptsInv, AttemptsTypeOK, Entry
<1> QED BY <1>1, AttemptsInvariant, PTL

\* No attempt is let through while the key it is counted against is locked out.
THEOREM AttemptsHoldLockouts == AttemptsSpec => []LockoutHolds
<1>1. AttemptsInv => LockoutHolds
  BY DEF AttemptsInv, Accounted, HeldOut, LockoutHolds
<1> QED BY <1>1, AttemptsInvariant, PTL

\* A key is locked for as many attempts as the limit in one window.
THEOREM AttemptsEarnLocks == AttemptsSpec => []LocksAreEarned
<1>1. ASSUME AttemptsInv
      PROVE  LocksAreEarned
  <2> SUFFICES ASSUME NEW key \in Keys, NEW j \in DOMAIN admitted[key], admitted[key][j].locks
               PROVE  LET history == admitted[key] max == MaxAttempts(key) IN
                      /\ j >= max \/ Len(history) = Remembered(key)
                      /\ j >= max => /\ history[j].at - history[j - max + 1].at < Window
                                     /\ Unlocked(history, j - max + 1, j - 1)
    BY DEF LocksAreEarned
  <2>1. /\ EarnedLocks(admitted[key], MaxAttempts(key)) /\ Len(admitted[key]) <= Remembered(key)
        /\ Len(admitted[key]) \in Nat
    <3>1. /\ admitted[key] \in Seq(Entry) /\ Len(admitted[key]) <= Remembered(key)
          /\ Accounted(bucket[key], admitted[key], MaxAttempts(key), now)
      BY <1>1 DEF AttemptsInv
    <3> QED BY <3>1, EntryTypes DEF Accounted
  <2>2. Len(admitted[key]) >= 2 * MaxAttempts(key) => Len(admitted[key]) = Remembered(key)
    BY <2>1, KeyTypes
  <2> QED BY <2>1, <2>2 DEF EarnedLocks, Unlocked
<1>2. AttemptsInv => LocksAreEarned
  BY <1>1
<1> QED BY <1>2, AttemptsInvariant, PTL

\* Of twice the limit less one attempts in a row one locks the key, or they take a window.
THEOREM AttemptsLimitGuesses == AttemptsSpec => []NoFreeGuesses
<1>1. ASSUME AttemptsInv
      PROVE  NoFreeGuesses
  <2>1. ASSUME NEW key \in Keys
        PROVE  LET history == admitted[key] n == 2 * MaxAttempts(key) - 1 IN
               \A i \in 1..(Len(history) - n + 1) :
                 \/ ~ Unlocked(history, i, i + n - 1)
                 \/ history[i + n - 1].at - history[i].at >= Window
    <3> DEFINE history == admitted[key]
               max == MaxAttempts(key)
               n == 2 * max - 1
    <3>1. FewGuesses(history, max) /\ Len(history) \in Nat /\ max \in Nat
      <4>1. admitted[key] \in Seq(Entry) /\ Accounted(bucket[key], admitted[key], MaxAttempts(key), now)
        BY <1>1 DEF AttemptsInv
      <4> QED BY <4>1, EntryTypes, KeyTypes DEF Accounted
    <3> HIDE DEF max, history
    <3>2. SUFFICES ASSUME NEW i \in 1..(Len(history) - n + 1), Unlocked(history, i, i + n - 1)
                   PROVE  history[i + n - 1].at - history[i].at >= Window
      BY DEF history, max
    <3>3. i \in 1..(Len(history) - 2 * max + 2) /\ i + n - 1 = i + 2 * max - 2
      BY <3>1
    <3>4. \A k \in i..(i + 2 * max - 2) : ~ history[k].locks
      BY <3>2, <3>3 DEF Unlocked
    <3> QED BY <3>1, <3>3, <3>4 DEF FewGuesses
  <2> QED BY <2>1 DEF NoFreeGuesses
<1>2. AttemptsInv => NoFreeGuesses
  BY <1>1
<1> QED BY <1>2, AttemptsInvariant, PTL

-----------------------------------------------------------------------------
(* The two together *)

\* A behaviour of the two runs each of them by its own specification.
THEOREM AccessParts == Spec => AccountsSpec /\ AttemptsSpec
<1>1. Init => AccountsInit /\ AttemptsInit
  BY DEF Init
<1>2. [Next]_vars => [AccountsNext]_accountVars /\ [AttemptsNext]_attemptVars
  BY DEF Next, vars
<1> QED BY <1>1, <1>2, PTL DEF Spec, AccountsSpec, AttemptsSpec

\* Accounts, sessions and buckets have the types of the schema.
THEOREM AccessTypes == Spec => []TypeOK
<1>1. AccountsTypeOK /\ AttemptsTypeOK => TypeOK
  BY DEF TypeOK
<1> QED BY <1>1, AccessParts, AccountsTypes, AttemptsTypes, PTL
=============================================================================
