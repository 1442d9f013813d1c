------------------------------ MODULE Accounts ------------------------------
(***************************************************************************)
(* Accounts and their sessions: backend/src/users, the login and the token *)
(* check of backend/src/auth, and the script that makes an owner.          *)
(*                                                                         *)
(* No operation has a transaction.  A login reads the account, may upgrade *)
(* its password hash and then signs what it read; an update or a removal   *)
(* reads the account, decides, and writes later.  The single statements in *)
(* between are the steps of this module.                                   *)
(***************************************************************************)
EXTENDS Integers, FiniteSets

CONSTANTS
  AccountIds,   \* ids of the rows of User, and their unique e-mails
  Passwords,
  Roles,        \* the roles of UserRole in use
  Logins,       \* logins that can be in flight at the same time
  Updates,      \* updates, removals and runs of the script in flight
  Changes,      \* the updates that are sent
  MaxVersion,   \* bound: sessionVersion
  MaxTokens     \* bound: logins that succeed

VARIABLES
  user,         \* the rows of User
  token,        \* the access tokens signed so far
  login,        \* what each login in flight has read
  update        \* what each update or removal in flight has decided

accountVars == <<user, token, login, update>>

-----------------------------------------------------------------------------
(* Types *)

\* hash: whether the stored hash is of the current algorithm and parameters.
\* Hashes are salted: a password that is set is never stored as it was before.
User == [role : Roles, active : BOOLEAN, password : Passwords,
         hash : {"current", "outdated"}, version : 0..MaxVersion]
Missing == [role |-> "NONE"]     \* no row yet
Removed == [role |-> "REMOVED"]  \* the row has been deleted; its id is not used again

\* What the access token says; password is the one it was obtained with, which
\* no token carries.
Token == [sub : AccountIds, role : Roles, version : 0..MaxVersion, password : Passwords]

\* UpdateUserDto: of each field that a session depends on the value that is sent,
\* or the empty set.
Optional(S) == {{}} \cup {{x} : x \in S}
Change == [role : Optional(Roles), active : Optional(BOOLEAN), password : Optional(Passwords)]

ASSUME AccountsAssumption ==
  /\ {"OWNER", "ADMIN"} \subseteq Roles /\ Changes \subseteq Change
  /\ MaxVersion \in Nat /\ MaxTokens \in Nat

\* What an update in flight remembers of the account it has read.
Seen == [role : Roles, active : BOOLEAN, password : Passwords]

AccountRows == {u \in AccountIds : user[u] \notin {Missing, Removed}}
NoRequest == [op |-> "idle"]

AccountsTypeOK ==
  /\ user \in [AccountIds -> User \cup {Missing, Removed}]
  /\ token \subseteq Token
  /\ \A l \in Logins :
       \/ login[l] = NoRequest
       \/ /\ login[l].op \in {"verified", "upgraded"}
          /\ login[l].sub \in AccountIds /\ login[l].seen \in User
  /\ \A r \in Updates :
       \/ update[r] = NoRequest
       \/ /\ update[r].op \in {"update", "remove"} /\ update[r].sub \in AccountIds
          /\ update[r].seen \in Seen

-----------------------------------------------------------------------------
(* Sessions *)

\* validate: the token is that of the account as it is now.
Valid(t) ==
  /\ t.sub \in AccountRows /\ user[t.sub].active
  /\ t.version = user[t.sub].version /\ t.role = user[t.sub].role

\* validateUser finds an active account of that password ...
Login(l, u, p) ==
  /\ login[l] = NoRequest
  /\ u \in AccountRows /\ user[u].active /\ user[u].password = p
  /\ login' = [login EXCEPT ![l] = [op |-> "verified", sub |-> u, seen |-> user[u]]]
  /\ UNCHANGED <<user, token, update>>

\* ... replaces an outdated hash, if it is still the one that was verified ...
UpgradeHash(l) ==
  LET u == login[l].sub
      unchanged == u \in AccountRows /\ user[u].hash = "outdated"
                     /\ user[u].password = login[l].seen.password
  IN
  /\ login[l].op = "verified"
  /\ login' = [login EXCEPT ![l].op = "upgraded"]
  /\ IF unchanged THEN user' = [user EXCEPT ![u].hash = "current"] ELSE UNCHANGED user
  /\ UNCHANGED <<token, update>>

\* ... and login signs the account that was read; the upgrade may have failed.
Signed(l) ==
  LET seen == login[l].seen IN
  [sub |-> login[l].sub, role |-> seen.role, version |-> seen.version, password |-> seen.password]

Sign(l) ==
  /\ login[l] # NoRequest /\ Cardinality(token) < MaxTokens
  /\ token' = token \cup {Signed(l)}
  /\ login' = [login EXCEPT ![l] = NoRequest]
  /\ UNCHANGED <<user, update>>

-----------------------------------------------------------------------------
(* Administration *)

\* assertCanAssignRole, on the roles that are sent, and assertCanManageOwner.
MayAssign(actor, roles) == "OWNER" \in roles => actor = "OWNER"
MayManage(actor, row) == row.role = "OWNER" => actor = "OWNER"

\* Mutants of Critical: a new password or a new state leaves the sessions open.
CriticalButPassword(row, change) ==
  ~ (change.role \subseteq {row.role} /\ change.active \subseteq {row.active})

CriticalButState(row, change) ==
  change.password # {} \/ ~ (change.role \subseteq {row.role})

\* invalidatesSession: any password that is sent counts as a new one.
Critical(row, change) ==
  \/ change.password # {}
  \/ ~ (change.role \subseteq {row.role} /\ change.active \subseteq {row.active})

\* Mutant of Sent: a field that is not sent is written as null.
SentOrNull(values, old) == IF values = {} THEN "null" ELSE CHOOSE x \in values : TRUE

\* The value a field has after an update.
Sent(values, old) == IF values = {} THEN old ELSE CHOOSE x \in values : TRUE

\* The row once the change is written.
Written(row, change, bump) ==
  [role |-> Sent(change.role, row.role),
   active |-> Sent(change.active, row.active),
   password |-> Sent(change.password, row.password),
   hash |-> IF change.password = {} THEN row.hash ELSE "current",
   version |-> IF bump THEN row.version + 1 ELSE row.version]

CreateAccount(u, row, actor) ==
  /\ user[u] = Missing /\ MayAssign(actor, {row.role})
  /\ user' = [user EXCEPT ![u] = row]
  /\ UNCHANGED <<token, login, update>>

\* An update or a removal has read the account and decided what to do.
NoChange == [role |-> {}, active |-> {}, password |-> {}]
SeenOf(row) == [role |-> row.role, active |-> row.active, password |-> row.password]
Decide(r, u, actor, op, change, bump) ==
  /\ update[r] = NoRequest /\ u \in AccountRows
  /\ update' = [update EXCEPT ![r] =
       [op |-> op, sub |-> u, actor |-> actor, change |-> change, bump |-> bump, seen |-> SeenOf(user[u])]]
  /\ UNCHANGED <<user, token, login>>

\* update decides whether the sessions of the account are to end, ...
UpdateAccount(r, u, actor, self, change) ==
  /\ self => change.role = {} /\ actor = user[u].role
  /\ MayManage(actor, user[u]) /\ MayAssign(actor, change.role)
  /\ Decide(r, u, actor, "update", change, Critical(user[u], change))

\* create-owner.ts on an account there is: its password is set unless it is the
\* one the script was given.
MakeOwner(r, u, p) ==
  LET same == user[u].password = p
      change == [role |-> {"OWNER"}, active |-> {TRUE},
                 password |-> IF same /\ user[u].hash = "current" THEN {} ELSE {p}]
  IN Decide(r, u, "OWNER", "update", change,
            ~ same \/ user[u].role # "OWNER" \/ ~ user[u].active)

\* The script: an owner is made of the account there is, or a new account.
CreateOwner(r, u, p) ==
  \/ MakeOwner(r, u, p)
  \/ CreateAccount(u, [role |-> "OWNER", active |-> TRUE, password |-> p,
                        hash |-> "current", version |-> 0], "OWNER")

\* ... and writes what it was sent, whatever has become of the account.
UpdateWrite(r) ==
  LET u == update[r].sub
      row == Written(user[u], update[r].change, update[r].bump)
  IN
  /\ update[r].op = "update" /\ u \in AccountRows
  /\ row.version <= MaxVersion
  /\ user' = [user EXCEPT ![u] = row]
  /\ update' = [update EXCEPT ![r] = NoRequest]
  /\ UNCHANGED <<token, login>>

\* Mutant of RemoveAccount: assertCanManageOwner is forgotten.
RemoveAnyAccount(r, u, actor) == Decide(r, u, actor, "remove", NoChange, FALSE)

RemoveAccount(r, u, actor) ==
  MayManage(actor, user[u]) /\ Decide(r, u, actor, "remove", NoChange, FALSE)

RemoveAccountWrite(r) ==
  /\ update[r].op = "remove" /\ update[r].sub \in AccountRows
  /\ user' = [user EXCEPT ![update[r].sub] = Removed]
  /\ update' = [update EXCEPT ![r] = NoRequest]
  /\ UNCHANGED <<token, login>>

\* A request ends without a write: refused, failed, or its process stopped.
AbortLogin(l) ==
  /\ login[l] # NoRequest
  /\ login' = [login EXCEPT ![l] = NoRequest]
  /\ UNCHANGED <<user, token, update>>

AbortUpdate(r) ==
  /\ update[r] # NoRequest
  /\ update' = [update EXCEPT ![r] = NoRequest]
  /\ UNCHANGED <<user, token, login>>

-----------------------------------------------------------------------------
(* The accounts *)

NewAccount == {row \in User : row.hash = "current" /\ row.version = 0}
OldAccount == {row \in User : row.active /\ row.version = 0}

\* Some accounts are there already, with the hashes of their time.
AccountsInit ==
  /\ user \in [AccountIds -> OldAccount \cup {Missing}]
  /\ token = {}
  /\ login = [l \in Logins |-> NoRequest]
  /\ update = [r \in Updates |-> NoRequest]

\* The roles the routes of users.controller are open to.
UserManagers == {"OWNER", "ADMIN"}

Administer ==
  \/ \E u \in AccountIds, row \in NewAccount, actor \in UserManagers : CreateAccount(u, row, actor)
  \/ \E r \in Updates, u \in AccountIds, actor \in UserManagers :
       \/ \E self \in BOOLEAN, change \in Changes : UpdateAccount(r, u, actor, self, change)
       \/ RemoveAccount(r, u, actor)
  \/ \E r \in Updates, u \in AccountIds, p \in Passwords : CreateOwner(r, u, p)
  \/ \E r \in Updates : UpdateWrite(r) \/ RemoveAccountWrite(r) \/ AbortUpdate(r)

Enter ==
  \E l \in Logins :
    \/ \E u \in AccountIds, p \in Passwords : Login(l, u, p)
    \/ UpgradeHash(l) \/ Sign(l) \/ AbortLogin(l)

AccountsNext == Administer \/ Enter

AccountsSpec == AccountsInit /\ [][AccountsNext]_accountVars

-----------------------------------------------------------------------------
(* Properties *)

\* The request writes what it has decided on an account that has since been changed.
WritesStale(r) ==
  /\ update[r] # NoRequest /\ update'[r] = NoRequest
  /\ LET now == user[update[r].sub] IN
     now # Removed /\ \E f \in DOMAIN update[r].seen : update[r].seen[f] # now[f]

\* The sessions there are and the ones that logins are about to open.
Sessions == token \cup {Signed(l) : l \in {l \in Logins : login[l] # NoRequest}}
Knows(t) == t.password = user[t.sub].password

\* Who holds a session knows the password the account has now, whatever logins,
\* hash upgrades and password changes interleave (sessionVersion, and the
\* condition of upgradePasswordHash); only a run of create-owner.ts that writes
\* over an update it has not seen can break this.
SessionsKnowThePassword ==
  [][\A t \in Sessions' :
       Valid(t)' /\ ~ Knows(t)' => \/ t \in Sessions /\ Valid(t) /\ ~ Knows(t)
                                   \/ \E r \in Updates : WritesStale(r)]_accountVars

\* A session that has ended is never good again, neither by undoing the change
\* that ended it nor by a login that was under way, unless two updates of the
\* account overlap: the second then decides on a state the first has replaced.
EndedSessionsStayEnded ==
  [][\A t \in Sessions : ~ Valid(t) /\ Valid(t)' => \E r \in Updates : WritesStale(r)]_accountVars

\* Only an owner, or the script, changes or removes an owner ('Somente OWNER pode
\* administrar outro OWNER.'), unless the account became one during the request.
OwnersManagedByOwners ==
  [][\A u \in AccountRows :
       user[u].role = "OWNER" /\ user'[u] # user[u] =>
         \/ \E r \in Updates : update'[r] # update[r] /\ (update[r].actor = "OWNER" \/ WritesStale(r))
         \/ user'[u] = [user[u] EXCEPT !.hash = "current"]]_accountVars
=============================================================================
