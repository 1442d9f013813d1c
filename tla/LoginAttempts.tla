---------------------------- MODULE LoginAttempts ----------------------------
(***************************************************************************)
(* The limit on login attempts: backend/src/auth/login-rate-limit.service  *)
(* and the login handler of auth.controller.                               *)
(*                                                                         *)
(* Every attempt is counted against its address and its account, in one    *)
(* Serializable transaction, before the credentials are looked at; a login *)
(* that succeeds forgets the attempts on the account in a statement of its *)
(* own.  A window starts with the first attempt counted in it, and the     *)
(* attempt that reaches the limit is let through and locks the key.        *)
(***************************************************************************)
EXTENDS Integers, Sequences, FiniteSets

CONSTANTS
  Addresses,    \* ipKey of the clients
  Emails,       \* accountKey of the e-mails, of accounts or not
  AddressMax,   \* AUTH_RATE_LIMIT_MAX_ATTEMPTS
  EmailMax,     \* AUTH_ACCOUNT_RATE_LIMIT_MAX_ATTEMPTS
  Window,       \* AUTH_RATE_LIMIT_WINDOW_SECONDS
  Lockout,      \* AUTH_LOCKOUT_SECONDS
  LoginSlots,   \* logins that can be in flight at the same time
  MaxTime       \* bound: the clock

ASSUME LoginAttemptsAssumption ==
  /\ Addresses \cap Emails = {}
  /\ {AddressMax, EmailMax, Window, Lockout} \subseteq Nat \ {0}
  /\ MaxTime \in Nat

VARIABLES
  bucket,       \* the rows of AuthRateLimitBucket
  now,          \* the clock of the database's clients
  succeeded,    \* the account a login has entered, until it resets the account's bucket
  admitted      \* history: the last attempts let through, by key, since the last reset

attemptVars == <<bucket, now, succeeded, admitted>>

-----------------------------------------------------------------------------
Keys == Addresses \cup Emails
MaxAttempts(key) == IF key \in Addresses THEN AddressMax ELSE EmailMax

Never == -1     \* lockedUntil: null
NoBucket == [attempts |-> 0]
Bucket == [attempts : Nat \ {0}, started : 0..MaxTime, lockedUntil : {Never} \cup Nat, updated : 0..MaxTime]
NoLogin == "free"

Longer(a, b) == IF a < b THEN b ELSE a
Remembered(key) == 2 * MaxAttempts(key)

AttemptsTypeOK ==
  /\ \A key \in Keys : bucket[key] = NoBucket \/ bucket[key] \in Bucket
  /\ now \in 0..MaxTime
  /\ succeeded \in [LoginSlots -> Emails \cup {NoLogin}]
  /\ \A key \in Keys :
       /\ Len(admitted[key]) <= Remembered(key)
       /\ admitted[key] \in Seq([at : 0..MaxTime, locks : BOOLEAN])

-----------------------------------------------------------------------------
(* Counting an attempt *)

\* The rows the transaction finds after it has deleted the stale ones.
Kept(b) == b # NoBucket /\ b.updated >= now - Longer(Window, Lockout)

Locked(b) == b.lockedUntil > now

\* Mutants of Expired: a lock that is over leaves the count it was set for; the
\* window slides with the last attempt.
ExpiredWindow(b) == b.started + Window <= now
ExpiredAtEveryAttempt(b) == b.updated < now \/ (b.lockedUntil # Never /\ b.lockedUntil <= now)

\* resetWindow of a row that there is.
Expired(b) == b.started + Window <= now \/ (b.lockedUntil # Never /\ b.lockedUntil <= now)

Counted(b) == IF Kept(b) /\ ~ Expired(b) THEN b.attempts + 1 ELSE 1
Started(b) == IF Kept(b) /\ ~ Expired(b) THEN b.started ELSE now

\* Mutant of Consumed: the lockout runs from the start of the window.
LockedFromStart(key) ==
  LET b == bucket[key] IN
  [attempts |-> Counted(b), started |-> Started(b), updated |-> now,
   lockedUntil |-> IF Counted(b) >= MaxAttempts(key) THEN Started(b) + Lockout ELSE Never]

\* consumeBucket: the row it writes for a key that is not locked.
Consumed(key) ==
  LET b == bucket[key] IN
  [attempts |-> Counted(b), started |-> Started(b), updated |-> now,
   lockedUntil |-> IF Counted(b) >= MaxAttempts(key) THEN now + Lockout ELSE Never]

Latest(history, n) == IF Len(history) > n THEN Tail(history) ELSE history

\* consumeAttempt: either key that is locked rolls everything back.
Consume(address, email) ==
  LET keys == {address, email} IN
  /\ \A key \in keys : Kept(bucket[key]) => ~ Locked(bucket[key])
  /\ bucket' = [key \in Keys |->
       IF key \in keys THEN Consumed(key) ELSE IF Kept(bucket[key]) THEN bucket[key] ELSE NoBucket]
  /\ admitted' = [key \in Keys |->
       IF key \in keys
       THEN Latest(Append(admitted[key], [at |-> now, locks |-> Consumed(key).lockedUntil # Never]),
                   Remembered(key))
       ELSE admitted[key]]

\* An attempt is counted and its credentials are wrong, or right.
FailedAttempt(address, email) ==
  Consume(address, email) /\ UNCHANGED <<now, succeeded>>

GoodAttempt(l, address, email) ==
  /\ succeeded[l] = NoLogin
  /\ Consume(address, email)
  /\ succeeded' = [succeeded EXCEPT ![l] = email]
  /\ UNCHANGED now

\* resetAccount.
ResetAccount(l) ==
  /\ succeeded[l] # NoLogin
  /\ bucket' = [bucket EXCEPT ![succeeded[l]] = NoBucket]
  /\ admitted' = [admitted EXCEPT ![succeeded[l]] = <<>>]
  /\ succeeded' = [succeeded EXCEPT ![l] = NoLogin]
  /\ UNCHANGED now

\* The statement fails, or the process stops before it.
ResetFails(l) ==
  /\ succeeded[l] # NoLogin
  /\ succeeded' = [succeeded EXCEPT ![l] = NoLogin]
  /\ UNCHANGED <<bucket, now, admitted>>

Tick == now < MaxTime /\ now' = now + 1 /\ UNCHANGED <<bucket, succeeded, admitted>>

AttemptsInit ==
  /\ bucket = [key \in Keys |-> NoBucket]
  /\ now = 0
  /\ succeeded = [l \in LoginSlots |-> NoLogin]
  /\ admitted = [key \in Keys |-> <<>>]

AttemptsNext ==
  \/ \E address \in Addresses, email \in Emails :
       FailedAttempt(address, email) \/ \E l \in LoginSlots : GoodAttempt(l, address, email)
  \/ \E l \in LoginSlots : ResetAccount(l) \/ ResetFails(l)
  \/ Tick

AttemptsSpec == AttemptsInit /\ [][AttemptsNext]_attemptVars

-----------------------------------------------------------------------------
(* Properties *)

\* The attempts at positions i to j, none of which locked the key.
Unlocked(history, i, j) == \A k \in i..j : ~ history[k].locks

\* After an attempt that locks a key none is let through for the whole lockout:
\* the deletion of stale buckets, which runs in every attempt for every key,
\* never deletes a lock.
LockoutHolds ==
  \A key \in Keys : \A i \in 1..(Len(admitted[key]) - 1) :
    admitted[key][i].locks => admitted[key][i + 1].at >= admitted[key][i].at + Lockout

\* A key is locked only for as many attempts as the limit within one window,
\* counted from the lock before: attempts that were answered for are not held
\* against anyone again.
LocksAreEarned ==
  \A key \in Keys : LET history == admitted[key] max == MaxAttempts(key) IN
    \A j \in DOMAIN history :
      history[j].locks => /\ j >= max \/ Len(history) = Remembered(key)
                          /\ j >= max => /\ history[j].at - history[j - max + 1].at < Window
                                         /\ Unlocked(history, j - max + 1, j - 1)

\* Guessing is limited over any stretch of time, also across two windows: of
\* twice the limit less one attempts in a row one locks the key, or they take
\* longer than a window.
NoFreeGuesses ==
  \A key \in Keys : LET history == admitted[key] n == 2 * MaxAttempts(key) - 1 IN
    \A i \in 1..(Len(history) - n + 1) :
      \/ ~ Unlocked(history, i, i + n - 1)
      \/ history[i + n - 1].at - history[i].at >= Window
=============================================================================
