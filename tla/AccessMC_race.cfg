SPECIFICATION Spec
CONSTANTS
  AccountIds = {u1}
  Passwords = {pA, pB}
  Roles = {"OWNER", "ADMIN"}
  Logins = {l1}
  Updates = {r1, r2}
  Changes <- SingleChanges
  MaxVersion = 2
  MaxTokens = 1
  Addresses = {ip1}
  Emails = {e1, e2}
  AddressMax = 3
  EmailMax = 2
  Window = 3
  Lockout = 2
  LoginSlots = {s1}
  MaxTime = 5
SYMMETRY Symmetry
INVARIANTS TypeOK LockoutHolds LocksAreEarned NoFreeGuesses
PROPERTIES SessionsKnowThePassword EndedSessionsStayEnded OwnersManagedByOwners
\* The bounded ids run out: with no token or window left the requests may stop.
CHECK_DEADLOCK FALSE
