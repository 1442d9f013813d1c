SPECIFICATION Spec
ACTION_CONSTRAINT OneAtATime
CONSTANTS
  s1 = s1  s2 = s2  basic = basic  full = full
  c1 = c1  c2 = c2  c3 = c3  c4 = c4  p1 = p1  p2 = p2  r1 = r1  r2 = r2  None = None
  Students = {s1}
  Plans = {basic}
  Charges = {c1, c2}
  Payments = {p1, p2}
  Requests = {r1}
  ChargeTypes = {"ENROLLMENT_FEE", "MONTHLY_FEE", "OTHER"}
  Prices = {2}
  BillingDays = {1}
  Starts = {0, 1}
  NewRows <- ManualRows
  Patches <- SomePatches
  MonthLength = 2
  SafeDay = 1
  Horizon = 2
SYMMETRY Symmetry
INVARIANT ReceivedMoneyShows
