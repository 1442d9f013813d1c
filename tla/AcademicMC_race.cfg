SPECIFICATION MCSpec
CONSTANTS
  s1 = s1  s2 = s2
  jj = jj
  c1 = c1
  p1 = p1  p2 = p2
  m1 = m1  m2 = m2
  a1 = a1  d1 = d1
  r1 = r1  r2 = r2
  None = None
  Students = {s1, s2}
  Modalities = {jj}
  Classes = {c1}
  Periods = {p1, p2}
  Memberships = {m1, m2}
  Attendances = {a1}
  Days = {d1}
  Requests = {r1, r2}
  Capacities = {1}
SYMMETRY Symmetry
INVARIANTS OverbookingBounded AttendanceBacked
PROPERTY SerialRules
\* The bounded ids run out: with no row left to create the academy may stop.
CHECK_DEADLOCK FALSE
