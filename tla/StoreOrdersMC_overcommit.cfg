SPECIFICATION Spec
CONSTANTS
  o1 = o1  o2 = o2  p1 = p1  p2 = p2  p3 = p3
  shirt = shirt  sv = sv  kv = kv
  rec = rec  own = own  stu = stu  r1 = r1  r2 = r2  None = None
  Orders = {o1}
  Payments = {p1, p2, p3}
  Products = {shirt}
  Variants = {sv}
  ProductOf <- AllOfShirt
  Staff = {rec, own}
  Approvers = {own}
  Students = {stu}
  Requests = {r1, r2}
  SalePrices = {2}
  EditStatuses = {}
  MaxQuantity = 1
  MaxEntries = 1
SYMMETRY Symmetry
INVARIANT CommittedWithinTotal
\* The bounded ids run out: with no order or payment left to create the store may stop.
CHECK_DEADLOCK FALSE
