SPECIFICATION Spec
CONSTANTS
  v1 = v1  c1 = c1  c2 = c2
  Variants = {v1}
  Prices = {1, 2}
  Quantities = {1, 2}
  Calls = {c1, c2}
  MaxLine = 2
  MaxStock = 1
  MaxItems = 2
  MaxOrders = 2
  MaxEdits = 1
  s1 = s1  j1 = j1  j2 = j2
  Enrolled = {s1}
  Jobs = {j1, j2}
  MaxDocuments = 1
  MaxKeys = 3
  MaxFailures = 1
SYMMETRY Symmetry
INVARIANTS TypeOK AvailableCartsCheckOut NamedFilesExist NoStrayFiles
PROPERTIES CheckoutTakesTheCart PaysWhatItSaw
\* The bounded ids run out: with none left the requests may stop.
CHECK_DEADLOCK FALSE
