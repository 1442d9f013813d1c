SPECIFICATION Spec
CONSTANTS
  g1 = g1  g2 = g2  g3 = g3  g4 = g4
  ana = ana  leo = leo
  blue = blue  purple = purple
  r1 = r1  r2 = r2
  None = None
  Blank = Blank
  Struck = Struck
  Ids = {g1, g2, g3, g4}
  Subjects = {ana, leo}
  Facts = {blue, purple}
  Requests = {r1, r2}
SYMMETRY Symmetry
INVARIANT ChainUnbroken
PROPERTY ImplementsBook
\* The bounded ids run out: with no row left the requests may stop.
CHECK_DEADLOCK FALSE
