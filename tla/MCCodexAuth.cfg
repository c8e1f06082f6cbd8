SPECIFICATION Spec
CONSTANTS
  p1 = p1
  p2 = p2
  Processes = {p1, p2}
  Callers = {p1, p2}
  Home <- MCHome
  MaxDocs = 2
  MaxUpsets = 1
  OrderedMetadata = TRUE
INVARIANTS NewestSurvives SpentNotReused LoginServed
CHECK_DEADLOCK FALSE
SYMMETRY Exchange
