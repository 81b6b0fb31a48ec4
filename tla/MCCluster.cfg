SPECIFICATION Spec
CONSTANTS
  n1 = n1  n2 = n2  d1 = d1  d2 = d2  j1 = j1  j2 = j2  c1 = c1  c2 = c2
  Nodes = {n1, n2}
  DBs = {d1}
  Jobs = {j1, j2}
  Clients = {c1, c2}
  Requests = {"create", "drop", "sql"}
  None = None
  Cycle = 2
SYMMETRY Alike
CONSTRAINTS SomeKept Bounded
INVARIANTS TypeOK OneHome RoutesKnown
PROPERTIES DroppedIsGone
CHECK_DEADLOCK FALSE
