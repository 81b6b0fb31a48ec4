SPECIFICATION Spec
CONSTANTS
  n1 = n1  n2 = n2  d1 = d1  d2 = d2  j1 = j1  j2 = j2  c1 = c1  c2 = c2
  Nodes = {n1, n2}
  DBs = {d1}
  Jobs = {j1}
  Clients = {c1}
  Requests = {"create"}
  None = None
  Cycle = 2
PROPERTIES Answered DeadNoticed
CHECK_DEADLOCK FALSE
