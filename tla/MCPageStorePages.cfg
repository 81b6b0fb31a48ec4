SPECIFICATION Spec
CONSTANTS
  v1 = v1  v2 = v2
  k1 = k1  k2 = k2
  Keys = {k1}
  Values = {v1, v2}
  None = None
  Torn = Torn
  Absent = Absent
  KillBeforeCount = FALSE
  MaxPage = 5
  MaxKills = 2
SYMMETRY Pairs
INVARIANTS TypeOK ReadsBack Recoverable
PROPERTIES NoLivePageOverwritten ImplementsMap
CHECK_DEADLOCK FALSE
