SPECIFICATION Spec
CONSTANTS
  v1 = v1  v2 = v2
  k1 = k1  k2 = k2
  Keys = {k1, k2}
  Values = {v1, v2}
  None = None
  Torn = Torn
  Absent = Absent
  KillBeforeCount = TRUE
  MaxPage = 5
  MaxKills = 2
SYMMETRY Symmetry
INVARIANT ReadsBack
CHECK_DEADLOCK FALSE
