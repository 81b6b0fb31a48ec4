SPECIFICATION Spec
CONSTANTS
  t1 = t1  t2 = t2  c1 = c1  c2 = c2  w1 = w1  w2 = w2
  Tasks = {t1, t2}
  Clients = {c1, c2}
  Workers = {w1, w2}
  None = None
  MaxSpurious = 1
INVARIANTS TypeOK OnePlace SentOnce
PROPERTIES AnswersAdvance EveryTaskFinishes
CHECK_DEADLOCK FALSE
