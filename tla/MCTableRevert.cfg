SPECIFICATION Spec
CONSTANTS
  a = a  b = b  n = n
  Columns <- PlainColumns
  Constraint <- PlainConstraint
  Domain <- PlainDomain
  Default <- PlainDefault
  Values = {a, b}
  NULL = n
  Conditions <- PlainConditions
  Assignments <- PlainAssignments
  NoRow = NoRow
  NoId = NoId
  Lost = Lost
  RevertAllowed = TRUE
  MaxRows = 2
  MaxTime = 2
  MaxLog = 3
INVARIANTS TypeOK LogExplainsRows LogExplainsDisk UnsavedIsLogged NoRowBeyondCount
PROPERTY RevertRestores
CHECK_DEADLOCK FALSE
