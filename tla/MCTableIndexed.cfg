SPECIFICATION Spec
CONSTANTS
  a = a  b = b  n = n
  Columns <- KeyedColumns
  Constraint <- KeyedConstraint
  Domain <- KeyedDomain
  Default <- KeyedDefault
  Values = {a, b}
  NULL = n
  Conditions <- KeyedConditions
  Assignments <- KeyedAssignments
  NoRow = NoRow
  NoId = NoId
  Lost = Lost
  RevertAllowed = FALSE
  MaxRows = 3
  MaxTime = 0
  MaxLog = 6
INVARIANTS IndexExact RebuildNeverThrows
CHECK_DEADLOCK FALSE
