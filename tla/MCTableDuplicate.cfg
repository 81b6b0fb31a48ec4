SPECIFICATION Spec
CONSTANTS
  a = a  b = b  n = n
  Columns <- KeyedColumns
  Constraint <- KeyedConstraint
  Domain <- KeyedDomain
  Default <- KeyedDefault
  Values = {a, b}
  NULL = n
  Conditions <- KeyedConditions
  Assignments <- KeyedAssignments
  NoRow = NoRow
  NoId = NoId
  Lost = Lost
  RevertAllowed = TRUE
  MaxRows = 3
  MaxTime = 2
  MaxLog = 5
INVARIANT RebuildNeverThrows
CHECK_DEADLOCK FALSE
