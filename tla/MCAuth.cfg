SPECIFICATION Spec
CONSTANTS
  c1 = c1  c2 = c2
  Clients = {c1, c2}
  Users = {"admin", "u"}
  Groups = {"admin", "g"}
  Databases = {"d"}
  Operations = {"READ"}
  Salts <- SomeSalts
  MaxFaults = 3
  MaxCommands = 2
INVARIANTS TypeOK PromisesKept TokensHold StillAdmin
PROPERTY StartsAddNoRight
SYMMETRY Connections
CHECK_DEADLOCK FALSE
