SPECIFICATION Spec
CONSTANTS
  Ids = {w1}
  Definitions = {d1, d2, cyclic}
  Valid = {d1, d2}
  Absent = Absent
  Clients = {c1, c2, c3}
INVARIANTS TypeOK OnlyRacesSurprise LaunchedWereStored
PROPERTIES ImplementsCatalog
