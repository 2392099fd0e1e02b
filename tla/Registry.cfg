SPECIFICATION Spec
CONSTANTS
  e1 = e1
  e2 = e2
  AgentIds = {a1}
  Endpoints = {e1, e2}
  Absent = Absent
  Unset = Unset
  Clients = {c1, c2}
  Patches <- SomePatches
INVARIANTS TypeOK
PROPERTIES ContractUnlessStale UnreadableIsForever
