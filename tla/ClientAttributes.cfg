CONSTANTS
  Requests = {r1, r2}
  Values = {"a1", "a2"}
  Initial = "a0"
  SaveMayFail = TRUE
SPECIFICATION Spec
INVARIANTS
  AttributesAccepted
  StoredMatchesMemory
