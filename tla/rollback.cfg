\* Two responders, two rollbacks; the evidence changes twice.
SPECIFICATION Spec
CONSTANTS
  k1 = k1
  k2 = k2
  a1 = a1
  a2 = a2
  local = local
  write = write
  p1 = p1
  p2 = p2
  Keys = {k1, k2}
  Adapters = {a1, a2}
  Permissions = {local, write}
  Responders = {p1, p2}
  StartEvidence <- MCStartEvidence
  FieldValues <- FewFields
  MaxEdits = 2
SYMMETRY Symmetric
INVARIANTS
  AssessmentSound
  RollbacksAccountedFor
PROPERTIES
  ImplementsRollbackOnce
