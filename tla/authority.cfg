\* Review: two valid requests, two changed fields, nine units of time.
\* Ledger: two pilots, two grant ids, two pieces of evidence, five requests.
SPECIFICATION MCSpec
CONSTANTS
  g1 = g1
  g2 = g2
  ev1 = ev1
  ev2 = ev2
  w1 = w1
  w2 = w2
  s1 = s1
  s2 = s2
  p1 = p1
  p2 = p2
  r1 = r1
  r2 = r2
  GrantIds = {g1, g2}
  Evidences = {ev1, ev2}
  Works = {w1, w2}
  Snapshots = {s1, s2}
  CLOCK_SKEW = 1
  MAX_PREFLIGHT_AGE = 3
  MAX_AUTH_SOURCE_AGE = 2
  MAX_GRANT_TTL = 3
  StartBundles <- MCStartBundles
  FieldValues <- MCFieldValues
  MaxEdits = 2
  ReviewTime = 9
  Pilots = {p1, p2}
  Requests <- MCRequests
  ReceiptIds = {r1, r2}
  MaxTime = 1
SYMMETRY Symmetric
INVARIANTS
  VerdictSound
  NoRevival
  EvidenceAgeAtClaim
  ConsumedByItsRun
  RunsPermitted
PROPERTIES
  ImplementsSingleUseGrant
