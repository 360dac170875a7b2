\* Two fair executors race, crash and retry on one dedupe key.
SPECIFICATION FairSpec
CONSTANTS
  k1 = k1
  p1 = p1
  p2 = p2
  e1 = e1
  e2 = e2
  Keys = {k1}
  Permissions <- MCPermissions
  PermissionAllowlist <- MCAllowlist
  Executors = {e1, e2}
  Items <- OneKeyItems
  MaxFaults = 2
  AuditBound = 5
  MaxRetryLimit = 3
INVARIANTS
  ExclusiveClaim
PROPERTIES
  OwnershipRule
  ClaimsSettle
  ImplementsSingleFlight
