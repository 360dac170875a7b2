\* A success set by a reconciler meets the executor's late uncertain mark.
SPECIFICATION RSpec
CONSTANTS
  k1 = k1
  p1 = p1
  p2 = p2
  e1 = e1
  e2 = e2
  r1 = r1
  Keys = {k1}
  Permissions <- MCPermissions
  PermissionAllowlist <- MCAllowlist
  Executors = {e1, e2}
  Reconcilers = {r1}
  Items <- MCItems
  MaxFaults = 0
  AuditBound = 0
  MaxReconciles = 1
  MaxRetryLimit = 2
PROPERTY SuccessIsFinal
CHECK_DEADLOCK FALSE
